-------------------------- MODULE StreamDeliveryProofs --------------------------
(***************************************************************************)
(* Theorems about StreamDelivery, for every number of keys, consumers,     *)
(* retries, published messages and faults.  Three invariants rest on the   *)
(* shapes: who has handled what (Handled), how often an attempt has failed *)
(* (Attempts), and who may still repeat an effect (Repeats).               *)
(***************************************************************************)
EXTENDS StreamDelivery, SequenceTheorems, FiniteSetTheorems, TLAPS

AtRest == {"down", "ready", "read"}
\* The states of a consumer that works with entries up to g.
ConsumerStates(g) ==
  {s \in [at: Places, batch: Seq(1 .. g)] :
     Len(s.batch) <= BatchSize /\ (s.at \notin AtRest => s.batch # <<>>)}
Busy(c) == consumer[c].at \notin AtRest

PendingOK ==
  /\ holder \in [Ids -> Consumers \cup {NoOne}]
  /\ idle \subseteq Pending /\ Pending \subseteq 1 .. group
Counts == effects \in [Keys -> Nat] /\ failures \in [Keys -> Nat] /\ excused \in [Keys -> Nat]

\* TypeOK, with the function consumer in one piece.
Shapes ==
  /\ stream \in Seq(Messages) /\ first \in 1 .. Len(stream) + 1 /\ group \in -1 .. Len(stream)
  /\ PendingOK
  /\ done \subseteq Keys /\ deadLetters \in Seq([key : Keys, retry : {MaxRetries + 1}])
  /\ consumer \in [Consumers -> ConsumerStates(group)]
  /\ faults \in 0 .. MaxFaults
  /\ published \subseteq Keys /\ lost \subseteq published
  /\ \A i \in Ids : stream[i].key \in published
  /\ Counts

-------------------------------------------------------------------------------
\* The order of a set of entries.
LEMMA RankIs ==
  ASSUME NEW S, IsFiniteSet(S), S \subseteq Int, NEW i \in S
  PROVE  /\ Rank(S, i) \in 0 .. Cardinality(S) - 1
         /\ \A j \in S : i < j => Rank(S, i) < Rank(S, j)
         /\ \A j \in S : Rank(S, i) = Rank(S, j) => i = j
  <1>1. ASSUME NEW a \in S, NEW b \in S, a < b PROVE Rank(S, a) < Rank(S, b)
    <2> DEFINE A == {j \in S : j < a}
               B == {j \in S : j < b}
    <2>1. A \subseteq B /\ a \in B /\ a \notin A
      <3>1. a \in Int /\ b \in Int /\ \A j \in S : j \in Int
        OBVIOUS
      <3>2. \A j \in S : j < a => j < b
        BY <1>1, <3>1
      <3>3. ~(a < a)
        BY <3>1
      <3> QED BY <1>1, <3>2, <3>3
    <2>4. B \in SUBSET S
      OBVIOUS
    <2>5. IsFiniteSet(B)
      BY <2>4, FS_Subset
    <2>2. Cardinality(A) <= Cardinality(B) /\ Cardinality(A) # Cardinality(B) /\ IsFiniteSet(A)
      BY <2>1, <2>5, FS_Subset
    <2>3. Cardinality(A) \in Nat /\ Cardinality(B) \in Nat
      BY <2>2, <2>5, FS_CardinalityType
    <2> QED BY <2>2, <2>3 DEF Rank
  <1>2. Rank(S, i) \in 0 .. Cardinality(S) - 1
    <2> DEFINE A == {j \in S : j < i}
    <2>1. A \subseteq S /\ i \in S /\ i \notin A
      OBVIOUS
    <2>2. Cardinality(A) <= Cardinality(S) /\ Cardinality(A) # Cardinality(S) /\ IsFiniteSet(A)
      BY <2>1, FS_Subset
    <2>3. Cardinality(A) \in Nat /\ Cardinality(S) \in Nat
      BY <2>2, FS_CardinalityType
    <2> QED BY <2>2, <2>3 DEF Rank
  <1>3. ASSUME NEW j \in S, Rank(S, i) = Rank(S, j) PROVE i = j
    <2>1. \A a \in S : Rank(S, a) \in Int
      <3> SUFFICES ASSUME NEW a \in S PROVE Rank(S, a) \in Int
        OBVIOUS
      <3>1. {k \in S : k < a} \subseteq S
        OBVIOUS
      <3> QED BY <3>1, FS_Subset, FS_CardinalityType DEF Rank
    <2> QED BY <1>1, <1>3, <2>1
  <1> QED BY <1>1, <1>2, <1>3

LEMMA RankOnto ==
  ASSUME NEW S, IsFiniteSet(S), S \subseteq Int, NEW k \in 0 .. Cardinality(S) - 1
  PROVE  \E i \in S : Rank(S, i) = k
  <1> DEFINE n == Cardinality(S)
             R == 0 .. n - 1
             f == [i \in S |-> Rank(S, i)]
  <1>1. n \in Nat
    BY FS_CardinalityType
  <1>2. f \in Injection(S, R)
    <2>1. f \in [S -> R]
      BY RankIs
    <2>2. \A i, j \in S : f[i] = f[j] => i = j
      BY RankIs
    <2> QED BY <2>1, <2>2 DEF Injection, IsInjective
  <1>3. IsFiniteSet(R) /\ Cardinality(R) = n
    BY <1>1, FS_Interval
  <1>4. f \in Surjection(S, R)
    BY <1>2, <1>3, FS_Injection
  <1> QED BY <1>4 DEF Surjection

LEMMA FirstOfIs ==
  ASSUME NEW S, IsFiniteSet(S), S \subseteq Int, NEW n \in Nat
  PROVE  /\ FirstOf(S, n) \subseteq S /\ IsFiniteSet(FirstOf(S, n))
         /\ Cardinality(FirstOf(S, n)) <= n
         /\ \A i \in S, j \in FirstOf(S, n) : i <= j => i \in FirstOf(S, n)
  <1> DEFINE F == FirstOf(S, n)
             R == 0 .. n - 1
             f == [i \in F |-> Rank(S, i)]
  <1>1. F \subseteq S /\ IsFiniteSet(F)
    BY FS_Subset DEF FirstOf
  <1>2. f \in Injection(F, R)
    <2>1. f \in [F -> R]
      <3> SUFFICES ASSUME NEW i \in F PROVE Rank(S, i) \in R
        OBVIOUS
      <3>1. Cardinality(S) \in Nat /\ i \in S /\ Rank(S, i) < n
        BY FS_CardinalityType DEF FirstOf
      <3>2. Rank(S, i) \in 0 .. Cardinality(S) - 1
        BY <3>1, RankIs
      <3> QED BY <3>1, <3>2
    <2>2. \A i, j \in F : f[i] = f[j] => i = j
      BY <1>1, RankIs
    <2> QED BY <2>1, <2>2 DEF Injection, IsInjective
  <1>3. IsFiniteSet(R) /\ Cardinality(R) = n
    BY FS_Interval
  <1>4. Cardinality(F) <= n
    BY <1>2, <1>3, FS_Injection
  <1>5. ASSUME NEW i \in S, NEW j \in F, i <= j PROVE i \in F
    <2>1. Rank(S, i) <= Rank(S, j) /\ Rank(S, j) < n /\ Rank(S, i) \in Int /\ Rank(S, j) \in Int
      <3>1. Cardinality(S) \in Nat /\ j \in S
        BY <1>1, FS_CardinalityType
      <3>2. i = j \/ i < j
        BY <1>5, <3>1
      <3>3. Rank(S, i) \in 0 .. Cardinality(S) - 1 /\ Rank(S, j) \in 0 .. Cardinality(S) - 1
        BY <3>1, RankIs
      <3>4. i < j => Rank(S, i) < Rank(S, j)
        BY <3>1, RankIs
      <3>5. Rank(S, j) < n
        BY <1>5 DEF FirstOf
      <3> QED BY <3>1, <3>2, <3>3, <3>4, <3>5
    <2> QED BY <2>1 DEF FirstOf
  <1> QED BY <1>1, <1>4, <1>5

LEMMA InOrderIs ==
  ASSUME NEW S, IsFiniteSet(S), S \subseteq Int
  PROVE  InOrder(S) \in Seq(S) /\ Len(InOrder(S)) = Cardinality(S)
  <1> DEFINE n == Cardinality(S)
             at(k) == CHOOSE i \in S : Rank(S, i) = k - 1
  <1>1. n \in Nat
    BY FS_CardinalityType
  <1>2. \A k \in 1 .. n : at(k) \in S
    <2> SUFFICES ASSUME NEW k \in 1 .. n PROVE at(k) \in S
      OBVIOUS
    <2>1. k - 1 \in 0 .. n - 1
      BY <1>1
    <2>2. \E i \in S : Rank(S, i) = k - 1
      BY <2>1, RankOnto
    <2> QED BY <2>2
  <1>3. InOrder(S) = [k \in 1 .. n |-> at(k)]
    BY DEF InOrder
  <1> HIDE DEF at, n
  <1>4. [k \in 1 .. n |-> at(k)] \in [1 .. n -> S]
    BY <1>2
  <1>5. InOrder(S) \in Seq(S) /\ Len(InOrder(S)) = n
    BY <1>1, <1>3, <1>4
  <1> QED BY <1>5 DEF n

LEMMA LastOf ==
  ASSUME NEW S, IsFiniteSet(S), S \subseteq Int, S # {}
  PROVE  LET m == CHOOSE i \in S : \A j \in S : j <= i IN m \in S /\ \A j \in S : j <= m
  <1> DEFINE n == Cardinality(S)
  <1>1. n \in Nat /\ n # 0
    BY FS_CardinalityType, FS_EmptySet
  <1>2. n - 1 \in 0 .. n - 1
    BY <1>1
  <1>3. PICK i \in S : Rank(S, i) = n - 1
    BY <1>2, RankOnto
  <1>4. \A j \in S : j <= i
    <2> SUFFICES ASSUME NEW j \in S, i < j PROVE FALSE
      OBVIOUS
    <2>1. Rank(S, i) < Rank(S, j) /\ Rank(S, j) \in 0 .. n - 1
      BY RankIs
    <2> QED BY <1>1, <1>3, <2>1
  <1> QED BY <1>4
-------------------------------------------------------------------------------
(***************************************************************************)
(* Shapes.                                                                 *)
(***************************************************************************)
LEMMA ShapesAre ==
  ASSUME Shapes
  PROVE  /\ Len(stream) \in Nat /\ first \in Nat /\ group \in Int /\ group <= Len(stream)
         /\ -1 <= group /\ 1 <= first /\ first <= Len(stream) + 1
         /\ \A i \in Ids : stream[i] \in Messages
         /\ IsFiniteSet(Ids) /\ Ids \subseteq Int
         /\ BatchSize \in Nat \ {0} /\ MaxRetries \in Nat /\ MaxLen \in Nat \ {0}
         /\ IsFiniteSet(Consumers)
  <1>1. Len(stream) \in Nat /\ stream \in Seq(Messages)
    BY LenProperties DEF Shapes
  <1>2. \A i \in Ids : stream[i] \in Messages
    BY <1>1, ElementOfSeq DEF Ids
  <1>3. IsFiniteSet(Ids)
    BY <1>1, FS_Interval DEF Ids
  <1> QED BY <1>1, <1>2, <1>3, Bounds DEF Shapes, Ids

LEMMA MessageIs ==
  ASSUME Shapes, NEW c \in Consumers, Busy(c)
  PROVE  /\ consumer[c].batch \in Seq(1 .. group) /\ consumer[c].batch # <<>>
         /\ Head(consumer[c].batch) \in 1 .. group /\ Head(consumer[c].batch) \in Ids
         /\ group # -1
         /\ Message(c) \in Messages /\ Message(c).key \in Keys /\ Message(c).retry \in 0 .. MaxRetries
         /\ Tail(consumer[c].batch) \in Seq(1 .. group)
         /\ Len(Tail(consumer[c].batch)) <= BatchSize
  <1> DEFINE b == consumer[c].batch
  <1>1. b \in Seq(1 .. group) /\ b # <<>> /\ Len(b) <= BatchSize
    BY DEF Shapes, ConsumerStates, Busy
  <1>2. /\ Head(b) \in 1 .. group /\ Tail(b) \in Seq(1 .. group) /\ Len(Tail(b)) = Len(b) - 1
        /\ Len(b) \in Nat
    BY <1>1, HeadTailProperties, LenProperties
  <1>3. Head(b) \in Ids /\ group # -1
    BY <1>2, ShapesAre, SMTT(60) DEF Ids
  <1>4. Message(c) \in Messages
    BY <1>3, ShapesAre DEF Message
  <1> QED BY <1>1, <1>2, <1>3, <1>4, ShapesAre, SMTT(60) DEF Messages

\* A consumer that goes on with its batch, or with none.
LEMMA StatesAre ==
  ASSUME Shapes, NEW c \in Consumers
  PROVE  /\ \A place \in Places : Busy(c) => [consumer[c] EXCEPT !.at = place] \in ConsumerStates(group)
         /\ \A place \in AtRest : [consumer[c] EXCEPT !.at = place] \in ConsumerStates(group)
         /\ Down \in ConsumerStates(group) /\ Ready \in ConsumerStates(group)
         /\ Busy(c) =>
              LET rest == Tail(consumer[c].batch) IN
              [at |-> IF rest = <<>> THEN "ready" ELSE "check", batch |-> rest] \in ConsumerStates(group)
  <1> DEFINE x == consumer[c]
  <1>1. x \in ConsumerStates(group) /\ x \in [at: Places, batch: Seq(1 .. group)]
        /\ Len(x.batch) <= BatchSize
    BY DEF Shapes, ConsumerStates
  <1>2. \A place \in Places : Busy(c) => [x EXCEPT !.at = place] \in ConsumerStates(group)
    <2> SUFFICES ASSUME NEW place \in Places, Busy(c) PROVE [x EXCEPT !.at = place] \in ConsumerStates(group)
      OBVIOUS
    <2>1. x.batch # <<>>
      BY <1>1 DEF Busy, ConsumerStates
    <2> QED BY <1>1, <2>1 DEF ConsumerStates
  <1>3. \A place \in AtRest : [x EXCEPT !.at = place] \in ConsumerStates(group)
    BY <1>1 DEF ConsumerStates, AtRest, Places
  <1>4. Down \in ConsumerStates(group) /\ Ready \in ConsumerStates(group)
    <2>1. <<>> \in Seq(1 .. group) /\ Len(<<>>) = 0 /\ 0 <= BatchSize
      BY ShapesAre
    <2> QED BY <2>1 DEF Down, Ready, ConsumerStates, AtRest, Places
  <1>5. Busy(c) => LET rest == Tail(x.batch) IN
          [at |-> IF rest = <<>> THEN "ready" ELSE "check", batch |-> rest] \in ConsumerStates(group)
    BY MessageIs DEF ConsumerStates, AtRest, Places
  <1> QED BY <1>2, <1>3, <1>4, <1>5

LEMMA StatesGrow ==
  ASSUME NEW g \in Int, NEW h \in Int, g <= h
  PROVE  ConsumerStates(g) \subseteq ConsumerStates(h)
  <1>1. 1 .. g \subseteq 1 .. h
    OBVIOUS
  <1>2. Seq(1 .. g) \subseteq Seq(1 .. h)
    BY <1>1, SeqMonotonic
  <1> QED BY <1>2 DEF ConsumerStates

LEMMA RemovePendingIs ==
  ASSUME Shapes, NEW i \in Ids, RemovePending(i), UNCHANGED <<stream, group>>
  PROVE  /\ PendingOK'
         /\ holder'[i] = NoOne /\ \A j \in Ids \ {i} : holder'[j] = holder[j]
  <1>1. holder \in [Ids -> Consumers \cup {NoOne}] /\ holder' = [holder EXCEPT ![i] = NoOne]
        /\ idle' = idle \ {i} /\ idle \subseteq Pending /\ Pending \subseteq 1 .. group
    BY DEF Shapes, PendingOK, RemovePending
  <1>2. holder' \in [Ids -> Consumers \cup {NoOne}] /\ holder'[i] = NoOne
        /\ \A j \in Ids \ {i} : holder'[j] = holder[j]
    BY <1>1
  <1>3. Pending' = Pending \ {i}
    BY <1>1, <1>2 DEF Pending
  <1> QED BY <1>1, <1>2, <1>3 DEF PendingOK, Ids
\* A step of a consumer that adds nothing to the stream.
LEMMA ConsumerStep ==
  ASSUME Shapes, NEW c \in Consumers, NEW s \in ConsumerStates(group),
         consumer' = [consumer EXCEPT ![c] = s],
         UNCHANGED <<stream, first, group, deadLetters, published, lost>>,
         PendingOK', done' \subseteq Keys, faults' \in 0 .. MaxFaults, Counts'
  PROVE  Shapes'
  BY DEF Shapes, Ids

LEMMA FramePending ==
  ASSUME Shapes, UNCHANGED <<stream, group, holder, idle>>
  PROVE  PendingOK'
  BY DEF Shapes, PendingOK, Pending, Ids

\* A new entry, published or republished, belongs to nobody.
LEMMA Appended ==
  ASSUME Shapes, NEW m \in Messages, stream' = Append(stream, m), holder' = Append(holder, NoOne),
         UNCHANGED <<group, idle>>
  PROVE  /\ stream' \in Seq(Messages) /\ Len(stream') = Len(stream) + 1
         /\ \A i \in Ids : stream'[i] = stream[i] /\ holder'[i] = holder[i] /\ i \in Ids'
         /\ stream'[Len(stream) + 1] = m /\ holder'[Len(stream) + 1] = NoOne
         /\ \A i \in Ids' : i \in Ids \/ i = Len(stream) + 1
         /\ Len(stream) + 1 \in Ids' /\ Len(stream) + 1 \notin Ids
         /\ PendingOK'
  <1> DEFINE X == Consumers \cup {NoOne}
             n == Len(stream)
  <1>1. n \in Nat /\ stream \in Seq(Messages) /\ holder \in [1 .. n -> X]
    BY ShapesAre DEF Shapes, PendingOK, Ids
  <1>2. holder \in Seq(X) /\ Len(holder) = n
    BY <1>1
  <1>3. /\ stream' \in Seq(Messages) /\ Len(stream') = n + 1 /\ stream'[n + 1] = m
        /\ \A i \in 1 .. n : stream'[i] = stream[i]
    BY <1>1, AppendProperties
  <1>4. /\ holder' \in Seq(X) /\ Len(holder') = n + 1 /\ holder'[n + 1] = NoOne
        /\ \A i \in 1 .. n : holder'[i] = holder[i]
    <2>1. NoOne \in X /\ holder' = Append(holder, NoOne)
      OBVIOUS
    <2> HIDE DEF X
    <2>2. Append(holder, NoOne) \in Seq(X)
      BY <1>2, <2>1
    <2> QED BY <1>1, <1>2, <2>1, <2>2
  <1>5. holder' \in [Ids' -> X] /\ DOMAIN holder' = 1 .. n + 1
    <2>1. holder' \in [1 .. Len(holder') -> X] /\ DOMAIN holder' = 1 .. Len(holder')
      BY <1>4, LenProperties
    <2> QED BY <1>3, <1>4, <2>1 DEF Ids
  <1>6. \A i \in 1 .. n + 1 : i \in 1 .. n \/ i = n + 1
    BY <1>1
  <1>7. Pending' = Pending
    BY <1>1, <1>4, <1>5, <1>6 DEF Pending
  <1>8. PendingOK'
    BY <1>5, <1>7 DEF Shapes, PendingOK
  <1> QED BY <1>1, <1>3, <1>4, <1>6, <1>8 DEF Ids

LEMMA PublishShapes == ASSUME Shapes, NEW k \in Keys, Publish(k) PROVE Shapes'
  <1> DEFINE m == [key |-> k, retry |-> 0]
  <1>1. m \in Messages
    BY ShapesAre DEF Messages
  <1>2. /\ stream' \in Seq(Messages) /\ Len(stream') = Len(stream) + 1 /\ PendingOK'
        /\ \A i \in Ids : stream'[i] = stream[i]
        /\ stream'[Len(stream) + 1] = m /\ \A i \in Ids' : i \in Ids \/ i = Len(stream) + 1
    BY <1>1, Appended DEF Publish
  <1>3. PICK kept \in {first, Len(stream) + 2 - MaxLen} :
          /\ kept >= first /\ first' = kept
          /\ lost' = lost \cup (IF group = -1 THEN {k} ELSE {})
                       \cup {stream[i].key : i \in {j \in first .. kept - 1 : Unfinished(j)}}
    BY DEF Publish
  <1>4. kept \in 1 .. Len(stream) + 1
    BY <1>3, ShapesAre
  <1>5. first .. kept - 1 \subseteq Ids
    BY <1>4, ShapesAre DEF Ids
  <1>6. published' = published \cup {k}
    BY DEF Publish
  <1>7. lost' \subseteq published'
    BY <1>3, <1>5, <1>6 DEF Shapes
  <1>8. \A i \in Ids' : stream'[i].key \in published'
    BY <1>2, <1>6, SMTT(60) DEF Shapes
  <1>9. first' \in 1 .. Len(stream') + 1 /\ group' \in -1 .. Len(stream')
    BY <1>2, <1>3, <1>4, ShapesAre DEF Publish
  <1> QED BY <1>2, <1>6, <1>7, <1>8, <1>9 DEF Shapes, Counts, Publish

LEMMA ReclaimShapes == ASSUME Shapes, NEW c \in Consumers, Reclaim(c) PROVE Shapes'
  <1> DEFINE claimed == FirstOf(Reclaimable, BatchSize)
             s == [at |-> "read", batch |-> InOrder(claimed)]
  <1>1. /\ idle \subseteq Pending /\ Pending \subseteq 1 .. group /\ 1 .. group \subseteq Ids
        /\ Reclaimable \subseteq idle
    BY ShapesAre DEF Shapes, PendingOK, Ids, Reclaimable
  <1>2. IsFiniteSet(Reclaimable) /\ Reclaimable \subseteq Int
    <2>1. Reclaimable \in SUBSET Ids
      BY <1>1
    <2> QED BY <2>1, ShapesAre, FS_Subset
  <1>3. /\ claimed \subseteq Reclaimable /\ IsFiniteSet(claimed) /\ claimed \subseteq Int
        /\ Cardinality(claimed) <= BatchSize
    <2>1. BatchSize \in Nat
      BY ShapesAre
    <2> QED BY <1>2, <2>1, FirstOfIs
  <1> HIDE DEF claimed
  <1>4. InOrder(claimed) \in Seq(claimed) /\ Len(InOrder(claimed)) = Cardinality(claimed)
    BY <1>3, InOrderIs
  <1>5. InOrder(claimed) \in Seq(1 .. group)
    <2>1. claimed \subseteq 1 .. group
      BY <1>1, <1>3
    <2> QED BY <1>4, <2>1, SeqMonotonic
  <1>6. s \in ConsumerStates(group)
    BY <1>3, <1>4, <1>5 DEF ConsumerStates, AtRest, Places
  <1>7. /\ holder' = [i \in Ids |-> IF i \in claimed THEN c
                        ELSE IF i \in idle /\ i < first THEN NoOne ELSE holder[i]]
        /\ idle' = idle \ (claimed \cup {i \in idle : i < first})
        /\ UNCHANGED <<stream, first, group, done, deadLetters, faults, history>>
        /\ consumer' = [consumer EXCEPT ![c] = s]
    BY DEF Reclaim, claimed
  <1>8. holder \in [Ids -> Consumers \cup {NoOne}]
    BY DEF Shapes, PendingOK
  <1>9. /\ holder' \in [Ids -> Consumers \cup {NoOne}]
        /\ \A i \in Ids : holder'[i] = IF i \in claimed THEN c
                                       ELSE IF i \in idle /\ i < first THEN NoOne ELSE holder[i]
    BY <1>7, <1>8
  <1>10. Pending' \subseteq Pending \cup claimed /\ Pending' \subseteq 1 .. group
    BY <1>1, <1>3, <1>8, <1>9 DEF Pending
  <1>11. idle' \subseteq Pending'
    <2> SUFFICES ASSUME NEW i \in idle, i \notin claimed, ~(i < first) PROVE i \in Pending'
      BY <1>7
    <2>1. i \in Ids /\ holder[i] # NoOne
      BY <1>1, <1>8 DEF Pending
    <2> QED BY <1>9, <2>1 DEF Pending
  <1>12. PendingOK'
    BY <1>7, <1>9, <1>10, <1>11 DEF PendingOK, Ids
  <1> HIDE DEF s
  <1> QED BY <1>6, <1>7, <1>12, ConsumerStep DEF history, Shapes, Counts
\* XREADGROUP delivers the oldest new entries, and leaves none of them behind.
LEMMA ReadNewIs ==
  ASSUME Shapes, NEW c \in Consumers, ReadNew(c)
  PROVE  LET room == BatchSize - Len(consumer[c].batch)
             new == FirstOf({i \in Ids : i > group /\ i >= first}, room)
             batch == consumer[c].batch \o InOrder(new)
         IN
         /\ new \subseteq Ids /\ group' \in Int /\ group <= group' /\ group' <= Len(stream)
         /\ \A i \in new : i <= group'
         /\ \A i \in Ids : i > group /\ i <= group' /\ i >= first => i \in new
         /\ batch \in Seq(1 .. group') /\ Len(batch) <= BatchSize
  <1> DEFINE room == BatchSize - Len(consumer[c].batch)
             S == {i \in Ids : i > group /\ i >= first}
             new == FirstOf(S, room)
             old == consumer[c].batch
  <1>1. old \in Seq(1 .. group) /\ Len(old) <= BatchSize
    BY DEF Shapes, ConsumerStates
  <1>2. Len(old) \in Nat /\ room \in Nat
    BY <1>1, ShapesAre, LenProperties
  <1>3. S \in SUBSET Ids /\ IsFiniteSet(S) /\ S \subseteq Int
    <2>1. S \in SUBSET Ids
      OBVIOUS
    <2> QED BY <2>1, ShapesAre, FS_Subset
  <1>4. group' = IF new = {} THEN group ELSE CHOOSE i \in new : \A j \in new : j <= i
    BY DEF ReadNew
  <1> HIDE DEF room
  <1>5. /\ new \subseteq S /\ IsFiniteSet(new) /\ Cardinality(new) <= room
        /\ \A i \in S, j \in new : i <= j => i \in new
    BY <1>2, <1>3, FirstOfIs
  <1> HIDE DEF new
  <1>6. new # {} => group' \in new /\ \A j \in new : j <= group'
    <2> DEFINE m == CHOOSE i \in new : \A j \in new : j <= i
    <2>1. new \subseteq Int
      BY <1>3, <1>5
    <2>2. new # {} => m \in new /\ \A j \in new : j <= m
      BY <2>1, <1>5, LastOf
    <2> QED BY <2>2, <1>4
  <1>7. new = {} => group' = group
    BY <1>4
  <1>8. /\ new \subseteq Ids /\ group' \in Int /\ group <= group' /\ group' <= Len(stream)
        /\ \A i \in new : i <= group'
    <2>1. CASE new = {}
      BY <1>7, <2>1, ShapesAre
    <2>2. CASE new # {}
      <3>1. group' \in S /\ group' \in 1 .. Len(stream) /\ group' > group
        BY <1>5, <1>6, <2>2 DEF Ids
      <3> QED BY <1>3, <1>5, <1>6, <2>2, <3>1, ShapesAre
    <2> QED BY <2>1, <2>2
  <1>9. ASSUME NEW i \in Ids, i > group, i <= group', i >= first PROVE i \in new
    <2>1. i \in S
      BY <1>9
    <2>2. new # {}
      BY <1>7, <1>8, <1>9, ShapesAre
    <2> QED BY <1>5, <1>6, <1>9, <2>1, <2>2
  <1>10. InOrder(new) \in Seq(new) /\ Len(InOrder(new)) = Cardinality(new)
    BY <1>3, <1>5, InOrderIs
  <1>11. InOrder(new) \in Seq(1 .. group') /\ old \in Seq(1 .. group')
    <2>1. new \subseteq 1 .. group' /\ 1 .. group \subseteq 1 .. group'
      BY <1>8, ShapesAre DEF Ids
    <2> QED BY <1>1, <1>10, <2>1, SeqMonotonic
  <1>12. old \o InOrder(new) \in Seq(1 .. group') /\ Len(old \o InOrder(new)) <= BatchSize
    <2>1. /\ old \o InOrder(new) \in Seq(1 .. group')
          /\ Len(old \o InOrder(new)) = Len(old) + Len(InOrder(new))
      BY <1>11, ConcatProperties
    <2>2. Cardinality(new) \in Nat
      BY <1>5, FS_CardinalityType
    <2> QED BY <1>2, <1>5, <1>10, <2>1, <2>2, ShapesAre, SMTT(60) DEF room
  <1> QED BY <1>8, <1>9, <1>12 DEF new, room

LEMMA ReadNewShapes == ASSUME Shapes, NEW c \in Consumers, ReadNew(c) PROVE Shapes'
  <1> DEFINE room == BatchSize - Len(consumer[c].batch)
             new == FirstOf({i \in Ids : i > group /\ i >= first}, room)
             batch == consumer[c].batch \o InOrder(new)
             s == [at |-> IF batch = <<>> THEN "ready" ELSE "check", batch |-> batch]
  <1>1. /\ new \subseteq Ids /\ group' \in Int /\ group <= group' /\ group' <= Len(stream)
        /\ \A i \in new : i <= group'
        /\ batch \in Seq(1 .. group') /\ Len(batch) <= BatchSize
    BY ReadNewIs
  <1>2. /\ holder' = [i \in Ids |-> IF i \in new THEN c ELSE holder[i]]
        /\ consumer' = [consumer EXCEPT ![c] = s]
        /\ UNCHANGED <<stream, first, idle, done, deadLetters, faults, history>>
    BY DEF ReadNew, Delivered
  <1> HIDE DEF batch, new
  <1>3. s \in ConsumerStates(group')
    BY <1>1 DEF ConsumerStates, AtRest, Places
  <1> HIDE DEF s
  <1>4. consumer' \in [Consumers -> ConsumerStates(group')]
    <2>1. ConsumerStates(group) \subseteq ConsumerStates(group')
      BY <1>1, StatesGrow, ShapesAre
    <2> QED BY <1>2, <1>3, <2>1 DEF Shapes
  <1>5. /\ holder \in [Ids -> Consumers \cup {NoOne}] /\ idle \subseteq Pending
        /\ Pending \subseteq 1 .. group
    BY DEF Shapes, PendingOK
  <1>6. /\ holder' \in [Ids -> Consumers \cup {NoOne}]
        /\ \A i \in Ids : holder'[i] = IF i \in new THEN c ELSE holder[i]
    BY <1>2, <1>5
  <1>7. Pending' = Pending \cup new
    BY <1>1, <1>5, <1>6, Bounds DEF Pending
  <1>8. Pending' \subseteq 1 .. group'
    <2>1. 1 .. group \subseteq 1 .. group' /\ new \subseteq 1 .. group'
      BY <1>1, ShapesAre DEF Ids
    <2> QED BY <1>5, <1>7, <2>1
  <1>9. PendingOK'
    BY <1>2, <1>5, <1>6, <1>7, <1>8 DEF PendingOK, Ids
  <1>10. group' \in -1 .. Len(stream')
    BY <1>1, <1>2, ShapesAre
  <1> QED BY <1>2, <1>4, <1>9, <1>10 DEF Shapes, Counts, history, Ids

LEMMA StartShapes == ASSUME Shapes, NEW c \in Consumers, Start(c) PROVE Shapes'
  <1>1. group' \in Int /\ group <= group' /\ group' <= Len(stream)
    BY ShapesAre DEF Start
  <1>2. ConsumerStates(group) \subseteq ConsumerStates(group')
    BY <1>1, StatesGrow, ShapesAre
  <1>3. consumer' \in [Consumers -> ConsumerStates(group')]
    BY <1>2, StatesAre DEF Start, Shapes
  <1>4. PendingOK'
    <2>1. 1 .. group \subseteq 1 .. group'
      BY <1>1, ShapesAre
    <2> QED BY <2>1 DEF Start, Shapes, PendingOK, Pending, Ids
  <1>5. group' \in -1 .. Len(stream')
    BY <1>1, ShapesAre DEF Start
  <1> QED BY <1>3, <1>4, <1>5 DEF Start, Shapes, Counts, history, Ids
LEMMA GotoIs ==
  ASSUME Shapes, NEW c \in Consumers, NEW place \in Places, Goto(c, place)
  PROVE  /\ consumer' = [consumer EXCEPT ![c] = [consumer[c] EXCEPT !.at = place]]
         /\ consumer'[c].at = place /\ consumer'[c].batch = consumer[c].batch
         /\ \A d \in Consumers \ {c} : consumer'[d] = consumer[d]
         /\ Busy(c) => [consumer[c] EXCEPT !.at = place] \in ConsumerStates(group)
  <1>1. consumer[c] \in [at: Places, batch: Seq(1 .. group)]
        /\ consumer \in [Consumers -> ConsumerStates(group)]
    BY DEF Shapes, ConsumerStates
  <1> QED BY <1>1, StatesAre DEF Goto

LEMMA CountUp ==
  ASSUME NEW f \in [Keys -> Nat], NEW k \in Keys, NEW n \in Nat
  PROVE  [f EXCEPT ![k] = @ + n] \in [Keys -> Nat]
  OBVIOUS

LEMMA RetryShapes == ASSUME Shapes, NEW c \in Consumers, RetryOrDeadLetter(c) PROVE Shapes'
  <1> DEFINE m == Message(c)
             s == [consumer[c] EXCEPT !.at = "ackFailed"]
  <1>1. /\ Busy(c) /\ m \in Messages /\ Head(consumer[c].batch) \in Ids
    BY MessageIs DEF RetryOrDeadLetter, Busy, At, AtRest
  <1>2. consumer' = [consumer EXCEPT ![c] = s] /\ s \in ConsumerStates(group)
    BY <1>1, GotoIs DEF RetryOrDeadLetter, Places
  <1> HIDE DEF s
  <1>3. consumer' \in [Consumers -> ConsumerStates(group)]
    BY <1>2 DEF Shapes
  <1>4. CASE Exhausted(m)
    <2>1. /\ deadLetters' = Append(deadLetters, Copy(m))
          /\ UNCHANGED <<stream, holder, first, group, idle, done, faults, history>>
      BY <1>4 DEF RetryOrDeadLetter
    <2>2. Copy(m) \in [key : Keys, retry : {MaxRetries + 1}]
      <3>1. m.retry \in 0 .. MaxRetries /\ m.retry >= MaxRetries /\ m.key \in Keys
        BY <1>1, <1>4 DEF Exhausted, Messages
      <3>2. m.retry + 1 = MaxRetries + 1
        BY <3>1, ShapesAre
      <3>3. Copy(m) = [m EXCEPT !.retry = m.retry + 1]
        BY DEF Copy
      <3> QED BY <1>1, <3>2, <3>3 DEF Messages
    <2>3. deadLetters' \in Seq([key : Keys, retry : {MaxRetries + 1}])
      BY <2>1, <2>2, AppendProperties DEF Shapes
    <2>4. PendingOK'
      BY <2>1, FramePending
    <2> QED BY <1>3, <2>1, <2>3, <2>4 DEF Shapes, Counts, history, Ids
  <1>5. CASE ~Exhausted(m)
    <2>1. /\ stream' = Append(stream, Copy(m)) /\ holder' = Append(holder, NoOne)
          /\ UNCHANGED <<deadLetters, first, group, idle, done, faults, history>>
      BY <1>5 DEF RetryOrDeadLetter
    <2>2. Copy(m) \in Messages /\ Copy(m).key = m.key
      <3>1. m.retry \in 0 .. MaxRetries /\ m.retry < MaxRetries
        BY <1>1, <1>5, ShapesAre DEF Exhausted, Messages
      <3>2. m.retry + 1 \in 0 .. MaxRetries
        BY <3>1, ShapesAre
      <3>3. Copy(m) = [m EXCEPT !.retry = m.retry + 1]
        BY DEF Copy
      <3> QED BY <1>1, <3>2, <3>3 DEF Messages
    <2>3. /\ stream' \in Seq(Messages) /\ Len(stream') = Len(stream) + 1 /\ PendingOK'
          /\ \A i \in Ids : stream'[i] = stream[i]
          /\ stream'[Len(stream) + 1] = Copy(m) /\ \A i \in Ids' : i \in Ids \/ i = Len(stream) + 1
      BY <2>1, <2>2, Appended
    <2>4. m.key \in published
      BY <1>1 DEF Shapes, Message
    <2>5. \A i \in Ids' : stream'[i].key \in published'
      BY <2>1, <2>2, <2>3, <2>4 DEF Shapes, history
    <2>6. first' \in 1 .. Len(stream') + 1 /\ group' \in -1 .. Len(stream')
      BY <2>1, <2>3, ShapesAre
    <2> QED BY <1>3, <2>1, <2>3, <2>5, <2>6 DEF Shapes, Counts, history
  <1> QED BY <1>4, <1>5

LEMMA WorkShapes ==
  ASSUME Shapes, NEW c \in Consumers,
         \/ CheckCompleted(c) \/ HandlerSucceeds(c) \/ HandlerRaises(c) \/ MarkCompleted(c)
         \/ ErrorInMark(c)
  PROVE  Shapes'
  <1> DEFINE k == Message(c).key
  <1>1. Busy(c) /\ k \in Keys
    BY MessageIs DEF CheckCompleted, HandlerSucceeds, HandlerRaises, MarkCompleted, ErrorInMark,
                     Busy, At, AtRest
  <1>2. ASSUME NEW place \in Places, Goto(c, place),
               UNCHANGED <<stream, first, group, holder, idle, deadLetters, published, lost>>,
               done' \subseteq Keys, faults' \in 0 .. MaxFaults, Counts'
        PROVE  Shapes'
    <2>1. PendingOK'
      BY <1>2, FramePending
    <2> QED BY <1>1, <1>2, <2>1, GotoIs, ConsumerStep
  <1>3. Counts /\ done \subseteq Keys /\ faults \in 0 .. MaxFaults
    BY DEF Shapes
  <1> HIDE DEF k
  <1>4. CASE CheckCompleted(c)
    <2>1. PICK place \in {"ackDuplicate", "handle"} : Goto(c, place)
      BY <1>4 DEF CheckCompleted
    <2> QED BY <1>2, <1>3, <1>4, <2>1 DEF CheckCompleted, redis, history, Counts, Places
  <1>5. CASE HandlerSucceeds(c)
    <2>1. effects' \in [Keys -> Nat]
      BY <1>1, <1>3, <1>5 DEF HandlerSucceeds, Counts, k
    <2> QED BY <1>2, <1>3, <1>5, <2>1 DEF HandlerSucceeds, redis, Counts, Places
  <1>6. CASE HandlerRaises(c)
    <2>1. PICK took \in {0, 1} : /\ effects' = [effects EXCEPT ![k] = @ + took]
                                 /\ excused' = [excused EXCEPT ![k] = @ + took]
      BY <1>6 DEF HandlerRaises, k
    <2>2. /\ effects' \in [Keys -> Nat] /\ excused' \in [Keys -> Nat] /\ failures' \in [Keys -> Nat]
      BY <1>1, <1>3, <1>6, <2>1 DEF HandlerRaises, Raised, Counts, k
    <2> QED BY <1>2, <1>3, <1>6, <2>2 DEF HandlerRaises, Raised, redis, Counts, Places
  <1>7. CASE MarkCompleted(c)
    <2>1. done' \subseteq Keys
      BY <1>1, <1>3, <1>7 DEF MarkCompleted, k
    <2> QED BY <1>2, <1>3, <1>7, <2>1 DEF MarkCompleted, history, Counts, Places
  <1>8. CASE ErrorInMark(c)
    <2>1. excused' \in [Keys -> Nat] /\ failures' \in [Keys -> Nat]
      BY <1>1, <1>3, <1>8 DEF ErrorInMark, Raised, Excuse, Counts, k
    <2>2. faults' \in 0 .. MaxFaults
      BY <1>3, <1>8, Bounds DEF ErrorInMark, Fault
    <2> QED BY <1>2, <1>3, <1>8, <2>1, <2>2 DEF ErrorInMark, Raised, redis, Counts, Places
  <1> QED BY <1>4, <1>5, <1>6, <1>7, <1>8
LEMMA EndShapes ==
  ASSUME Shapes, NEW c \in Consumers,
         Ack(c) \/ ErrorInAck(c) \/ ErrorOutside(c) \/ Stop(c)
  PROVE  Shapes'
  <1> DEFINE i == Head(consumer[c].batch)
             k == Message(c).key
  <1>1. Counts /\ done \subseteq Keys /\ faults \in 0 .. MaxFaults
    BY DEF Shapes
  <1>2. Busy(c) => i \in Ids /\ k \in Keys
    BY MessageIs
  <1>3. ASSUME NEW s \in ConsumerStates(group), consumer' = [consumer EXCEPT ![c] = s],
               UNCHANGED <<stream, first, group, done, deadLetters, published, lost>>,
               UNCHANGED <<holder, idle>> \/ (Busy(c) /\ RemovePending(i)),
               faults' \in 0 .. MaxFaults, Counts'
        PROVE  Shapes'
    <2>1. PendingOK'
      BY <1>2, <1>3, FramePending, RemovePendingIs
    <2> QED BY <1>1, <1>3, <2>1, ConsumerStep
  <1> HIDE DEF i, k
  <1>4. CASE Ack(c)
    <2> DEFINE rest == Tail(consumer[c].batch)
               s == [at |-> IF rest = <<>> THEN "ready" ELSE "check", batch |-> rest]
    <2>1. Busy(c)
      BY <1>4 DEF Ack, Busy, AtRest
    <2>2. s \in ConsumerStates(group) /\ consumer' = [consumer EXCEPT ![c] = s]
      BY <1>4, <2>1, StatesAre DEF Ack, NextMessage
    <2> HIDE DEF s
    <2> QED BY <1>1, <1>3, <1>4, <2>1, <2>2 DEF Ack, Counts, history, i
  <1>5. CASE ErrorInAck(c)
    <2> DEFINE s == [consumer[c] EXCEPT !.at = "failed"]
    <2>1. Busy(c)
      BY <1>5 DEF ErrorInAck, Busy, At, AtRest
    <2>2. s \in ConsumerStates(group) /\ consumer' = [consumer EXCEPT ![c] = s]
      BY <1>5, <2>1, GotoIs DEF ErrorInAck, Raised, Places
    <2> HIDE DEF s
    <2>3. failures' \in [Keys -> Nat]
      BY <1>1, <1>2, <1>5, <2>1 DEF ErrorInAck, Raised, Counts, k
    <2>4. faults' \in 0 .. MaxFaults
      BY <1>1, <1>5, Bounds DEF ErrorInAck, Fault
    <2>5. UNCHANGED <<holder, idle>> \/ RemovePending(i)
      BY <1>5 DEF ErrorInAck, i
    <2> QED BY <1>1, <1>3, <1>5, <2>1, <2>2, <2>3, <2>4, <2>5 DEF ErrorInAck, Counts
  <1>6. CASE ErrorOutside(c)
    <2>1. Ready \in ConsumerStates(group) /\ consumer' = [consumer EXCEPT ![c] = Ready]
      BY <1>6, StatesAre DEF ErrorOutside
    <2>2. faults' \in 0 .. MaxFaults
      BY <1>1, <1>6, Bounds DEF ErrorOutside, Fault
    <2>3. UNCHANGED <<holder, idle>> \/ (Busy(c) /\ RemovePending(i))
      BY <1>6 DEF ErrorOutside, Busy, AtRest, i
    <2> QED BY <1>1, <1>3, <1>6, <2>1, <2>2, <2>3 DEF ErrorOutside, Counts, history
  <1>7. CASE Stop(c)
    <2>1. Down \in ConsumerStates(group) /\ consumer' = [consumer EXCEPT ![c] = Down]
      BY <1>7, StatesAre DEF Stop
    <2>2. faults' \in 0 .. MaxFaults
      BY <1>1, <1>7, Bounds DEF Stop, Fault
    <2>3. At(c, "mark") => Busy(c)
      BY DEF At, Busy, AtRest
    <2>4. excused' \in [Keys -> Nat]
      BY <1>1, <1>2, <1>7, <2>3 DEF Stop, Excuse, Counts, k
    <2> QED BY <1>1, <1>3, <1>7, <2>1, <2>2, <2>4 DEF Stop, Counts, redis
  <1> QED BY <1>4, <1>5, <1>6, <1>7

LEMMA TimeShapes ==
  ASSUME Shapes, (\E i \in Ids : Age(i) \/ Overrun(i)) \/ \E k \in Keys : ExpireMark(k)
  PROVE  Shapes'
  <1>1. ASSUME NEW i \in Ids, Age(i) \/ Overrun(i) PROVE Shapes'
    <2>1. /\ i \in Pending /\ idle' = idle \cup {i} /\ faults' \in 0 .. MaxFaults
          /\ UNCHANGED <<stream, first, group, holder, done, deadLetters, consumer, history>>
      BY <1>1, Bounds DEF Age, Overrun, Fault, Shapes
    <2>2. PendingOK'
      BY <2>1 DEF Shapes, PendingOK, Pending, Ids
    <2> QED BY <2>1, <2>2 DEF Shapes, Counts, history, Ids
  <1>2. ASSUME NEW k \in Keys, ExpireMark(k) PROVE Shapes'
    <2>1. /\ done' \subseteq Keys /\ faults' \in 0 .. MaxFaults
          /\ UNCHANGED <<stream, first, group, holder, idle, deadLetters, consumer,
                         published, lost, effects, failures>>
      BY <1>2, Bounds DEF ExpireMark, Fault, Shapes
    <2>2. excused' \in [Keys -> Nat]
      BY <1>2, ShapesAre, FS_CardinalityType, SMTT(60) DEF ExpireMark, Shapes, Counts
    <2>3. PendingOK'
      BY <2>1, FramePending
    <2> QED BY <2>1, <2>2, <2>3 DEF Shapes, Counts, Ids
  <1> QED BY <1>1, <1>2

LEMMA ShapesStep == Shapes /\ [Next]_vars => Shapes'
  <1> SUFFICES ASSUME Shapes, [Next]_vars PROVE Shapes'
    OBVIOUS
  <1>1. CASE UNCHANGED vars
    BY <1>1, FramePending DEF vars, redis, history, Shapes, Counts, Ids
  <1>2. ASSUME NEW c \in Consumers, Start(c) \/ Poll(c) \/ ErrorInMark(c) \/ ErrorInAck(c)
                                    \/ ErrorOutside(c) \/ Stop(c)
        PROVE  Shapes'
    BY <1>2, StartShapes, ReclaimShapes, ReadNewShapes, WorkShapes, RetryShapes, EndShapes DEF Poll
  <1> QED BY <1>1, <1>2, PublishShapes, TimeShapes DEF Next

LEMMA ShapesInit == Init => Shapes
  <1> SUFFICES ASSUME Init PROVE Shapes
    OBVIOUS
  <1>1. stream \in Seq(Messages) /\ Len(stream) = 0
    BY DEF Init
  <1>2. first \in 1 .. Len(stream) + 1 /\ group \in -1 .. Len(stream) /\ Ids = {} /\ 0 \in 0 .. MaxFaults
    BY <1>1, Bounds DEF Init, Ids
  <1>3. PendingOK
    BY <1>2 DEF Init, PendingOK, Pending
  <1>4. Down \in ConsumerStates(group)
    <2>1. <<>> \in Seq(1 .. group) /\ Len(<<>>) = 0 /\ 0 <= BatchSize
      BY Bounds
    <2> QED BY <2>1 DEF Down, ConsumerStates, AtRest, Places
  <1>5. deadLetters \in Seq([key : Keys, retry : {MaxRetries + 1}])
    BY DEF Init
  <1>6. Counts
    BY DEF Init, Counts
  <1> QED BY <1>1, <1>2, <1>3, <1>4, <1>5, <1>6 DEF Init, Shapes

\* The stream, its pending list and the batches of the consumers keep their
\* shapes: what a consumer works on was delivered to the group, a batch is no
\* longer than count, and a copy counts no more retries than allowed.
THEOREM DeliveryTypes == Spec => []TypeOK
  <1>1. Spec => []Shapes
    BY ShapesInit, ShapesStep, PTL DEF Spec
  <1>2. Shapes => TypeOK
    <2> SUFFICES ASSUME Shapes PROVE TypeOK
      OBVIOUS
    <2>1. \A c \in Consumers : consumer[c] \in ConsumerStates(group)
      BY DEF Shapes
    <2> QED BY <2>1 DEF Shapes, TypeOK, PendingOK, Counts, ConsumerStates, AtRest
  <1> QED BY <1>1, <1>2, PTL
-------------------------------------------------------------------------------
(***************************************************************************)
(* What every step leaves as it was, and how a consumer comes to a place.  *)
(***************************************************************************)
Growth ==
  /\ \A i \in Ids : i \in Ids' /\ stream'[i] = stream[i]
  /\ \A k \in Keys : effects'[k] >= effects[k] /\ failures'[k] >= failures[k]
  /\ published \subseteq published' /\ lost \subseteq lost' /\ DeadLettered \subseteq DeadLettered'

LEMMA StepGrows == ASSUME Shapes, [Next]_vars PROVE Growth
  <1>1. Counts /\ (\A c \in Consumers : Busy(c) => Message(c).key \in Keys)
    BY MessageIs DEF Shapes
  <1>2. ASSUME UNCHANGED <<stream, deadLetters, published, lost>>,
               \A k \in Keys : effects'[k] >= effects[k] /\ failures'[k] >= failures[k]
        PROVE  Growth
    BY <1>2 DEF Growth, Ids, DeadLettered
  <1>3. \A k \in Keys : effects[k] >= effects[k] /\ failures[k] >= failures[k]
    BY <1>1 DEF Counts
  <1>4. CASE UNCHANGED vars
    BY <1>2, <1>3, <1>4 DEF vars, redis, history
  <1>5. ASSUME NEW k \in Keys, Publish(k) PROVE Growth
    <2>1. [key |-> k, retry |-> 0] \in Messages
      BY ShapesAre DEF Messages
    <2>2. \A i \in Ids : stream'[i] = stream[i] /\ i \in Ids'
      BY <1>5, <2>1, Appended DEF Publish
    <2>3. lost \subseteq lost' /\ published \subseteq published'
      BY <1>5 DEF Publish
    <2> QED BY <1>3, <1>5, <2>2, <2>3 DEF Publish, Growth, DeadLettered
  <1>6. ASSUME NEW k \in Keys, ExpireMark(k) PROVE Growth
    BY <1>2, <1>3, <1>6 DEF ExpireMark
  <1>7. ASSUME NEW i \in Ids, Age(i) \/ Overrun(i) PROVE Growth
    BY <1>2, <1>3, <1>7 DEF Age, Overrun, history
  <1>8. ASSUME NEW c \in Consumers,
               Start(c) \/ Reclaim(c) \/ ReadNew(c) \/ CheckCompleted(c) \/ MarkCompleted(c)
                 \/ Ack(c) \/ ErrorOutside(c) \/ Stop(c)
        PROVE  Growth
    <2>1. UNCHANGED <<stream, deadLetters, published, lost, effects, failures>>
      BY <1>8 DEF Start, Reclaim, ReadNew, CheckCompleted, MarkCompleted, Ack, ErrorOutside, Stop,
                  redis, history
    <2> QED BY <1>2, <1>3, <2>1
  <1>9. ASSUME NEW c \in Consumers,
               HandlerSucceeds(c) \/ HandlerRaises(c) \/ ErrorInMark(c) \/ ErrorInAck(c)
        PROVE  Growth
    <2> DEFINE k == Message(c).key
    <2>1. k \in Keys
      BY <1>1, <1>9 DEF HandlerSucceeds, HandlerRaises, ErrorInMark, ErrorInAck, Busy, At, AtRest
    <2>2. UNCHANGED <<stream, deadLetters, published, lost>>
      BY <1>9 DEF HandlerSucceeds, HandlerRaises, ErrorInMark, ErrorInAck, redis
    <2>3. \/ UNCHANGED effects \/ effects' = [effects EXCEPT ![k] = @ + 1]
          \/ effects' = [effects EXCEPT ![k] = @ + 0]
      BY <1>9 DEF HandlerSucceeds, HandlerRaises, ErrorInMark, ErrorInAck
    <2>4. UNCHANGED failures \/ failures' = [failures EXCEPT ![k] = @ + 1]
      BY <1>9 DEF HandlerSucceeds, HandlerRaises, ErrorInMark, ErrorInAck, Raised
    <2> HIDE DEF k
    <2>5. \A j \in Keys : effects'[j] >= effects[j]
      BY <1>1, <1>3, <2>1, <2>3 DEF Counts
    <2>6. \A j \in Keys : failures'[j] >= failures[j]
      BY <1>1, <1>3, <2>1, <2>4 DEF Counts
    <2> QED BY <1>2, <2>2, <2>5, <2>6
  <1>10. ASSUME NEW c \in Consumers, RetryOrDeadLetter(c) PROVE Growth
    <2>1. Shapes'
      BY <1>10, RetryShapes
    <2>2. CASE UNCHANGED stream
      <3>1. deadLetters' = Append(deadLetters, Copy(Message(c))) \/ UNCHANGED deadLetters
        BY <1>10 DEF RetryOrDeadLetter
      <3>2. \A i \in DOMAIN deadLetters : i \in DOMAIN deadLetters' /\ deadLetters'[i] = deadLetters[i]
        <4> DEFINE D == [key : Keys, retry : {MaxRetries + 1}]
        <4>1. deadLetters \in Seq(D) /\ Len(deadLetters) \in Nat /\ DOMAIN deadLetters = 1 .. Len(deadLetters)
          BY LenProperties DEF Shapes
        <4>2. CASE UNCHANGED deadLetters
          BY <4>2
        <4>3. CASE deadLetters' = Append(deadLetters, Copy(Message(c)))
          <5>1. /\ DOMAIN deadLetters' = 1 .. Len(deadLetters) + 1
                /\ \A i \in 1 .. Len(deadLetters) : deadLetters'[i] = deadLetters[i]
            BY <4>1, <4>3
          <5> QED BY <4>1, <5>1
        <4> QED BY <3>1, <4>2, <4>3
      <3>3. DeadLettered \subseteq DeadLettered'
        BY <3>2 DEF DeadLettered
      <3> QED BY <1>3, <1>10, <2>2, <3>3 DEF RetryOrDeadLetter, history, Growth, Ids
    <2>3. CASE ~UNCHANGED stream
      <3>1. stream' = Append(stream, Copy(Message(c))) /\ UNCHANGED deadLetters
        BY <1>10, <2>3 DEF RetryOrDeadLetter
      <3>2. \A i \in Ids : i \in Ids' /\ stream'[i] = stream[i]
        BY <3>1, AppendProperties, ShapesAre DEF Shapes, Ids
      <3> QED BY <1>3, <1>10, <3>1, <3>2 DEF RetryOrDeadLetter, history, Growth, DeadLettered
    <2> QED BY <2>2, <2>3
  <1> QED BY <1>4, <1>5, <1>6, <1>7, <1>8, <1>9, <1>10 DEF Next, Poll

Moves(c) ==
  Start(c) \/ Poll(c) \/ ErrorInMark(c) \/ ErrorInAck(c) \/ ErrorOutside(c) \/ Stop(c)

LEMMA OthersStay ==
  ASSUME Shapes, [Next]_vars, NEW d \in Consumers
  PROVE  Moves(d) \/ consumer'[d] = consumer[d]
  <1>1. ASSUME NEW c \in Consumers, Moves(c), c # d PROVE consumer'[d] = consumer[d]
    <2>1. \E s : consumer' = [consumer EXCEPT ![c] = s]
      BY <1>1 DEF Moves, Start, Poll, Reclaim, ReadNew, CheckCompleted, HandlerSucceeds, HandlerRaises,
                  MarkCompleted, Ack, RetryOrDeadLetter, ErrorInMark, ErrorInAck, ErrorOutside, Stop,
                  Raised, Goto, NextMessage
    <2> QED BY <1>1, <2>1 DEF Shapes
  <1>2. CASE UNCHANGED vars
    BY <1>2 DEF vars
  <1>3. CASE (\E k \in Keys : Publish(k) \/ ExpireMark(k)) \/ \E i \in Ids : Age(i) \/ Overrun(i)
    BY <1>3 DEF Publish, ExpireMark, Age, Overrun
  <1> QED BY <1>1, <1>2, <1>3 DEF Next, Moves

\* A consumer comes to a place by one action only, and with the message it had.
LEMMA Arrives ==
  ASSUME Shapes, [Next]_vars, NEW c \in Consumers, Moves(c)
  PROVE  /\ consumer'[c].at \in {"handle", "mark", "ack", "ackDuplicate", "failed", "ackFailed"} =>
              Busy(c) /\ consumer'[c].batch = consumer[c].batch
         /\ At(c, "handle")' => CheckCompleted(c) /\ Message(c).key \notin done
         /\ At(c, "mark")' => HandlerSucceeds(c)
         /\ At(c, "ack")' => MarkCompleted(c)
         /\ At(c, "ackDuplicate")' => CheckCompleted(c) /\ Message(c).key \in done
         /\ At(c, "failed")' => Raised(c)
         /\ At(c, "ackFailed")' => RetryOrDeadLetter(c)
  <1>1. consumer \in [Consumers -> ConsumerStates(group)]
    BY DEF Shapes
  <1>2. CASE Start(c) \/ ErrorOutside(c) \/ Stop(c) \/ Reclaim(c) \/ ReadNew(c) \/ Ack(c)
    <2> DEFINE Left(place, b) == consumer' = [consumer EXCEPT ![c] = [at |-> place, batch |-> b]]
    <2>1. \E place \in {"down", "ready", "read", "check"} : \E b : Left(place, b)
      <3>1. CASE Start(c) \/ ErrorOutside(c) \/ Stop(c)
        <4>1. Left("down", <<>>) \/ Left("ready", <<>>)
          BY <3>1 DEF Start, ErrorOutside, Stop, Down, Ready
        <4> QED BY <4>1
      <3>2. CASE Reclaim(c)
        <4>1. Left("read", InOrder(FirstOf(Reclaimable, BatchSize)))
          BY <3>2 DEF Reclaim
        <4> QED BY <4>1
      <3>3. CASE ReadNew(c)
        <4>1. PICK b : Left(IF b = <<>> THEN "ready" ELSE "check", b)
          BY <3>3 DEF ReadNew
        <4> QED BY <4>1
      <3>4. CASE Ack(c)
        <4>1. PICK b : Left(IF b = <<>> THEN "ready" ELSE "check", b)
          BY <3>4 DEF Ack, NextMessage
        <4> QED BY <4>1
      <3> QED BY <1>2, <3>1, <3>2, <3>3, <3>4
    <2>3. consumer'[c].at \in {"down", "ready", "read", "check"}
      BY <1>1, <2>1
    <2> QED BY <2>3 DEF At
  <1>3. ASSUME NEW place \in Places, Goto(c, place), Busy(c)
        PROVE  consumer'[c].at = place /\ consumer'[c].batch = consumer[c].batch
    BY <1>3, GotoIs
  <1>4. CASE CheckCompleted(c)
    <2>1. Busy(c) /\ Goto(c, IF Message(c).key \in done THEN "ackDuplicate" ELSE "handle")
      BY <1>4 DEF CheckCompleted, IsCompleted, Busy, At, AtRest
    <2>2. CASE Message(c).key \in done
      BY <1>3, <1>4, <2>1, <2>2 DEF At, Places
    <2>3. CASE Message(c).key \notin done
      BY <1>3, <1>4, <2>1, <2>3 DEF At, Places
    <2> QED BY <2>2, <2>3
  <1>5. CASE HandlerSucceeds(c) \/ MarkCompleted(c) \/ RetryOrDeadLetter(c)
    <2>1. Busy(c)
      BY <1>5 DEF HandlerSucceeds, MarkCompleted, RetryOrDeadLetter, Busy, At, AtRest
    <2>2. CASE HandlerSucceeds(c)
      BY <1>3, <2>1, <2>2 DEF HandlerSucceeds, At, Places
    <2>3. CASE MarkCompleted(c)
      BY <1>3, <2>1, <2>3 DEF MarkCompleted, At, Places
    <2>4. CASE RetryOrDeadLetter(c)
      BY <1>3, <2>1, <2>4 DEF RetryOrDeadLetter, At, Places
    <2> QED BY <1>5, <2>2, <2>3, <2>4
  <1>6. CASE HandlerRaises(c) \/ ErrorInMark(c) \/ ErrorInAck(c)
    <2>1. Busy(c) /\ Raised(c)
      BY <1>6 DEF HandlerRaises, ErrorInMark, ErrorInAck, Busy, At, AtRest
    <2>2. Goto(c, "failed") /\ "failed" \in Places
      BY <2>1 DEF Raised, Places
    <2> QED BY <1>3, <2>1, <2>2 DEF At
  <1> QED BY <1>2, <1>4, <1>5, <1>6 DEF Moves, Poll

LEMMA MessageStays ==
  ASSUME Shapes, [Next]_vars, NEW c \in Consumers, Busy(c), consumer'[c].batch = consumer[c].batch
  PROVE  Message(c)' = Message(c) /\ Message(c) \in Messages /\ Message(c).key \in Keys
         /\ Head(consumer[c].batch) \in Ids
  <1>1. Growth /\ Head(consumer[c].batch) \in Ids
    BY StepGrows, MessageIs
  <1> QED BY <1>1, MessageIs DEF Growth, Message
-------------------------------------------------------------------------------
(***************************************************************************)
(* Attempts: a copy with r retries stands for r failed attempts of its key. *)
(***************************************************************************)
Attempts ==
  /\ \A i \in Ids : failures[stream[i].key] >= stream[i].retry
  /\ \A c \in Consumers : At(c, "failed") => failures[Message(c).key] > Message(c).retry
  /\ DeadLetterAfterRetries

LEMMA EntriesStep ==
  ASSUME Shapes, Shapes', Attempts, [Next]_vars
  PROVE  \A i \in Ids' : failures'[stream'[i].key] >= stream'[i].retry
  <1>1. Growth
    BY StepGrows
  <1>2. ASSUME NEW i \in Ids PROVE failures'[stream'[i].key] >= stream'[i].retry
    <2>1. stream'[i] = stream[i] /\ stream[i] \in Messages /\ failures[stream[i].key] >= stream[i].retry
      BY <1>1, ShapesAre DEF Growth, Attempts
    <2>3. stream[i].key \in Keys /\ stream[i].retry \in Int
      BY <2>1, ShapesAre DEF Messages
    <2>2. failures[stream[i].key] \in Nat /\ failures'[stream[i].key] \in Nat
          /\ failures'[stream[i].key] >= failures[stream[i].key]
      BY <1>1, <2>3 DEF Growth, Shapes, Counts
    <2> QED BY <2>1, <2>2, <2>3
  <1>3. CASE UNCHANGED stream
    BY <1>2, <1>3 DEF Ids
  <1>4. ASSUME NEW k \in Keys, Publish(k) PROVE \A i \in Ids' : failures'[stream'[i].key] >= stream'[i].retry
    <2>1. [key |-> k, retry |-> 0] \in Messages
      BY ShapesAre DEF Messages
    <2>2. /\ \A i \in Ids' : i \in Ids \/ i = Len(stream) + 1
          /\ stream'[Len(stream) + 1] = [key |-> k, retry |-> 0]
      BY <1>4, <2>1, Appended DEF Publish
    <2>3. failures'[k] \in Nat
      BY DEF Shapes, Counts
    <2> QED BY <1>2, <2>2, <2>3
  <1>5. ASSUME NEW c \in Consumers, RetryOrDeadLetter(c), ~UNCHANGED stream
        PROVE  \A i \in Ids' : failures'[stream'[i].key] >= stream'[i].retry
    <2> DEFINE m == Message(c)
    <2>1. m \in Messages /\ failures[m.key] > m.retry /\ m.retry \in Int /\ m.key \in Keys
      BY <1>5, MessageIs DEF RetryOrDeadLetter, At, Busy, AtRest, Attempts
    <2>2. /\ stream' = Append(stream, Copy(m)) /\ UNCHANGED failures
      BY <1>5 DEF RetryOrDeadLetter, history
    <2>3. Copy(m).key = m.key /\ Copy(m).retry = m.retry + 1
      BY <2>1 DEF Copy, Messages
    <2>4. /\ \A i \in Ids' : i \in Ids \/ i = Len(stream) + 1
          /\ stream'[Len(stream) + 1] = Copy(m)
      BY <2>2, AppendProperties, ShapesAre, SMTT(60) DEF Shapes, Ids
    <2>5. failures[m.key] \in Nat
      BY <2>1 DEF Shapes, Counts
    <2> HIDE DEF m
    <2>6. failures'[Copy(m).key] >= Copy(m).retry
      BY <2>1, <2>2, <2>3, <2>5
    <2> QED BY <1>2, <2>4, <2>6
  <1>6. CASE UNCHANGED vars
    BY <1>3, <1>6 DEF vars, redis
  <1>7. ASSUME NEW c \in Consumers, Moves(c) PROVE UNCHANGED stream \/ RetryOrDeadLetter(c)
    BY <1>7 DEF Moves, Start, Poll, Reclaim, ReadNew, CheckCompleted, HandlerSucceeds, HandlerRaises,
                MarkCompleted, Ack, ErrorInMark, ErrorInAck, ErrorOutside, Stop, redis
  <1>8. ASSUME NEW k \in Keys, ExpireMark(k) PROVE UNCHANGED stream
    BY <1>8 DEF ExpireMark
  <1>9. ASSUME NEW i \in Ids, Age(i) \/ Overrun(i) PROVE UNCHANGED stream
    BY <1>9 DEF Age, Overrun
  <1> QED BY <1>3, <1>4, <1>5, <1>6, <1>7, <1>8, <1>9 DEF Next, Moves

LEMMA AttemptsStep ==
  ASSUME Shapes, Shapes', Attempts, [Next]_vars
  PROVE  Attempts'
  <1>1. Growth
    BY StepGrows
  <1>2. ASSUME NEW c \in Consumers, At(c, "failed")'
        PROVE  failures'[Message(c)'.key] > Message(c)'.retry
    <2>1. CASE consumer'[c] = consumer[c]
      <3>1. /\ Message(c)' = Message(c) /\ Message(c) \in Messages /\ Message(c).key \in Keys
            /\ failures[Message(c).key] > Message(c).retry
        BY <1>2, <2>1, MessageStays DEF Attempts, At, Busy, AtRest
      <3>2. /\ failures[Message(c).key] \in Nat /\ failures'[Message(c).key] \in Nat
            /\ failures'[Message(c).key] >= failures[Message(c).key] /\ Message(c).retry \in Int
        BY <1>1, <3>1, ShapesAre DEF Growth, Shapes, Counts, Messages
      <3> QED BY <3>1, <3>2
    <2>2. CASE Moves(c)
      <3>1. Raised(c) /\ Busy(c) /\ consumer'[c].batch = consumer[c].batch
        BY <1>2, <2>2, Arrives DEF At
      <3>2. Message(c)' = Message(c) /\ Head(consumer[c].batch) \in Ids /\ Message(c).key \in Keys
            /\ Message(c) \in Messages
        BY <3>1, MessageStays
      <3>3. failures[Message(c).key] >= Message(c).retry
        BY <3>2 DEF Attempts, Message
      <3>4. failures'[Message(c).key] = failures[Message(c).key] + 1
        BY <3>1, <3>2 DEF Raised, Shapes, Counts
      <3>5. failures[Message(c).key] \in Nat /\ Message(c).retry \in Int
        BY <3>2 DEF Shapes, Counts, Messages
      <3> QED BY <3>2, <3>3, <3>4, <3>5
    <2> QED BY <2>1, <2>2, OthersStay
  <1>3. ASSUME NEW k \in DeadLettered' PROVE failures'[k] > MaxRetries
    <2>1. CASE k \in DeadLettered
      <3>1. k \in Keys /\ failures[k] > MaxRetries
        <4>1. PICK i \in DOMAIN deadLetters : deadLetters[i].key = k
          BY <2>1 DEF DeadLettered
        <4>2. deadLetters[i] \in [key : Keys, retry : {MaxRetries + 1}]
          BY ElementOfSeq, LenProperties DEF Shapes
        <4> QED BY <2>1, <4>1, <4>2 DEF Attempts, DeadLetterAfterRetries
      <3>2. failures[k] \in Nat /\ failures'[k] \in Nat /\ failures'[k] >= failures[k]
        BY <1>1, <3>1 DEF Growth, Shapes, Counts
      <3> QED BY <3>1, <3>2, ShapesAre
    <2>2. CASE k \notin DeadLettered
      <3>1. ~UNCHANGED deadLetters
        BY <1>3, <2>2 DEF DeadLettered
      <3>2. PICK c \in Consumers : RetryOrDeadLetter(c)
        <4>1. ASSUME NEW c \in Consumers, Moves(c) PROVE RetryOrDeadLetter(c)
          BY <3>1, <4>1 DEF Moves, Start, Poll, Reclaim, ReadNew, CheckCompleted, HandlerSucceeds,
               HandlerRaises, MarkCompleted, Ack, ErrorInMark, ErrorInAck, ErrorOutside, Stop, redis
        <4>2. ASSUME NEW j \in Keys, Publish(j) \/ ExpireMark(j) PROVE FALSE
          BY <3>1, <4>2 DEF Publish, ExpireMark
        <4>3. ASSUME NEW i \in Ids, Age(i) \/ Overrun(i) PROVE FALSE
          BY <3>1, <4>3 DEF Age, Overrun
        <4>4. ~UNCHANGED vars
          BY <3>1 DEF vars, redis
        <4> QED BY <4>1, <4>2, <4>3, <4>4 DEF Next, Moves
      <3> DEFINE m == Message(c)
      <3>3. /\ deadLetters' = Append(deadLetters, Copy(m)) /\ UNCHANGED failures /\ m.retry >= MaxRetries
        BY <3>1, <3>2 DEF RetryOrDeadLetter, Exhausted, history
      <3>4. m \in Messages /\ failures[m.key] > m.retry /\ m.retry \in Int /\ m.key \in Keys
        BY <3>2, MessageIs DEF RetryOrDeadLetter, At, Busy, AtRest, Attempts
      <3>5. Copy(m).key = m.key
        BY <3>4 DEF Copy, Messages
      <3> HIDE DEF m
      <3>6. k = m.key
        <4>1. PICK i \in DOMAIN deadLetters' : deadLetters'[i].key = k
          BY <1>3 DEF DeadLettered
        <4>2. /\ DOMAIN deadLetters' = 1 .. Len(deadLetters) + 1
              /\ deadLetters'[Len(deadLetters) + 1] = Copy(m)
              /\ \A j \in 1 .. Len(deadLetters) : deadLetters'[j] = deadLetters[j]
              /\ DOMAIN deadLetters = 1 .. Len(deadLetters) /\ Len(deadLetters) \in Nat
          <5> DEFINE D == [key : Keys, retry : {MaxRetries + 1}]
          <5>1. deadLetters \in Seq(D) /\ Len(deadLetters) \in Nat
            BY LenProperties DEF Shapes
          <5> HIDE DEF D
          <5> QED BY <3>3, <5>1
        <4>3. i \in 1 .. Len(deadLetters) \/ i = Len(deadLetters) + 1
          BY <4>2
        <4>4. i \notin 1 .. Len(deadLetters)
          BY <2>2, <4>1, <4>2 DEF DeadLettered
        <4> QED BY <3>5, <4>1, <4>2, <4>3, <4>4
      <3>7. failures[m.key] \in Nat
        BY <3>4 DEF Shapes, Counts
      <3> QED BY <3>3, <3>4, <3>6, <3>7, ShapesAre
    <2> QED BY <2>1, <2>2
  <1> QED BY <1>2, <1>3, EntriesStep DEF Attempts, DeadLetterAfterRetries

\* A message is dead only after MaxRetries + 1 failed attempts, whatever copies of
\* it are under way, and however often a copy is delivered or reclaimed.
THEOREM DeadAfterRetries == Spec => []DeadLetterAfterRetries
  <1>1. Init => Attempts
    BY DEF Init, Attempts, DeadLetterAfterRetries, DeadLettered, Ids, At, Down
  <1>2. Attempts /\ Shapes /\ Shapes' /\ [Next]_vars => Attempts'
    BY AttemptsStep
  <1>3. Attempts => DeadLetterAfterRetries
    BY DEF Attempts
  <1> QED BY <1>1, <1>2, <1>3, ShapesInit, ShapesStep, PTL DEF Spec
-------------------------------------------------------------------------------
(***************************************************************************)
(* Handled: nothing is acknowledged that something else does not vouch for. *)
(***************************************************************************)
\* What keeps the key k from being lost, the entry i aside: it is done with, or an
\* entry of it further on is there to be handled.  A copy comes after the entry it
\* is of, so two entries never rely on each other.
Follows(i, j) == i < j /\ j >= first /\ Unfinished(j)
Safe(k, i) ==
  \/ k \in lost \/ effects[k] > 0 \/ k \in DeadLettered
  \/ \E j \in Ids : stream[j].key = k /\ Follows(i, j)

\* A mark, or a consumer past the handler, tells that the message took effect;
\* a consumer that acknowledges a failed attempt has left a copy or a dead letter.
Acking == {"ack", "ackDuplicate", "ackFailed"}
PlaceOK(c) ==
  /\ consumer[c].at \in {"mark", "ack", "ackDuplicate"} => effects[Message(c).key] > 0
  /\ At(c, "ackFailed") => Safe(Message(c).key, Head(consumer[c].batch))
Handled ==
  /\ group = -1 => published \subseteq lost /\ \A c \in Consumers : At(c, "down")
  /\ \A k \in done : effects[k] > 0
  /\ \A c \in Consumers : PlaceOK(c)
  /\ \A k \in published : Safe(k, 0)

\* An entry to be handled remains one but when it is trimmed, or acknowledged.
There(j) == j >= first /\ Unfinished(j)
LEMMA EntriesLeave ==
  ASSUME Shapes, [Next]_vars
  PROVE  \/ group = -1
         \/ \A j \in Ids : There(j) => There(j)' \/ stream[j].key \in lost'
         \/ \E c \in Consumers :
              /\ consumer[c].at \in Acking
              /\ \A j \in Ids : There(j) /\ j # Head(consumer[c].batch) => There(j)'
  <1> DEFINE Stays == \A j \in Ids : There(j) => There(j)'
  <1>1. ASSUME UNCHANGED <<first, group, holder>> PROVE Stays
    BY <1>1 DEF There, Unfinished
  <1>2. ASSUME NEW k \in Keys, Publish(k)
        PROVE  \A j \in Ids : There(j) => There(j)' \/ stream[j].key \in lost'
    <2>1. [key |-> k, retry |-> 0] \in Messages
      BY ShapesAre DEF Messages
    <2>2. (\A j \in Ids : holder'[j] = holder[j]) /\ UNCHANGED group
      BY <1>2, <2>1, Appended DEF Publish
    <2>3. PICK kept \in {first, Len(stream) + 2 - MaxLen} :
            /\ first' = kept
            /\ {stream[i].key : i \in {j \in first .. kept - 1 : Unfinished(j)}} \subseteq lost'
      BY <1>2 DEF Publish
    <2> SUFFICES ASSUME NEW j \in Ids, There(j), ~There(j)' PROVE stream[j].key \in lost'
      OBVIOUS
    <2>4. j < kept /\ j >= first /\ Unfinished(j)
      BY <2>2, <2>3, ShapesAre DEF There, Unfinished, Ids
    <2>5. j \in first .. kept - 1
      BY <2>3, <2>4, ShapesAre DEF Ids
    <2> QED BY <2>3, <2>4, <2>5
  <1>3. ASSUME NEW c \in Consumers, Reclaim(c) PROVE Stays
    <2> DEFINE claimed == FirstOf(Reclaimable, BatchSize)
    <2>1. /\ holder' = [i \in Ids |-> IF i \in claimed THEN c
                          ELSE IF i \in idle /\ i < first THEN NoOne ELSE holder[i]]
          /\ UNCHANGED <<first, group>>
      BY <1>3 DEF Reclaim
    <2> HIDE DEF claimed
    <2>2. \A j \in Ids : j >= first => holder'[j] = c \/ holder'[j] = holder[j]
      BY <2>1, ShapesAre
    <2> QED BY <2>1, <2>2, Bounds DEF There, Unfinished
  <1>4. ASSUME NEW c \in Consumers, ReadNew(c) PROVE Stays
    <2> DEFINE room == BatchSize - Len(consumer[c].batch)
               new == FirstOf({i \in Ids : i > group /\ i >= first}, room)
    <2>1. /\ \A i \in Ids : i > group /\ i <= group' /\ i >= first => i \in new
          /\ group' \in Int /\ group <= group'
      BY <1>4, ReadNewIs
    <2>2. /\ holder' = [i \in Ids |-> IF i \in new THEN c ELSE holder[i]] /\ UNCHANGED first
      BY <1>4 DEF ReadNew, Delivered
    <2> HIDE DEF new
    <2> SUFFICES ASSUME NEW j \in Ids, There(j) PROVE There(j)'
      OBVIOUS
    <2>3. holder'[j] = IF j \in new THEN c ELSE holder[j]
      BY <2>2
    <2>4. CASE j > group'
      BY <2>2, <2>4 DEF There, Unfinished
    <2>5. CASE j <= group' /\ j > group
      BY <2>1, <2>2, <2>3, <2>5, Bounds DEF There, Unfinished
    <2>6. CASE j <= group
      BY <2>2, <2>3, <2>6, Bounds, ShapesAre DEF There, Unfinished
    <2> QED BY <2>1, <2>4, <2>5, <2>6, ShapesAre DEF Ids
  <1>5. ASSUME NEW c \in Consumers, RetryOrDeadLetter(c) PROVE Stays
    <2>1. holder' = Append(holder, NoOne) \/ UNCHANGED holder
      BY <1>5 DEF RetryOrDeadLetter
    <2>2. UNCHANGED <<first, group>>
      BY <1>5 DEF RetryOrDeadLetter
    <2> DEFINE X == Consumers \cup {NoOne}
               n == Len(stream)
    <2>3. n \in Nat /\ holder \in [1 .. n -> X] /\ NoOne \in X
      BY ShapesAre DEF Shapes, PendingOK, Ids
    <2> HIDE DEF X
    <2>5. holder \in Seq(X) /\ Len(holder) = n
      BY <2>3
    <2>4. \A j \in Ids : holder'[j] = holder[j]
      BY <2>1, <2>3, <2>5, AppendProperties DEF Ids
    <2> QED BY <2>2, <2>4 DEF There, Unfinished
  <1>6. ASSUME NEW c \in Consumers, consumer[c].at \in Acking, RemovePending(Head(consumer[c].batch)),
               UNCHANGED <<stream, first, group>>
        PROVE  \A j \in Ids : There(j) /\ j # Head(consumer[c].batch) => There(j)'
    <2>1. Head(consumer[c].batch) \in Ids
      BY <1>6, MessageIs DEF Busy, Acking, AtRest
    <2> QED BY <1>6, <2>1, RemovePendingIs DEF There, Unfinished
  <1>7. ASSUME NEW c \in Consumers, Ack(c) \/ ErrorInAck(c) \/ ErrorOutside(c)
        PROVE  \/ UNCHANGED <<first, group, holder>>
               \/ /\ consumer[c].at \in Acking /\ RemovePending(Head(consumer[c].batch))
                  /\ UNCHANGED <<stream, first, group>>
    BY <1>7 DEF Ack, ErrorInAck, ErrorOutside, At, Acking
  <1>8. ASSUME NEW c \in Consumers,
               CheckCompleted(c) \/ HandlerSucceeds(c) \/ HandlerRaises(c) \/ MarkCompleted(c)
                 \/ ErrorInMark(c) \/ Stop(c)
        PROVE  UNCHANGED <<first, group, holder>>
    BY <1>8 DEF CheckCompleted, HandlerSucceeds, HandlerRaises, MarkCompleted, ErrorInMark, Stop, redis
  <1>9. ASSUME NEW c \in Consumers, Start(c), group # -1 PROVE UNCHANGED <<first, group, holder>>
    BY <1>9 DEF Start
  <1>10. CASE UNCHANGED vars
    BY <1>1, <1>10 DEF vars, redis
  <1>11. ASSUME NEW k \in Keys, ExpireMark(k) PROVE UNCHANGED <<first, group, holder>>
    BY <1>11 DEF ExpireMark
  <1>12. ASSUME NEW i \in Ids, Age(i) \/ Overrun(i) PROVE UNCHANGED <<first, group, holder>>
    BY <1>12 DEF Age, Overrun
  <1>13. ASSUME NEW c \in Consumers, Moves(c) PROVE Stays \/ group = -1 \/
           \E d \in Consumers :
              /\ consumer[d].at \in Acking
              /\ \A j \in Ids : There(j) /\ j # Head(consumer[d].batch) => There(j)'
    <2> HIDE DEF Stays
    <2> QED BY <1>1, <1>3, <1>4, <1>5, <1>6, <1>7, <1>8, <1>9, <1>13 DEF Moves, Poll
  <1> QED BY <1>1, <1>2, <1>10, <1>11, <1>12, <1>13 DEF Next, Moves

LEMMA SafeStays ==
  ASSUME Shapes, Shapes', Handled, [Next]_vars, NEW k \in Keys, NEW i \in Int, Safe(k, i),
         group # -1 \/ k \in published
  PROVE  Safe(k, i)'
  <1>1. Growth
    BY StepGrows
  <1>2. ASSUME k \in lost \/ effects[k] > 0 \/ k \in DeadLettered PROVE Safe(k, i)'
    <2>1. effects[k] \in Nat /\ effects'[k] \in Nat
      BY DEF Shapes, Counts
    <2> QED BY <1>1, <1>2, <2>1 DEF Growth, Safe
  <1>3. ASSUME NEW j \in Ids, stream[j].key = k, i < j, There(j)' PROVE Safe(k, i)'
    BY <1>1, <1>3 DEF Growth, Safe, Follows, There
  <1>4. ASSUME ~(k \in lost \/ effects[k] > 0 \/ k \in DeadLettered) PROVE Safe(k, i)'
    <2>1. PICK j \in Ids : stream[j].key = k /\ i < j /\ There(j)
      BY <1>4 DEF Safe, Follows, There
    <2>2. group # -1
      BY <1>4 DEF Handled
    <2>3. CASE There(j)' \/ stream[j].key \in lost'
      BY <1>3, <2>1, <2>3 DEF Safe
    <2>4. ASSUME NEW c \in Consumers, consumer[c].at \in Acking, ~There(j)',
                 \A l \in Ids : There(l) /\ l # Head(consumer[c].batch) => There(l)'
          PROVE  Safe(k, i)'
      <3>1. j = Head(consumer[c].batch) /\ Message(c).key = k
        BY <2>1, <2>4 DEF Message
      <3>2. At(c, "ackFailed") /\ Safe(k, j)
        BY <1>4, <2>4, <3>1 DEF Handled, PlaceOK, Acking, At
      <3>3. PICK l \in Ids : stream[l].key = k /\ j < l /\ There(l)
        BY <1>4, <3>2 DEF Safe, Follows, There
      <3>4. There(l)' /\ i < l
        BY <2>1, <2>4, <3>1, <3>3, ShapesAre, SMTT(60) DEF Ids
      <3> QED BY <1>3, <3>3, <3>4
    <2> QED BY <2>1, <2>2, <2>3, <2>4, EntriesLeave
  <1> QED BY <1>2, <1>4
LEMMA HandledStep ==
  ASSUME Shapes, Shapes', Handled, [Next]_vars
  PROVE  Handled'
  <1>1. Growth
    BY StepGrows
  <1>2. ASSUME group' = -1
        PROVE  published' \subseteq lost' /\ \A c \in Consumers : At(c, "down")'
    <2>1. ASSUME NEW c \in Consumers, Start(c) PROVE FALSE
      BY <1>2, <2>1, ShapesAre DEF Start
    <2>2. ASSUME NEW c \in Consumers, ReadNew(c) PROVE group = -1
      <3>1. group <= group'
        BY <2>2, ReadNewIs
      <3> QED BY <1>2, <3>1, ShapesAre
    <2>3. ASSUME NEW c \in Consumers, Moves(c) PROVE group = -1
      BY <1>2, <2>1, <2>2, <2>3 DEF Moves, Poll, Reclaim, CheckCompleted, HandlerSucceeds,
            HandlerRaises, MarkCompleted, Ack, RetryOrDeadLetter, ErrorInMark, ErrorInAck, ErrorOutside,
            Stop, redis
    <2>4. ASSUME ~\E c \in Consumers : Moves(c) PROVE UNCHANGED group
      BY <2>4 DEF Next, Moves, Publish, ExpireMark, Age, Overrun, vars, redis
    <2>5. group = -1 /\ published \subseteq lost /\ \A c \in Consumers : At(c, "down")
      BY <1>2, <2>3, <2>4 DEF Handled
    <2>6. ASSUME NEW c \in Consumers, Moves(c) PROVE FALSE
      BY <2>1, <2>5, <2>6 DEF Moves, Poll, Reclaim, ReadNew, CheckCompleted, HandlerSucceeds,
            HandlerRaises, MarkCompleted, Ack, RetryOrDeadLetter, ErrorInMark, ErrorInAck, ErrorOutside,
            Stop, At
    <2>7. \A c \in Consumers : At(c, "down")'
      BY <2>5, <2>6, OthersStay DEF At
    <2>8. ASSUME NEW k \in Keys, Publish(k) PROVE published' \subseteq lost'
      BY <2>5, <2>8 DEF Publish
    <2>9. ASSUME ~\E k \in Keys : Publish(k) PROVE UNCHANGED <<published, lost>>
      BY <2>6, <2>9 DEF Next, Moves, ExpireMark, Age, Overrun, history, vars
    <2> QED BY <2>5, <2>7, <2>8, <2>9
  <1>3. ASSUME NEW c \in Consumers, Busy(c), consumer'[c].batch = consumer[c].batch
        PROVE  /\ Message(c)' = Message(c) /\ Message(c).key \in Keys /\ Head(consumer[c].batch) \in Ids
               /\ effects[Message(c).key] > 0 => effects'[Message(c)'.key] > 0
    <2>1. Message(c)' = Message(c) /\ Message(c).key \in Keys /\ Head(consumer[c].batch) \in Ids
      BY <1>3, MessageStays
    <2>2. effects[Message(c).key] \in Nat /\ effects'[Message(c).key] \in Nat
      BY <2>1 DEF Shapes, Counts
    <2> QED BY <1>1, <2>1, <2>2 DEF Growth
  <1>4. ASSUME NEW k \in done' PROVE effects'[k] > 0
    <2>1. CASE k \in done
      <3>1. k \in Keys /\ effects[k] > 0 /\ effects[k] \in Nat /\ effects'[k] \in Nat
        BY <2>1 DEF Handled, Shapes, Counts
      <3> QED BY <1>1, <3>1 DEF Growth
    <2>2. CASE k \notin done
      <3>1. PICK c \in Consumers : MarkCompleted(c)
        <4>1. ASSUME NEW c \in Consumers, Moves(c) PROVE MarkCompleted(c)
          BY <1>4, <2>2, <4>1 DEF Moves, Poll, Start, Reclaim, ReadNew, CheckCompleted, HandlerSucceeds,
               HandlerRaises, Ack, RetryOrDeadLetter, ErrorInMark, ErrorInAck, ErrorOutside, Stop, redis
        <4>2. ASSUME ~\E c \in Consumers : Moves(c) PROVE done' \subseteq done
          BY <4>2 DEF Next, Moves, Publish, ExpireMark, Age, Overrun, vars, redis
        <4> QED BY <1>4, <2>2, <4>1, <4>2
      <3>2. k = Message(c).key /\ UNCHANGED effects /\ effects[Message(c).key] > 0
        BY <1>4, <2>2, <3>1 DEF MarkCompleted, history, Handled, PlaceOK, At
      <3> QED BY <3>2
    <2> QED BY <2>1, <2>2
  <1>5. ASSUME NEW c \in Consumers PROVE PlaceOK(c)'
    <2>1. CASE consumer'[c] = consumer[c]
      <3>1. ASSUME consumer[c].at \in {"mark", "ack", "ackDuplicate"} PROVE effects'[Message(c)'.key] > 0
        BY <1>3, <2>1, <3>1 DEF Handled, PlaceOK, Busy, AtRest
      <3>2. ASSUME At(c, "ackFailed") PROVE Safe(Message(c).key, Head(consumer[c].batch))'
        <4> DEFINE k == Message(c).key
                   i == Head(consumer[c].batch)
        <4>1. Busy(c) /\ group # -1 /\ Safe(k, i)
          BY <3>2, MessageIs DEF Handled, PlaceOK, Busy, At, AtRest
        <4>2. k \in Keys /\ i \in Int /\ k' = k /\ i' = i
          BY <1>3, <2>1, <4>1, ShapesAre
        <4>3. PICK key \in Keys, entry \in Int : key = k /\ entry = i
          BY <4>2
        <4> HIDE DEF k, i
        <4>4. Safe(key, entry)'
          BY <4>1, <4>3, SafeStays
        <4> QED BY <4>2, <4>3, <4>4 DEF k, i, Safe
      <3> QED BY <2>1, <3>1, <3>2 DEF PlaceOK, At
    <2>2. CASE Moves(c)
      <3>1. ASSUME consumer'[c].at \in {"mark", "ack", "ackDuplicate", "ackFailed"}
            PROVE  Busy(c) /\ consumer'[c].batch = consumer[c].batch
        BY <2>2, <3>1, Arrives
      <3>2. ASSUME At(c, "mark")' PROVE effects'[Message(c)'.key] > 0
        <4>1. HandlerSucceeds(c) /\ Busy(c) /\ consumer'[c].batch = consumer[c].batch
          BY <2>2, <3>1, <3>2, Arrives DEF At
        <4>2. Message(c).key \in Keys /\ Message(c)' = Message(c)
          BY <1>3, <4>1
        <4>3. effects'[Message(c).key] = effects[Message(c).key] + 1 /\ effects[Message(c).key] \in Nat
          BY <4>1, <4>2 DEF HandlerSucceeds, Shapes, Counts
        <4> QED BY <4>2, <4>3
      <3>3. ASSUME At(c, "ack")' PROVE effects'[Message(c)'.key] > 0
        <4>1. MarkCompleted(c) /\ Busy(c) /\ consumer'[c].batch = consumer[c].batch
          BY <2>2, <3>1, <3>3, Arrives DEF At
        <4>2. effects[Message(c).key] > 0
          BY <4>1 DEF MarkCompleted, Handled, PlaceOK, At
        <4> QED BY <1>3, <4>1, <4>2
      <3>4. ASSUME At(c, "ackDuplicate")' PROVE effects'[Message(c)'.key] > 0
        <4>1. Message(c).key \in done /\ Busy(c) /\ consumer'[c].batch = consumer[c].batch
          BY <2>2, <3>1, <3>4, Arrives DEF At
        <4> QED BY <1>3, <4>1 DEF Handled
      <3>5. ASSUME At(c, "ackFailed")' PROVE Safe(Message(c).key, Head(consumer[c].batch))'
        <4> DEFINE m == Message(c)
                   i == Head(consumer[c].batch)
                   n == Len(stream) + 1
        <4>1. RetryOrDeadLetter(c) /\ Busy(c) /\ consumer'[c].batch = consumer[c].batch
          BY <2>2, <3>1, <3>5, Arrives DEF At
        <4>2. m \in Messages /\ m' = m /\ i \in Ids /\ i' = i
          BY <4>1, MessageStays
        <4>3. Copy(m).key = m.key
          BY <4>2 DEF Copy, Messages
        <4>4. CASE Exhausted(m)
          <5>1. deadLetters' = Append(deadLetters, Copy(m))
            BY <4>1, <4>4 DEF RetryOrDeadLetter
          <5> DEFINE D == [key : Keys, retry : {MaxRetries + 1}]
          <5>2. deadLetters \in Seq(D) /\ Len(deadLetters) \in Nat
            BY LenProperties DEF Shapes
          <5> HIDE DEF D, m
          <5>3. /\ deadLetters'[Len(deadLetters) + 1] = Copy(m)
                /\ Len(deadLetters) + 1 \in DOMAIN deadLetters'
            BY <5>1, <5>2
          <5>4. m.key \in DeadLettered'
            BY <4>3, <5>3 DEF DeadLettered
          <5> QED BY <4>2, <5>4 DEF Safe, m
        <4>5. CASE ~Exhausted(m)
          <5>1. /\ stream' = Append(stream, Copy(m)) /\ UNCHANGED <<first, group>>
            BY <4>1, <4>5 DEF RetryOrDeadLetter
          <5> HIDE DEF m
          <5>2. stream'[n] = Copy(m) /\ n \in Ids'
            BY <5>1, AppendProperties, ShapesAre DEF Shapes, Ids
          <5>3. i < n /\ n >= first' /\ n > group'
            BY <4>2, <5>1, ShapesAre DEF Ids
          <5> HIDE DEF n
          <5>4. \E j \in Ids' : stream'[j].key = m.key /\ i < j /\ j >= first' /\ j > group'
            BY <4>3, <5>2, <5>3
          <5> QED BY <4>2, <5>4 DEF Safe, Follows, Unfinished, m
        <4> QED BY <4>4, <4>5
      <3> QED BY <3>2, <3>3, <3>4, <3>5 DEF PlaceOK, At
    <2> QED BY <2>1, <2>2, OthersStay
  <1>6. ASSUME NEW k \in published' PROVE Safe(k, 0)'
    <2>1. CASE k \in published
      BY <2>1, SafeStays DEF Handled, Shapes
    <2>2. CASE k \notin published
      <3>1. Publish(k) /\ k \in Keys
        <4>1. ASSUME NEW j \in Keys, Publish(j) PROVE k = j
          BY <1>6, <2>2, <4>1 DEF Publish
        <4>2. ASSUME ~\E j \in Keys : Publish(j) PROVE UNCHANGED published
          BY <4>2 DEF Next, Poll, Start, Reclaim, ReadNew, CheckCompleted, HandlerSucceeds,
               HandlerRaises, MarkCompleted, Ack, RetryOrDeadLetter, ErrorInMark, ErrorInAck, ErrorOutside,
               Stop, ExpireMark, Age, Overrun, history, vars
        <4> QED BY <1>6, <2>2, <4>1, <4>2
      <3>2. CASE group = -1
        BY <3>1, <3>2 DEF Publish, Safe
      <3>3. CASE group # -1
        <4> DEFINE n == Len(stream) + 1
                   m == [key |-> k, retry |-> 0]
        <4>1. m \in Messages
          BY <3>1, ShapesAre DEF Messages
        <4>2. stream'[n] = m /\ n \in Ids' /\ UNCHANGED group
          BY <3>1, <4>1, Appended DEF Publish
        <4>3. 0 < n /\ n >= first' /\ n > group'
          BY <3>1, <4>2, ShapesAre DEF Publish
        <4> QED BY <4>2, <4>3 DEF Safe, Follows, Unfinished
      <3> QED BY <3>2, <3>3
    <2> QED BY <2>1, <2>2
  <1> QED BY <1>2, <1>4, <1>5, <1>6 DEF Handled

\* No command that stops half-way, no reclaim and no repetition loses a message of
\* the group: it takes effect, becomes a dead letter, or is there to be handled.
THEOREM MessagesKept == Spec => []NoMessageLost
  <1>1. Init => Handled
    BY DEF Init, Handled, PlaceOK, At, Down
  <1>2. Handled /\ Shapes /\ Shapes' /\ [Next]_vars => Handled'
    BY HandledStep
  <1>3. Handled /\ Shapes => NoMessageLost
    <2> SUFFICES ASSUME Handled, Shapes, NEW k \in published \ lost,
                        ~(effects[k] > 0), k \notin DeadLettered
                 PROVE  \E i \in first .. Len(stream) : stream[i].key = k /\ Unfinished(i)
      BY DEF NoMessageLost
    <2>1. PICK j \in Ids : stream[j].key = k /\ Follows(0, j)
      BY DEF Handled, Safe
    <2>2. j \in first .. Len(stream)
      BY <2>1, ShapesAre DEF Follows, Ids
    <2> QED BY <2>1, <2>2 DEF Follows
  <1> QED BY <1>1, <1>2, <1>3, ShapesInit, ShapesStep, PTL DEF Spec
-------------------------------------------------------------------------------
(***************************************************************************)
(* Repeats: while a key has no mark, the consumers that have still to write *)
(* it account for its effects; once it has one, only those that have passed *)
(* the check may repeat them.                                              *)
(***************************************************************************)
Working(place, k) == {c \in Consumers : At(c, place) /\ Message(c).key = k}
Accounted(k) ==
  IF k \in done
  THEN effects[k] + Cardinality(Working("handle", k)) <= excused[k] + Cardinality(Consumers)
  ELSE effects[k] <= excused[k] + Cardinality(Working("mark", k))
Repeats == \A k \in Keys : Accounted(k)

LEMMA Sizes ==
  ASSUME NEW A, NEW B, A \subseteq Consumers, B \subseteq Consumers
  PROVE  /\ Cardinality(A) \in Nat /\ Cardinality(B) \in Nat /\ Cardinality(Consumers) \in Nat
         /\ A \subseteq B => Cardinality(A) <= Cardinality(B)
         /\ \A c \in B : c \notin A /\ A \subseteq B => Cardinality(A) + 1 <= Cardinality(B)
         /\ \A c \in A : A \ {c} \subseteq B => Cardinality(A) <= Cardinality(B) + 1
         /\ A \cap B = {} => Cardinality(A) + Cardinality(B) <= Cardinality(Consumers)
  <1>1. IsFiniteSet(Consumers) /\ IsFiniteSet(A) /\ IsFiniteSet(B)
    <2>1. IsFiniteSet(Consumers) /\ A \in SUBSET Consumers /\ B \in SUBSET Consumers
      BY Bounds
    <2> QED BY <2>1, FS_Subset
  <1>2. Cardinality(A) \in Nat /\ Cardinality(B) \in Nat /\ Cardinality(Consumers) \in Nat
    BY <1>1, FS_CardinalityType
  <1>3. A \subseteq B => Cardinality(A) <= Cardinality(B)
    BY <1>1, FS_Subset
  <1>4. ASSUME NEW c \in B, c \notin A, A \subseteq B PROVE Cardinality(A) + 1 <= Cardinality(B)
    <2>1. A \subseteq B \ {c}
      BY <1>4
    <2>2. IsFiniteSet(B \ {c}) /\ Cardinality(B \ {c}) = Cardinality(B) - 1
      BY <1>1, <1>4, FS_RemoveElement
    <2>3. Cardinality(A) <= Cardinality(B \ {c})
      BY <2>1, <2>2, FS_Subset
    <2> QED BY <1>2, <2>2, <2>3
  <1>5. ASSUME NEW c \in A, A \ {c} \subseteq B PROVE Cardinality(A) <= Cardinality(B) + 1
    <2>1. IsFiniteSet(A \ {c}) /\ Cardinality(A \ {c}) = Cardinality(A) - 1
      BY <1>1, <1>5, FS_RemoveElement
    <2>2. Cardinality(A \ {c}) <= Cardinality(B)
      BY <1>1, <1>5, FS_Subset
    <2> QED BY <1>2, <2>1, <2>2
  <1>6. ASSUME A \cap B = {} PROVE Cardinality(A) + Cardinality(B) <= Cardinality(Consumers)
    <2>1. Cardinality(A \cup B) = Cardinality(A) + Cardinality(B) - Cardinality({})
      BY <1>1, <1>6, FS_Union
    <2>2. Cardinality({}) = 0
      BY FS_EmptySet
    <2>3. Cardinality(A \cup B) <= Cardinality(Consumers)
      <3>1. A \cup B \in SUBSET Consumers
        OBVIOUS
      <3> QED BY <1>1, <3>1, FS_Subset
    <2> QED BY <1>2, <2>1, <2>2, <2>3
  <1> QED BY <1>2, <1>3, <1>4, <1>5, <1>6

LEMMA MarkedBy ==
  ASSUME [Next]_vars, NEW k \in done', k \notin done
  PROVE  \E c \in Consumers : MarkCompleted(c) /\ Message(c).key = k
  <1>1. ASSUME NEW c \in Consumers, Moves(c) PROVE MarkCompleted(c) /\ Message(c).key = k
    BY <1>1 DEF Moves, Poll, Start, Reclaim, ReadNew, CheckCompleted, HandlerSucceeds, MarkCompleted,
         HandlerRaises, Ack, RetryOrDeadLetter, ErrorInMark, ErrorInAck, ErrorOutside, Stop, redis
  <1>2. ASSUME ~\E c \in Consumers : Moves(c) PROVE done' \subseteq done
    BY <1>2 DEF Next, Moves, Publish, ExpireMark, Age, Overrun, vars, redis
  <1> QED BY <1>1, <1>2

LEMMA ExpiredBy ==
  ASSUME [Next]_vars, NEW k \in done, k \notin done'
  PROVE  ExpireMark(k)
  <1>1. ASSUME NEW c \in Consumers, Moves(c) PROVE k \in done'
    BY <1>1 DEF Moves, Poll, Start, Reclaim, ReadNew, CheckCompleted, HandlerSucceeds, MarkCompleted,
         HandlerRaises, Ack, RetryOrDeadLetter, ErrorInMark, ErrorInAck, ErrorOutside, Stop, redis
  <1>2. ASSUME NEW j \in Keys, Publish(j) PROVE k \in done'
    BY <1>2 DEF Publish
  <1>3. ASSUME NEW j \in Keys, ExpireMark(j) PROVE j = k
    BY <1>3 DEF ExpireMark
  <1>4. ASSUME NEW i \in Ids, Age(i) \/ Overrun(i) PROVE k \in done'
    BY <1>4 DEF Age, Overrun
  <1>5. CASE UNCHANGED vars
    BY <1>5 DEF vars, redis
  <1> QED BY <1>1, <1>2, <1>3, <1>4, <1>5 DEF Next, Moves

\* An effect nothing accounts for comes from a handler that succeeds.
LEMMA EffectsStep ==
  ASSUME Shapes, [Next]_vars, NEW k \in Keys
  PROVE  \/ effects'[k] - excused'[k] <= effects[k] - excused[k]
         \/ \E c \in Consumers : HandlerSucceeds(c) /\ Message(c).key = k
  <1>1. effects[k] \in Nat /\ excused[k] \in Nat /\ effects \in [Keys -> Nat] /\ excused \in [Keys -> Nat]
        /\ Cardinality(Consumers) \in Nat
    BY ShapesAre, FS_CardinalityType DEF Shapes, Counts
  <1>2. CASE UNCHANGED <<effects, excused>>
    BY <1>1, <1>2
  <1>3. ASSUME NEW c \in Consumers, HandlerSucceeds(c), Message(c).key # k
        PROVE  effects'[k] - excused'[k] <= effects[k] - excused[k]
    BY <1>1, <1>3 DEF HandlerSucceeds
  <1>4. ASSUME NEW c \in Consumers, HandlerRaises(c)
        PROVE  effects'[k] - excused'[k] <= effects[k] - excused[k]
    <2>1. PICK took \in {0, 1} :
            /\ effects' = [effects EXCEPT ![Message(c).key] = @ + took]
            /\ excused' = [excused EXCEPT ![Message(c).key] = @ + took]
      BY <1>4 DEF HandlerRaises
    <2>2. CASE Message(c).key = k
      <3>1. effects'[k] = effects[k] + took /\ excused'[k] = excused[k] + took
        BY <1>1, <2>1, <2>2
      <3> QED BY <1>1, <3>1
    <2>3. CASE Message(c).key # k
      <3>1. effects'[k] = effects[k] /\ excused'[k] = excused[k]
        BY <1>1, <2>1, <2>3
      <3> QED BY <1>1, <3>1
    <2> QED BY <2>2, <2>3
  <1>5. ASSUME UNCHANGED effects, NEW j, NEW n \in Nat, excused' = [excused EXCEPT ![j] = @ + n]
        PROVE  effects'[k] - excused'[k] <= effects[k] - excused[k]
    <2>1. excused'[k] = excused[k] \/ excused'[k] = excused[k] + n
      BY <1>1, <1>5
    <2> QED BY <1>1, <1>5, <2>1
  <1>6. ASSUME NEW c \in Consumers, ErrorInMark(c) \/ Stop(c)
        PROVE  effects'[k] - excused'[k] <= effects[k] - excused[k]
    <2>1. UNCHANGED effects
      BY <1>6 DEF ErrorInMark, Stop
    <2>2. UNCHANGED excused \/ excused' = [excused EXCEPT ![Message(c).key] = @ + 1]
      BY <1>6 DEF ErrorInMark, Stop, Excuse
    <2>3. CASE UNCHANGED excused
      BY <1>1, <2>1, <2>3
    <2>4. CASE excused' = [excused EXCEPT ![Message(c).key] = @ + 1]
      BY <1>5, <2>1, <2>4
    <2> QED BY <2>2, <2>3, <2>4
  <1>7. ASSUME NEW j \in Keys, ExpireMark(j)
        PROVE  effects'[k] - excused'[k] <= effects[k] - excused[k]
    BY <1>1, <1>5, <1>7 DEF ExpireMark
  <1>8. ASSUME NEW c \in Consumers,
               Start(c) \/ Reclaim(c) \/ ReadNew(c) \/ CheckCompleted(c) \/ MarkCompleted(c) \/ Ack(c)
                 \/ RetryOrDeadLetter(c) \/ ErrorInAck(c) \/ ErrorOutside(c)
        PROVE  UNCHANGED <<effects, excused>>
    BY <1>8 DEF Start, Reclaim, ReadNew, CheckCompleted, MarkCompleted, Ack, RetryOrDeadLetter,
         ErrorInAck, ErrorOutside, history
  <1>9. ASSUME NEW j \in Keys, Publish(j) PROVE UNCHANGED <<effects, excused>>
    BY <1>9 DEF Publish
  <1>10. ASSUME NEW i \in Ids, Age(i) \/ Overrun(i) PROVE UNCHANGED <<effects, excused>>
    BY <1>10 DEF Age, Overrun, history
  <1>11. CASE UNCHANGED vars
    BY <1>2, <1>11 DEF vars, history
  <1> QED BY <1>2, <1>3, <1>4, <1>6, <1>7, <1>8, <1>9, <1>10, <1>11 DEF Next, Poll

\* Nobody comes to the handler with a key that has a mark.
LEMMA HandlersStep ==
  ASSUME Shapes, [Next]_vars, NEW k \in Keys, k \in done \/ k \in done'
  PROVE  /\ Working("handle", k)' \subseteq Working("handle", k)
         /\ \A c \in Consumers : HandlerSucceeds(c) => c \notin Working("handle", k)'
  <1>1. ASSUME NEW c \in Consumers, At(c, "handle")', Message(c)'.key = k
        PROVE  c \in Working("handle", k) /\ ~HandlerSucceeds(c)
    <2>1. CASE consumer'[c] = consumer[c]
      <3>1. At(c, "handle") /\ Message(c)' = Message(c)
        BY <1>1, <2>1, MessageStays DEF At, Busy, AtRest
      <3>2. ~HandlerSucceeds(c)
        BY <1>1, GotoIs DEF HandlerSucceeds, At, Places
      <3> QED BY <1>1, <3>1, <3>2 DEF Working
    <2>2. CASE Moves(c)
      <3>1. CheckCompleted(c) /\ Message(c).key \notin done /\ Busy(c)
            /\ consumer'[c].batch = consumer[c].batch
        BY <1>1, <2>2, Arrives DEF At
      <3>2. Message(c).key = k /\ UNCHANGED done
        BY <1>1, <3>1, MessageStays DEF CheckCompleted, redis
      <3> QED BY <3>1, <3>2
    <2> QED BY <2>1, <2>2, OthersStay
  <1> QED BY <1>1 DEF Working

\* Whoever leaves the mark behind without writing it is excused.
LEMMA MarksStep ==
  ASSUME Shapes, [Next]_vars, NEW k \in Keys, k \notin done'
  PROVE  \/ Working("mark", k) \subseteq Working("mark", k)'
         \/ /\ \E c \in Working("mark", k) : Working("mark", k) \ {c} \subseteq Working("mark", k)'
            /\ effects'[k] = effects[k] /\ excused'[k] = excused[k] + 1
  <1>1. ASSUME NEW c \in Working("mark", k), consumer'[c] = consumer[c]
        PROVE  c \in Working("mark", k)'
    BY <1>1, MessageStays DEF Working, At, Busy, AtRest
  <1>2. ASSUME NEW c \in Working("mark", k), consumer'[c] # consumer[c]
        PROVE  /\ Working("mark", k) \ {c} \subseteq Working("mark", k)'
               /\ effects'[k] = effects[k] /\ excused'[k] = excused[k] + 1
    <2>1. c \in Consumers /\ At(c, "mark") /\ Message(c).key = k /\ Moves(c)
      BY <1>2, OthersStay DEF Working
    <2>2. ErrorInMark(c) \/ Stop(c)
      <3>1. ~MarkCompleted(c)
        BY <2>1 DEF MarkCompleted
      <3> QED BY <2>1, <3>1 DEF Moves, Poll, Start, Reclaim, ReadNew, CheckCompleted, HandlerSucceeds,
                 HandlerRaises, Ack, RetryOrDeadLetter, ErrorInAck, ErrorOutside, At
    <2>3. UNCHANGED effects /\ excused' = [excused EXCEPT ![k] = @ + 1]
      BY <2>1, <2>2 DEF ErrorInMark, Stop, Excuse
    <2>4. \E s : consumer' = [consumer EXCEPT ![c] = s]
      BY <2>2 DEF ErrorInMark, Raised, Goto, Stop
    <2>5. \A d \in Consumers \ {c} : consumer'[d] = consumer[d]
      BY <2>4 DEF Shapes
    <2>6. excused'[k] = excused[k] + 1
      BY <2>3 DEF Shapes, Counts
    <2> QED BY <1>1, <2>3, <2>5, <2>6 DEF Working
  <1> QED BY <1>1, <1>2
LEMMA RepeatsStep ==
  ASSUME Shapes, Shapes', Repeats, [Next]_vars
  PROVE  Repeats'
  <1> SUFFICES ASSUME NEW k \in Keys PROVE Accounted(k)'
    BY DEF Repeats
  <1> DEFINE H == Working("handle", k)
             M == Working("mark", k)
             N == Cardinality(Consumers)
  <1>1. /\ effects[k] \in Nat /\ excused[k] \in Nat /\ effects'[k] \in Nat /\ excused'[k] \in Nat
        /\ H \subseteq Consumers /\ M \subseteq Consumers
        /\ H' \subseteq Consumers /\ M' \subseteq Consumers
    BY DEF Shapes, Counts, Working
  <1>2. Accounted(k)
    BY DEF Repeats
  <1>3. CASE k \in done'
    <2>1. H' \subseteq H /\ \A c \in Consumers : HandlerSucceeds(c) => c \notin H'
      BY <1>3, HandlersStep
    <2>2. CASE k \in done
      <3>1. effects[k] + Cardinality(H) <= excused[k] + N
        BY <1>2, <2>2 DEF Accounted
      <3>2. ASSUME NEW c \in Consumers, HandlerSucceeds(c), Message(c).key = k
            PROVE  effects'[k] + Cardinality(H') <= excused'[k] + N
        <4>1. effects'[k] = effects[k] + 1 /\ excused'[k] = excused[k]
          BY <1>1, <3>2 DEF HandlerSucceeds, Shapes, Counts
        <4>2. c \in H /\ c \notin H'
          BY <2>1, <3>2 DEF HandlerSucceeds, Working
        <4>3. Cardinality(H') + 1 <= Cardinality(H)
          BY <1>1, <2>1, <4>2, Sizes
        <4>4. Cardinality(H) \in Nat /\ Cardinality(H') \in Nat /\ N \in Nat
          BY <1>1, Sizes
        <4> HIDE DEF H, N
        <4> QED BY <1>1, <3>1, <4>1, <4>3, <4>4
      <3>3. ASSUME effects'[k] - excused'[k] <= effects[k] - excused[k]
            PROVE  effects'[k] + Cardinality(H') <= excused'[k] + N
        <4>1. Cardinality(H') <= Cardinality(H) /\ Cardinality(H) \in Nat /\ Cardinality(H') \in Nat
              /\ N \in Nat
          BY <1>1, <2>1, Sizes
        <4> HIDE DEF H, N
        <4> QED BY <1>1, <3>1, <3>3, <4>1
      <3>4. effects'[k] + Cardinality(H') <= excused'[k] + N
        BY <3>2, <3>3, EffectsStep
      <3> QED BY <1>3, <3>4 DEF Accounted
    <2>3. CASE k \notin done
      <3>1. PICK c \in Consumers : MarkCompleted(c) /\ Message(c).key = k
        BY <1>3, <2>3, MarkedBy
      <3>2. effects'[k] = effects[k] /\ excused'[k] = excused[k]
        BY <3>1 DEF MarkCompleted, history
      <3>3. effects[k] <= excused[k] + Cardinality(M)
        BY <1>2, <2>3 DEF Accounted
      <3>4. M \cap H' = {}
        BY <2>1 DEF Working, At
      <3>5. Cardinality(M) + Cardinality(H') <= N /\ Cardinality(M) \in Nat /\ Cardinality(H') \in Nat
            /\ N \in Nat
        BY <1>1, <3>4, Sizes
      <3>6. effects'[k] + Cardinality(H') <= excused'[k] + N
        <4> HIDE DEF M, H, N
        <4> QED BY <1>1, <3>2, <3>3, <3>5
      <3> QED BY <1>3, <3>6 DEF Accounted
    <2> QED BY <2>2, <2>3
  <1>4. CASE k \notin done'
    <2>1. CASE k \in done
      <3>1. ExpireMark(k)
        BY <1>4, <2>1, ExpiredBy
      <3>2. effects'[k] = effects[k] /\ excused'[k] = excused[k] + N
        BY <3>1 DEF ExpireMark, Shapes, Counts
      <3>3. effects[k] + Cardinality(H) <= excused[k] + N
        BY <1>2, <2>1 DEF Accounted
      <3>4. Cardinality(H) \in Nat /\ Cardinality(M') \in Nat /\ N \in Nat
        BY <1>1, Sizes
      <3>5. effects'[k] <= excused'[k] + Cardinality(M')
        <4> HIDE DEF H, M, N
        <4> QED BY <1>1, <3>2, <3>3, <3>4
      <3> QED BY <1>4, <3>5 DEF Accounted
    <2>2. CASE k \notin done
      <3>1. effects[k] <= excused[k] + Cardinality(M)
        BY <1>2, <2>2 DEF Accounted
      <3>2. Cardinality(M) \in Nat /\ Cardinality(M') \in Nat
        BY <1>1, Sizes
      <3>3. ASSUME NEW c \in Consumers, HandlerSucceeds(c), Message(c).key = k
            PROVE  effects'[k] <= excused'[k] + Cardinality(M')
        <4>1. effects'[k] = effects[k] + 1 /\ excused'[k] = excused[k]
          BY <1>1, <3>3 DEF HandlerSucceeds, Shapes, Counts
        <4>2. Busy(c) /\ Goto(c, "mark")
          BY <3>3 DEF HandlerSucceeds, Busy, At, AtRest
        <4>3. /\ At(c, "mark")' /\ consumer'[c].batch = consumer[c].batch
              /\ \A d \in Consumers \ {c} : consumer'[d] = consumer[d]
          BY <4>2, GotoIs DEF At, Places
        <4>4. c \in M' /\ c \notin M
          BY <3>3, <4>2, <4>3, MessageStays DEF Working, HandlerSucceeds, At
        <4>5. M \subseteq M'
          BY <4>3, <4>4, MessageStays DEF Working, At, Busy, AtRest
        <4>6. Cardinality(M) + 1 <= Cardinality(M')
          BY <1>1, <4>4, <4>5, Sizes
        <4> HIDE DEF M
        <4> QED BY <1>1, <3>1, <3>2, <4>1, <4>6
      <3>4. ASSUME effects'[k] - excused'[k] <= effects[k] - excused[k], M \subseteq M'
            PROVE  effects'[k] <= excused'[k] + Cardinality(M')
        <4>1. Cardinality(M) <= Cardinality(M')
          BY <1>1, <3>4, Sizes
        <4> HIDE DEF M
        <4> QED BY <1>1, <3>1, <3>2, <3>4, <4>1
      <3>5. ASSUME NEW c \in M, M \ {c} \subseteq M', effects'[k] = effects[k],
                   excused'[k] = excused[k] + 1
            PROVE  effects'[k] <= excused'[k] + Cardinality(M')
        <4>1. Cardinality(M) <= Cardinality(M') + 1
          BY <1>1, <3>5, Sizes
        <4> HIDE DEF M
        <4> QED BY <1>1, <3>1, <3>2, <3>5, <4>1
      <3>6. effects'[k] <= excused'[k] + Cardinality(M')
        BY <1>4, <3>3, <3>4, <3>5, EffectsStep, MarksStep
      <3> QED BY <1>4, <3>6 DEF Accounted
    <2> QED BY <2>1, <2>2
  <1> QED BY <1>3, <1>4

\* Beyond the faults that hit a message between its effect and its mark, its effect
\* is repeated by no more consumers than there are, however often it is published,
\* delivered, reclaimed or retried.
THEOREM RepeatsAccounted == Spec => []RepeatsAreAccountedFor
  <1>1. Init => Repeats
    <2> SUFFICES ASSUME Init, NEW k \in Keys PROVE Accounted(k)
      BY DEF Repeats
    <2>1. Working("mark", k) \subseteq Consumers
      BY DEF Working
    <2>2. Cardinality(Working("mark", k)) \in Nat
      BY <2>1, Sizes
    <2> QED BY <2>2 DEF Init, Accounted
  <1>2. Repeats /\ Shapes /\ Shapes' /\ [Next]_vars => Repeats'
    BY RepeatsStep
  <1>3. Repeats /\ Shapes => RepeatsAreAccountedFor
    <2> SUFFICES ASSUME Repeats, Shapes, NEW k \in Keys
                 PROVE  effects[k] <= excused[k] + Cardinality(Consumers)
      BY DEF RepeatsAreAccountedFor
    <2>1. Accounted(k) /\ effects[k] \in Nat /\ excused[k] \in Nat
      BY DEF Repeats, Shapes, Counts
    <2>2. Working("mark", k) \subseteq Consumers /\ Working("handle", k) \subseteq Consumers
      BY DEF Working
    <2>3. /\ Cardinality(Working("mark", k)) \in Nat /\ Cardinality(Working("handle", k)) \in Nat
          /\ Cardinality(Consumers) \in Nat
          /\ Cardinality(Working("mark", k)) <= Cardinality(Consumers)
      BY <2>2, Sizes
    <2> QED BY <2>1, <2>3 DEF Accounted
  <1> QED BY <1>1, <1>2, <1>3, ShapesInit, ShapesStep, PTL DEF Spec
===============================================================================
