----------------------- MODULE CandidateSchedulerProofs -----------------------
(***************************************************************************)
(* Theorems about CandidateScheduler, for every set of events and calls,   *)
(* every capacity and every score: the queue is sorted and bounded, and as *)
(* long as requests do not overlap the hurdle comes back, the LLM answers  *)
(* once for each answer that is not lost before it is cached, and an event *)
(* is decided once; and, overlapping or not, what is enqueued is           *)
(* dispatched.                                                             *)
(***************************************************************************)
EXTENDS CandidateScheduler, SequenceTheorems, FiniteSetTheorems, WellFoundedInduction, TLAPS

Sorted(q) == \A k, l \in 1..Len(q) : k <= l => Score[q[k]] >= Score[q[l]]
EventsOf(q) == {q[k].event : k \in 1..Len(q)}
EventsOnce(q) == \A k, l \in 1..Len(q) : q[k].event = q[l].event => k = l

Call == [at: {"idle", "read", "enqueuing", "dispatching", "asking", "answered"},
         saved: Nat, todo: SUBSET Items, left: 0..Limit,
         item: Items \cup {None}, writes: [Events -> Nat]]

Types ==
  /\ hurdle \in {Default, Lowered}
  /\ heap \in Seq(Items) /\ Len(heap) <= Capacity
  /\ cache \subseteq Items /\ cooling \subseteq Events
  /\ version \in [Events -> Versions] /\ decisions \in [Events -> 0..2]
  /\ gone \subseteq Events /\ call \in [Calls -> Call]
  /\ answers \in [Items -> Nat] /\ lost \in [Items -> Nat]
  /\ past \subseteq {"overlap", "blurred", "failed", "forgotten"}
  /\ troubles \in 0..MaxTroubles

\* An item is popped and has no decision yet.
InDoubt(c) == call[c].at \in {"asking", "answered"}

\* What a call has read, and what it asks for.
CallOK(c) ==
  /\ c \in Syncing => call[c].saved \in {Default, Lowered}
  /\ InDoubt(c) => call[c].item \in Items /\ call[c].left > 0
  /\ call[c].at = "read" => call[c].left = 0

\* Without overlap one call at most does something.
Alone == "overlap" \notin past => \A c, d \in Calls : ~Idle(c) /\ ~Idle(d) => c = d

\* A sync that no other sync overlapped has saved the configured hurdle.
HurdleKnown ==
  "blurred" \notin past =>
    /\ \A c, d \in Syncing : c = d
    /\ \A c \in Syncing : call[c].saved = Default
    /\ Syncing = {} \/ (\E c \in Calls : call[c].at = "read") => hurdle = Default

\* Of the answers for an item all are lost but one, which is cached or about to
\* be; what is asked for has none.
Kept(i) == i \in cache \/ \E c \in Calls : call[c].at = "answered" /\ call[c].item = i
OneKept(i) == answers[i] = lost[i] \/ (answers[i] = lost[i] + 1 /\ Kept(i))
DoubtKnown(c) ==
  /\ call[c].at = "asking" => answers[call[c].item] = lost[call[c].item]
  /\ call[c].at = "answered" => answers[call[c].item] = lost[call[c].item] + 1
CacheKnows ==
  past \cap {"overlap", "forgotten"} = {} =>
    (\A i \in Items : OneKept(i)) /\ (\A c \in Calls : DoubtKnown(c))

\* Events a call will decide and has not written yet.
Todo(c) == {i.event : i \in call[c].todo}
Asked(c) == IF InDoubt(c) THEN {call[c].item.event} ELSE {}
Written(c) == {e \in Events : call[c].writes[e] # 0}

\* Without overlap and failure the queue holds what the one call enqueued and
\* has not dispatched; an event is in one place, and not yet decided.
OnePlace(c) ==
  /\ EventsOf(heap) \cap (Todo(c) \cup Asked(c) \cup Written(c)) = {}
  /\ Asked(c) \cap Written(c) = {}
  /\ \A i, j \in call[c].todo : i.event = j.event => i = j
  /\ \A e \in EventsOf(heap) \cup Todo(c) \cup Asked(c) \cup Written(c) : decisions[e] = 0
  /\ \A e \in Events : call[c].writes[e] <= 1
  /\ call[c].at \in {"read", "enqueuing"} => Written(c) = {}
  /\ call[c].at \in {"dispatching", "asking", "answered"} => call[c].todo = {}
  /\ Len(heap) <= (IF InDoubt(c) THEN call[c].left - 1 ELSE call[c].left)

DispatchKnows ==
  past \cap {"overlap", "failed"} = {} =>
    /\ EventsOnce(heap)
    /\ (\A c \in Calls : Idle(c)) => heap = <<>>
    /\ \A c \in Calls : ~Idle(c) => OnePlace(c)
    /\ \A e \in Events : decisions[e] <= 1

SchedulerInv ==
  /\ Types /\ Sorted(heap)
  /\ \A c \in Calls : CallOK(c)
  /\ Alone /\ HurdleKnown /\ CacheKnows /\ DispatchKnows

-------------------------------------------------------------------------------
(***************************************************************************)
(* The queue.                                                              *)
(***************************************************************************)
LEMMA InsertAtIs ==
  ASSUME NEW S, NEW s \in Seq(S), NEW n \in 1..Len(s) + 1, NEW e \in S
  PROVE  /\ InsertAt(s, n, e) \in Seq(S) /\ Len(InsertAt(s, n, e)) = Len(s) + 1
         /\ \A j \in 1..Len(s) + 1 :
              InsertAt(s, n, e)[j] = IF j < n THEN s[j] ELSE IF j = n THEN e ELSE s[j - 1]
  <1> DEFINE a == SubSeq(s, 1, n - 1)
             b == SubSeq(s, n, Len(s))
  <1>1. /\ Len(s) \in Nat /\ n \in Nat /\ n >= 1 /\ n <= Len(s) + 1
        /\ \A j \in 1..Len(s) : s[j] \in S
    BY LenProperties, ElementOfSeq
  <1>2. a \in Seq(S) /\ Len(a) = n - 1 /\ \A j \in 1..n - 1 : a[j] = s[j]
    <2>1. \A j \in 1..n - 1 : s[j] \in S
      BY <1>1
    <2> QED BY <1>1, <2>1, SubSeqProperties
  <1>3. b \in Seq(S) /\ Len(b) = Len(s) - n + 1 /\ \A j \in 1..Len(s) - n + 1 : b[j] = s[n + j - 1]
    <2>1. \A j \in n..Len(s) : s[j] \in S
      BY <1>1
    <2> QED BY <1>1, <2>1, SubSeqProperties
  <1> DEFINE m == a \o <<e>>
  <1>4. m \in Seq(S) /\ Len(m) = n /\ \A j \in 1..n : m[j] = IF j < n THEN s[j] ELSE e
    <2>1. <<e>> \in Seq(S) /\ Len(<<e>>) = 1 /\ <<e>>[1] = e
      OBVIOUS
    <2>2. /\ m \in Seq(S) /\ Len(m) = Len(a) + 1
          /\ \A j \in 1..Len(a) + 1 : m[j] = IF j <= Len(a) THEN a[j] ELSE <<e>>[j - Len(a)]
      BY <1>2, <2>1, ConcatProperties
    <2> HIDE DEF a, m
    <2> QED BY <1>1, <1>2, <2>1, <2>2
  <1>5. InsertAt(s, n, e) = m \o b
    BY DEF InsertAt
  <1> HIDE DEF a, b, m
  <1>6. /\ m \o b \in Seq(S) /\ Len(m \o b) = Len(m) + Len(b)
        /\ \A j \in 1..Len(m) + Len(b) : (m \o b)[j] = IF j <= Len(m) THEN m[j] ELSE b[j - Len(m)]
    BY <1>3, <1>4, ConcatProperties
  <1>7. Len(m) + Len(b) = Len(s) + 1
    BY <1>1, <1>3, <1>4
  <1>8. ASSUME NEW j \in 1..Len(s) + 1
        PROVE  (m \o b)[j] = IF j < n THEN s[j] ELSE IF j = n THEN e ELSE s[j - 1]
    <2>1. CASE j <= n
      BY <1>1, <1>4, <1>6, <1>7, <2>1
    <2>2. CASE j > n
      <3>1. (m \o b)[j] = b[j - n] /\ j - n \in 1..Len(s) - n + 1
        BY <1>1, <1>4, <1>6, <1>7, <2>2
      <3>2. n + (j - n) - 1 = j - 1
        BY <1>1
      <3> QED BY <1>1, <1>3, <2>2, <3>1, <3>2
    <2>3. j <= n \/ j > n
      BY <1>1
    <2> QED BY <2>1, <2>2, <2>3
  <1> QED BY <1>5, <1>6, <1>7, <1>8

LEMMA RemoveAtIs ==
  ASSUME NEW S, NEW s \in Seq(S), NEW n \in 1..Len(s)
  PROVE  /\ RemoveAt(s, n) \in Seq(S) /\ Len(RemoveAt(s, n)) = Len(s) - 1
         /\ \A j \in 1..Len(s) - 1 : RemoveAt(s, n)[j] = IF j < n THEN s[j] ELSE s[j + 1]
  <1> DEFINE a == SubSeq(s, 1, n - 1)
             b == SubSeq(s, n + 1, Len(s))
  <1>1. /\ Len(s) \in Nat /\ n \in Nat /\ n >= 1 /\ n <= Len(s)
        /\ \A j \in 1..Len(s) : s[j] \in S
    BY LenProperties, ElementOfSeq
  <1>2. a \in Seq(S) /\ Len(a) = n - 1 /\ \A j \in 1..n - 1 : a[j] = s[j]
    <2>1. \A j \in 1..n - 1 : s[j] \in S
      BY <1>1
    <2> QED BY <1>1, <2>1, SubSeqProperties
  <1>3. b \in Seq(S) /\ Len(b) = Len(s) - n /\ \A j \in 1..Len(s) - n : b[j] = s[n + j]
    <2>1. \A j \in n + 1..Len(s) : s[j] \in S
      BY <1>1
    <2>2. /\ b \in Seq(S)
          /\ Len(b) = IF n + 1 <= Len(s) THEN Len(s) - (n + 1) + 1 ELSE 0
          /\ \A j \in 1..Len(s) - (n + 1) + 1 : b[j] = s[n + 1 + j - 1]
      BY <1>1, <2>1, SubSeqProperties
    <2>3. Len(s) - (n + 1) + 1 = Len(s) - n /\ \A j \in Nat : n + 1 + j - 1 = n + j
      BY <1>1
    <2> HIDE DEF b
    <2>4. Len(b) = Len(s) - n
      BY <1>1, <2>2
    <2>5. ASSUME NEW j \in 1..Len(s) - n PROVE b[j] = s[n + j]
      <3>1. n + 1 + j - 1 = n + j
        BY <1>1
      <3>2. j \in 1..Len(s) - (n + 1) + 1
        BY <2>3
      <3>3. b[j] = s[n + 1 + j - 1]
        BY <2>2, <3>2
      <3> QED BY <3>1, <3>3
    <2> QED BY <2>2, <2>4, <2>5
  <1>4. RemoveAt(s, n) = a \o b
    BY DEF RemoveAt
  <1> HIDE DEF a, b
  <1>5. /\ a \o b \in Seq(S) /\ Len(a \o b) = Len(a) + Len(b)
        /\ \A j \in 1..Len(a) + Len(b) : (a \o b)[j] = IF j <= Len(a) THEN a[j] ELSE b[j - Len(a)]
    BY <1>2, <1>3, ConcatProperties
  <1>6. Len(a) + Len(b) = Len(s) - 1
    BY <1>1, <1>2, <1>3
  <1>7. ASSUME NEW j \in 1..Len(s) - 1 PROVE (a \o b)[j] = IF j < n THEN s[j] ELSE s[j + 1]
    <2>1. CASE j < n
      BY <1>1, <1>2, <1>5, <1>6, <2>1
    <2>2. CASE j >= n
      <3>1. (a \o b)[j] = b[j - (n - 1)] /\ j - (n - 1) \in 1..Len(s) - n
        BY <1>1, <1>2, <1>5, <1>6, <2>2
      <3>2. n + (j - (n - 1)) = j + 1
        BY <1>1
      <3> QED BY <1>1, <1>3, <2>2, <3>1, <3>2
    <2>3. j < n \/ j >= n
      BY <1>1
    <2> QED BY <2>1, <2>2, <2>3
  <1> QED BY <1>4, <1>5, <1>6, <1>7

\* A set of numbers that is not empty has a smallest one.
LEMMA Smallest ==
  ASSUME NEW S \in SUBSET Nat, S # {}
  PROVE  \E k \in S : \A l \in S : k <= l
  <1>1. PICK k \in S : \A l \in S : ~ (<<l, k>> \in OpToRel(<, Nat))
    BY NatLessThanWellFounded, WFMin, Zenon
  <1>2. \A l \in S : ~ (l < k)
    BY <1>1 DEF OpToRel
  <1> QED BY <1>2

\* In a sorted queue the items ahead of a new one are its first ones.
LEMMA AheadIsPrefix ==
  ASSUME ScoreData, NEW q \in Seq(Items), Sorted(q), NEW i \in Items
  PROVE  LET ahead == {k \in 1..Len(q) : Score[q[k]] >= Score[i]} IN
         /\ Cardinality(ahead) \in 0..Len(q) /\ ahead = 1..Cardinality(ahead)
  <1> DEFINE ahead == {k \in 1..Len(q) : Score[q[k]] >= Score[i]}
             behind == {k \in 1..Len(q) + 1 : k \notin ahead}
  <1>1. /\ Len(q) \in Nat /\ Score[i] \in Nat
        /\ \A k \in 1..Len(q) : Score[q[k]] \in Nat
    <2>1. Len(q) \in Nat /\ \A k \in 1..Len(q) : q[k] \in Items
      BY LenProperties, ElementOfSeq
    <2> QED BY <2>1, ScoreData
  <1>2. PICK n \in behind : \A l \in behind : n <= l
    <2>1. behind \in SUBSET Nat /\ Len(q) + 1 \in behind
      BY <1>1
    <2> HIDE DEF behind
    <2> QED BY <2>1, Smallest
  <1>3. ahead = 1..n - 1
    <2>1. ASSUME NEW k \in 1..n - 1 PROVE k \in ahead
      BY <1>1, <1>2
    <2>2. ASSUME NEW k \in ahead, k > n - 1 PROVE FALSE
      <3>1. n <= k /\ n \in 1..Len(q) /\ k \in 1..Len(q)
        BY <1>1, <1>2, <2>2
      <3>2. Score[q[n]] >= Score[q[k]]
        BY <3>1 DEF Sorted
      <3>3. n \in ahead
        BY <1>1, <3>1, <3>2
      <3> QED BY <1>2, <3>3
    <2> QED BY <1>1, <1>2, <2>1, <2>2
  <1>4. n - 1 \in 0..Len(q)
    BY <1>1, <1>2
  <1>5. Cardinality(1..n - 1) = n - 1
    BY <1>4, FS_Interval
  <1> QED BY <1>3, <1>4, <1>5

LEMMA ScoresAreNumbers ==
  ASSUME ScoreData, NEW q \in Seq(Items)
  PROVE  Len(q) \in Nat /\ \A k \in 1..Len(q) : q[k] \in Items /\ Score[q[k]] \in Nat
  <1>1. Len(q) \in Nat /\ \A k \in 1..Len(q) : q[k] \in Items
    BY LenProperties, ElementOfSeq
  <1> QED BY <1>1, ScoreData

LEMMA InsertedIs ==
  ASSUME ScoreData, NEW q \in Seq(Items), Sorted(q), NEW i \in Items
  PROVE  /\ Inserted(q, i) \in Seq(Items) /\ Sorted(Inserted(q, i))
         /\ Len(Inserted(q, i)) = Len(q) + 1
         /\ EventsOf(Inserted(q, i)) \subseteq EventsOf(q) \cup {i.event}
         /\ EventsOnce(q) /\ i.event \notin EventsOf(q) => EventsOnce(Inserted(q, i))
  <1> DEFINE ahead == {k \in 1..Len(q) : Score[q[k]] >= Score[i]}
             n == Cardinality(ahead) + 1
             r == InsertAt(q, n, i)
  <1>1. Len(q) \in Nat /\ \A k \in 1..Len(q) : q[k] \in Items /\ Score[q[k]] \in Nat
    BY ScoresAreNumbers
  <1>2. Score[i] \in Nat
    BY ScoreData
  <1>3. n \in 1..Len(q) + 1 /\ ahead = 1..n - 1
    <2>1. Cardinality(ahead) \in 0..Len(q) /\ ahead = 1..Cardinality(ahead)
      BY AheadIsPrefix
    <2> HIDE DEF ahead
    <2> QED BY <1>1, <2>1
  <1>4. \A k \in 1..Len(q) : k < n <=> Score[q[k]] >= Score[i]
    <2>1. \A k \in 1..Len(q) : k \in ahead <=> Score[q[k]] >= Score[i]
      OBVIOUS
    <2> HIDE DEF n, ahead
    <2>2. \A k \in 1..Len(q) : k \in ahead <=> k < n
      BY <1>1, <1>3
    <2> QED BY <2>1, <2>2
  <1> HIDE DEF n, ahead
  <1>5. /\ r \in Seq(Items) /\ Len(r) = Len(q) + 1
        /\ \A j \in 1..Len(q) + 1 : r[j] = IF j < n THEN q[j] ELSE IF j = n THEN i ELSE q[j - 1]
    <2>1. n \in 1..Len(q) + 1
      BY <1>3
    <2>2. r \in Seq(Items) /\ Len(r) = Len(q) + 1
      BY <2>1, InsertAtIs, SMTT(30)
    <2>3. \A j \in 1..Len(q) + 1 :
            r[j] = IF j < n THEN q[j] ELSE IF j = n THEN i ELSE q[j - 1]
      BY <2>1, InsertAtIs, SMTT(30)
    <2> QED BY <2>2, <2>3
  <1> HIDE DEF r
  <1> DEFINE from(j) == IF j < n THEN j ELSE j - 1
  <1>14. Len(q) \in Nat /\ n \in 1..Len(q) + 1 /\ Len(r) = Len(q) + 1
    BY <1>1, <1>3, <1>5
  <1>6. \A j \in 1..Len(r) : j # n => from(j) \in 1..Len(q) /\ r[j] = q[from(j)]
    <2> SUFFICES ASSUME NEW j \in 1..Len(r), j # n
                 PROVE  from(j) \in 1..Len(q) /\ r[j] = q[from(j)]
      OBVIOUS
    <2>1. r[j] = IF j < n THEN q[j] ELSE q[j - 1]
      BY <1>5, <1>14
    <2> QED BY <1>14, <2>1
  <1>7. r[n] = i
    BY <1>3, <1>5
  <1>8. \A j \in 1..Len(r) : (j < n => from(j) < n) /\ (j > n => from(j) >= n)
    BY <1>14
  <1>9. \A j, l \in 1..Len(r) : j # n /\ l # n => (j <= l => from(j) <= from(l)) /\ (from(j) = from(l) => j = l)
    BY <1>14
  <1> HIDE DEF from
  <1>10. Sorted(r)
    <2> SUFFICES ASSUME NEW j \in 1..Len(r), NEW l \in 1..Len(r), j <= l
                 PROVE  Score[r[j]] >= Score[r[l]]
      BY DEF Sorted
    <2>1. CASE j # n /\ l # n
      BY <1>6, <1>9, <2>1 DEF Sorted
    <2>2. CASE j = n /\ l # n
      <3>1. from(l) \in 1..Len(q) /\ from(l) >= n /\ r[l] = q[from(l)]
        BY <1>1, <1>3, <1>5, <1>6, <1>8, <2>2
      <3>2. ~(from(l) < n)
        BY <1>1, <1>3, <3>1
      <3>3. ~(Score[q[from(l)]] >= Score[i])
        BY <1>4, <3>1, <3>2
      <3> QED BY <1>1, <1>2, <1>7, <2>2, <3>1, <3>3
    <2>3. CASE j # n /\ l = n
      <3>1. from(j) \in 1..Len(q) /\ from(j) < n /\ r[j] = q[from(j)]
        BY <1>1, <1>3, <1>5, <1>6, <1>8, <2>3
      <3> QED BY <1>4, <1>7, <2>3, <3>1
    <2>4. CASE j = n /\ l = n
      BY <1>2, <1>7, <2>4
    <2> QED BY <2>1, <2>2, <2>3, <2>4
  <1>11. EventsOf(r) \subseteq EventsOf(q) \cup {i.event}
    BY <1>6, <1>7 DEF EventsOf
  <1>12. ASSUME EventsOnce(q), i.event \notin EventsOf(q) PROVE EventsOnce(r)
    <2>1. \A j \in 1..Len(r) : j # n => r[j].event # i.event
      BY <1>6, <1>12 DEF EventsOf
    <2> SUFFICES ASSUME NEW j \in 1..Len(r), NEW l \in 1..Len(r), r[j].event = r[l].event PROVE j = l
      BY DEF EventsOnce
    <2>2. CASE j # n /\ l # n
      BY <1>6, <1>9, <1>12, <2>2 DEF EventsOnce
    <2>3. CASE j = n \/ l = n
      BY <1>7, <2>1, <2>3
    <2> QED BY <2>2, <2>3
  <1>13. Inserted(q, i) = r
    BY DEF Inserted, r, n, ahead
  <1> QED BY <1>5, <1>10, <1>11, <1>12, <1>13

LEMMA RemovedIs ==
  ASSUME ScoreData, NEW q \in Seq(Items), Sorted(q), NEW n \in 1..Len(q)
  PROVE  /\ RemoveAt(q, n) \in Seq(Items) /\ Sorted(RemoveAt(q, n))
         /\ Len(RemoveAt(q, n)) = Len(q) - 1
         /\ EventsOf(RemoveAt(q, n)) \subseteq EventsOf(q)
         /\ EventsOnce(q) => EventsOnce(RemoveAt(q, n))
  <1> DEFINE r == RemoveAt(q, n)
             from(j) == IF j < n THEN j ELSE j + 1
  <1>1. Len(q) \in Nat
    BY LenProperties
  <1>2. r \in Seq(Items) /\ Len(r) = Len(q) - 1 /\ \A j \in 1..Len(r) : r[j] = q[from(j)]
    BY RemoveAtIs
  <1> HIDE DEF r
  <1>3. /\ \A j \in 1..Len(r) : from(j) \in 1..Len(q)
        /\ \A j, l \in 1..Len(r) : (j <= l => from(j) <= from(l)) /\ (from(j) = from(l) => j = l)
    <2>1. Len(q) \in Nat /\ n \in 1..Len(q) /\ Len(r) = Len(q) - 1
      BY <1>1, <1>2
    <2> QED BY <2>1
  <1> HIDE DEF from
  <1>4. Sorted(r)
    BY <1>2, <1>3 DEF Sorted
  <1>5. EventsOf(r) \subseteq EventsOf(q)
    BY <1>2, <1>3 DEF EventsOf
  <1>6. EventsOnce(q) => EventsOnce(r)
    <2> SUFFICES ASSUME EventsOnce(q), NEW j \in 1..Len(r), NEW l \in 1..Len(r),
                        r[j].event = r[l].event
                 PROVE  j = l
      BY DEF EventsOnce
    <2>1. /\ from(j) \in 1..Len(q) /\ from(l) \in 1..Len(q)
          /\ q[from(j)].event = q[from(l)].event
      BY <1>2, <1>3
    <2>2. from(j) = from(l)
      BY <2>1 DEF EventsOnce
    <2> QED BY <1>3, <2>2
  <1> QED BY <1>2, <1>4, <1>5, <1>6 DEF r

LEMMA TailIs ==
  ASSUME NEW q \in Seq(Items), Sorted(q), q # <<>>
  PROVE  /\ Tail(q) \in Seq(Items) /\ Sorted(Tail(q)) /\ Len(Tail(q)) = Len(q) - 1
         /\ Head(q) \in Items /\ Head(q).event \in EventsOf(q)
         /\ EventsOf(Tail(q)) \subseteq EventsOf(q)
         /\ EventsOnce(q) => EventsOnce(Tail(q)) /\ Head(q).event \notin EventsOf(Tail(q))
  <1> DEFINE t == Tail(q)
  <1>1. /\ t \in Seq(Items) /\ Len(t) = Len(q) - 1 /\ Len(q) \in Nat \ {0}
        /\ Head(q) \in Items /\ \A j \in 1..Len(t) : t[j] = q[j + 1]
    BY HeadTailProperties, EmptySeq
  <1>2. Head(q) = q[1]
    OBVIOUS
  <1> HIDE DEF t
  <1>3. \A j \in 1..Len(t) : j + 1 \in 1..Len(q) /\ j + 1 # 1
    BY <1>1
  <1>4. \A j, l \in 1..Len(t) : (j <= l => j + 1 <= l + 1) /\ (j + 1 = l + 1 => j = l)
    BY <1>1
  <1>5. Sorted(t)
    BY <1>1, <1>3, <1>4 DEF Sorted
  <1>6. EventsOf(t) \subseteq EventsOf(q) /\ Head(q).event \in EventsOf(q)
    BY <1>1, <1>2, <1>3 DEF EventsOf
  <1>7. ASSUME EventsOnce(q) PROVE EventsOnce(t) /\ Head(q).event \notin EventsOf(t)
    <2>1. EventsOnce(t)
      BY <1>1, <1>3, <1>4, <1>7 DEF EventsOnce
    <2>2. ASSUME NEW j \in 1..Len(t), t[j].event = Head(q).event PROVE FALSE
      BY <1>1, <1>2, <1>3, <1>7, <2>2 DEF EventsOnce
    <2> QED BY <2>1, <2>2 DEF EventsOf
  <1> QED BY <1>1, <1>5, <1>6, <1>7 DEF t

\* Whatever evaluate_and_enqueue makes of the queue.
LEMMA EvaluatedIs ==
  ASSUME ScoreData, SchedulerBounds, NEW q \in Seq(Items), Sorted(q), Len(q) <= Capacity,
         NEW i \in Items, NEW p \in Evaluated(q, i)
  PROVE  /\ p.queue \in Seq(Items) /\ Sorted(p.queue) /\ Len(p.queue) <= Capacity
         /\ Len(p.queue) <= Len(q) + (IF p.taken THEN 1 ELSE 0)
         /\ EventsOf(p.queue) \subseteq EventsOf(q) \cup {i.event}
         /\ EventsOnce(q) /\ i.event \notin EventsOf(q) => EventsOnce(p.queue)
  <1>1. Len(q) \in Nat /\ Capacity \in Nat \ {0}
    BY LenProperties, SchedulerBounds
  <1>2. CASE p = [taken |-> FALSE, queue |-> q]
    BY <1>1, <1>2
  <1>3. CASE p = [taken |-> TRUE, queue |-> Inserted(q, i)] /\ Len(q) < Capacity
    <2>1. p.queue = Inserted(q, i) /\ p.taken
      BY <1>3
    <2>2. /\ Inserted(q, i) \in Seq(Items) /\ Sorted(Inserted(q, i))
          /\ Len(Inserted(q, i)) = Len(q) + 1
          /\ EventsOf(Inserted(q, i)) \subseteq EventsOf(q) \cup {i.event}
          /\ EventsOnce(q) /\ i.event \notin EventsOf(q) => EventsOnce(Inserted(q, i))
      BY InsertedIs
    <2> QED BY <1>1, <1>3, <2>1, <2>2
  <1>4. ASSUME NEW k \in 1..Len(q), p = [taken |-> TRUE, queue |-> Inserted(RemoveAt(q, k), i)]
        PROVE  /\ p.queue \in Seq(Items) /\ Sorted(p.queue) /\ Len(p.queue) <= Capacity
               /\ Len(p.queue) <= Len(q) + (IF p.taken THEN 1 ELSE 0)
               /\ EventsOf(p.queue) \subseteq EventsOf(q) \cup {i.event}
               /\ EventsOnce(q) /\ i.event \notin EventsOf(q) => EventsOnce(p.queue)
    <2> DEFINE r == RemoveAt(q, k)
    <2>1. /\ r \in Seq(Items) /\ Sorted(r) /\ Len(r) = Len(q) - 1
          /\ EventsOf(r) \subseteq EventsOf(q) /\ (EventsOnce(q) => EventsOnce(r))
      BY RemovedIs
    <2> HIDE DEF r
    <2>2. /\ Inserted(r, i) \in Seq(Items) /\ Sorted(Inserted(r, i))
          /\ Len(Inserted(r, i)) = Len(r) + 1
          /\ EventsOf(Inserted(r, i)) \subseteq EventsOf(r) \cup {i.event}
          /\ EventsOnce(r) /\ i.event \notin EventsOf(r) => EventsOnce(Inserted(r, i))
      BY <2>1, InsertedIs
    <2>3. p.queue = Inserted(r, i) /\ p.taken
      BY <1>4 DEF r
    <2>4. Len(p.queue) = Len(q)
      BY <1>1, <2>1, <2>2, <2>3
    <2>5. p.queue \in Seq(Items) /\ Sorted(p.queue) /\ EventsOf(p.queue) \subseteq EventsOf(r) \cup {i.event}
      BY <2>2, <2>3
    <2>6. EventsOnce(q) /\ i.event \notin EventsOf(q) => EventsOnce(p.queue)
      BY <2>1, <2>2, <2>3
    <2>7. Len(p.queue) <= Capacity /\ Len(p.queue) <= Len(q) + (IF p.taken THEN 1 ELSE 0)
      BY <1>1, <2>3, <2>4
    <2> QED BY <2>1, <2>5, <2>6, <2>7
  <1>5. \/ p = [taken |-> FALSE, queue |-> q]
        \/ p = [taken |-> TRUE, queue |-> Inserted(q, i)] /\ Len(q) < Capacity
        \/ \E k \in 1..Len(q) : p = [taken |-> TRUE, queue |-> Inserted(RemoveAt(q, k), i)]
    BY DEF Evaluated, Pushed, Worst
  <1> QED BY <1>2, <1>3, <1>4, <1>5

-------------------------------------------------------------------------------
(***************************************************************************)
(* What an action makes of its call.                                       *)
(***************************************************************************)
Becomes(c, at, saved, todo, left, item, writes) ==
  /\ call'[c].at = at /\ call'[c].saved = saved /\ call'[c].todo = todo
  /\ call'[c].left = left /\ call'[c].item = item /\ call'[c].writes = writes
  /\ \A d \in Calls \ {c} : call'[d] = call[d]
  /\ call' \in [Calls -> Call]

LEMMA RowBecomes ==
  ASSUME Types, NEW c \in Calls, NEW r \in Call, call' = [call EXCEPT ![c] = r]
  PROVE  Becomes(c, r.at, r.saved, r.todo, r.left, r.item, r.writes)
  BY DEF Types, Call, Becomes

LEMMA ReturnedIs ==
  Returned \in Call /\ Returned.at = "idle" /\ NoWrites \in [Events -> Nat]
  BY SchedulerBounds DEF Returned, Call, NoWrites

LEMMA ReadHurdleIs ==
  ASSUME Types, NEW c \in Calls, ReadHurdle(c)
  PROVE  Becomes(c, "read", hurdle, {}, 0, None, NoWrites)
  <1> DEFINE r == [Returned EXCEPT !.at = "read", !.saved = hurdle]
  <1>1. /\ r.at = "read" /\ r.saved = hurdle /\ r.todo = {}
        /\ r.left = 0 /\ r.item = None /\ r.writes = NoWrites
    BY DEF Returned
  <1>2. r \in Call
    BY <1>1, ReturnedIs, SchedulerBounds, ScoreData DEF Call, Types
  <1>3. call' = [call EXCEPT ![c] = r]
    BY DEF ReadHurdle
  <1> HIDE DEF r
  <1> QED BY <1>1, <1>2, <1>3, RowBecomes

LEMMA LowerIs ==
  ASSUME Types, NEW c \in Calls, Lower(c)
  PROVE  Becomes(c, "enqueuing", call[c].saved, Listed, call[c].left, call[c].item, call[c].writes)
  <1> DEFINE r == [call[c] EXCEPT !.at = "enqueuing", !.todo = Listed]
  <1>1. call[c] \in Call /\ Listed \subseteq Items
    BY DEF Types, Listed, Rows
  <1>2. call' = [call EXCEPT ![c] = r]
    BY DEF Lower, Types
  <1>3. r \in Call
    BY <1>1 DEF Call
  <1>4. /\ r.at = "enqueuing" /\ r.saved = call[c].saved /\ r.todo = Listed
        /\ r.left = call[c].left /\ r.item = call[c].item /\ r.writes = call[c].writes
    BY <1>1 DEF Call
  <1> HIDE DEF r
  <1> QED BY <1>2, <1>3, <1>4, RowBecomes

LEMMA EnqueueIs ==
  ASSUME Types, NEW c \in Calls, Enqueue(c)
  PROVE  \E i \in call[c].todo : \E p \in Evaluated(heap, i) :
           /\ heap' = p.queue /\ i \in Items
           /\ Becomes(c, "enqueuing", call[c].saved, call[c].todo \ {i},
                      call[c].left + (IF p.taken THEN 1 ELSE 0), call[c].item, call[c].writes)
  <1>1. call[c] \in Call /\ call[c].at = "enqueuing" /\ call[c].left < Limit
    BY DEF Types, Enqueue
  <1>2. PICK i \in call[c].todo : \E p \in Evaluated(heap, i) :
          /\ heap' = p.queue
          /\ call' = [call EXCEPT ![c] = [call[c] EXCEPT !.todo = call[c].todo \ {i},
                                            !.left = call[c].left + (IF p.taken THEN 1 ELSE 0)]]
    BY ZenonT(60) DEF Enqueue, Types
  <1>7. PICK p \in Evaluated(heap, i) :
          /\ heap' = p.queue
          /\ call' = [call EXCEPT ![c] = [call[c] EXCEPT !.todo = call[c].todo \ {i},
                                            !.left = call[c].left + (IF p.taken THEN 1 ELSE 0)]]
    BY <1>2
  <1> DEFINE n == call[c].left + (IF p.taken THEN 1 ELSE 0)
             r == [call[c] EXCEPT !.todo = call[c].todo \ {i}, !.left = n]
  <1>3. n \in 0..Limit /\ i \in Items
    BY <1>1, SchedulerBounds DEF Call
  <1>4. call' = [call EXCEPT ![c] = r]
    BY <1>7
  <1> HIDE DEF n
  <1>5. r \in Call
    BY <1>1, <1>3 DEF Call
  <1>6. /\ r.at = "enqueuing" /\ r.saved = call[c].saved /\ r.todo = call[c].todo \ {i}
        /\ r.left = n /\ r.item = call[c].item /\ r.writes = call[c].writes
    BY <1>1 DEF Call
  <1> HIDE DEF r
  <1> QED BY <1>3, <1>4, <1>5, <1>6, <1>7, RowBecomes, ZenonT(60) DEF n

LEMMA RestoreIs ==
  ASSUME Types, NEW c \in Calls, RestoreHurdle(c)
  PROVE  \/ call[c].left = 0 /\ Becomes(c, "idle", 0, {}, 0, None, NoWrites)
         \/ call[c].left # 0 /\ Becomes(c, "dispatching", 0, {}, call[c].left, call[c].item, call[c].writes)
  <1>1. call[c] \in Call
    BY DEF Types
  <1>2. CASE call[c].left = 0
    <2>1. call' = [call EXCEPT ![c] = Returned]
      BY <1>2 DEF RestoreHurdle
    <2> QED BY <1>2, <2>1, ReturnedIs, RowBecomes DEF Returned
  <1>3. CASE call[c].left # 0
    <2> DEFINE r == [call[c] EXCEPT !.at = "dispatching", !.todo = {}, !.saved = 0]
    <2>1. call' = [call EXCEPT ![c] = r]
      BY <1>3 DEF RestoreHurdle
    <2>2. r \in Call
      BY <1>1 DEF Call
    <2>3. /\ r.at = "dispatching" /\ r.saved = 0 /\ r.todo = {}
          /\ r.left = call[c].left /\ r.item = call[c].item /\ r.writes = call[c].writes
      BY <1>1 DEF Call
    <2> HIDE DEF r
    <2> QED BY <1>3, <2>1, <2>2, <2>3, RowBecomes
  <1> QED BY <1>2, <1>3

LEMMA EndsIs ==
  ASSUME Types, NEW c \in Calls, SyncFails(c) \/ DispatchFails(c) \/ Commit(c)
  PROVE  Becomes(c, "idle", 0, {}, 0, None, NoWrites)
  <1>1. call' = [call EXCEPT ![c] = Returned]
    BY DEF SyncFails, DispatchFails, Commit
  <1> QED BY <1>1, ReturnedIs, RowBecomes DEF Returned

\* The decision on an item is noted.
LEMMA AnsweredIs ==
  ASSUME Types, NEW c \in Calls, NEW i \in Items, Answered(c, i), call[c].left > 0
  PROVE  Becomes(c, "dispatching", call[c].saved, call[c].todo, call[c].left - 1, None,
                 [call[c].writes EXCEPT ![i.event] = call[c].writes[i.event] + 1])
  <1> DEFINE w == [call[c].writes EXCEPT ![i.event] = call[c].writes[i.event] + 1]
             r == [call[c] EXCEPT !.at = "dispatching", !.item = None, !.left = call[c].left - 1, !.writes = w]
  <1>1. call[c] \in Call /\ call[c].left - 1 \in 0..Limit
    BY SchedulerBounds DEF Types, Call
  <1>2. call[c].writes \in [Events -> Nat] /\ i.event \in Events
    BY <1>1 DEF Call, Items
  <1>3. w \in [Events -> Nat]
    <2>1. call[c].writes[i.event] + 1 \in Nat
      BY <1>2
    <2> QED BY <1>2, <2>1
  <1>4. call' = [call EXCEPT ![c] = r]
    BY <1>1 DEF Answered, Types, Call
  <1> HIDE DEF w
  <1>5. r \in Call
    BY <1>1, <1>3 DEF Call
  <1>6. /\ r.at = "dispatching" /\ r.saved = call[c].saved /\ r.todo = call[c].todo
        /\ r.left = call[c].left - 1 /\ r.item = None /\ r.writes = w
    BY <1>1 DEF Call
  <1> HIDE DEF r
  <1> QED BY <1>4, <1>5, <1>6, RowBecomes DEF w

\* The LLM has answered, nothing is written yet.
LEMMA AnswerIs ==
  ASSUME Types, NEW c \in Calls, Answer(c)
  PROVE  Becomes(c, "answered", call[c].saved, call[c].todo, call[c].left, call[c].item, call[c].writes)
  <1> DEFINE r == [call[c] EXCEPT !.at = "answered"]
  <1>1. call[c] \in Call
    BY DEF Types
  <1>2. call' = [call EXCEPT ![c] = r]
    BY DEF Answer, Types
  <1>3. r \in Call
    BY <1>1 DEF Call
  <1>4. /\ r.at = "answered" /\ r.saved = call[c].saved /\ r.todo = call[c].todo
        /\ r.left = call[c].left /\ r.item = call[c].item /\ r.writes = call[c].writes
    BY <1>1 DEF Call
  <1> HIDE DEF r
  <1> QED BY <1>2, <1>3, <1>4, RowBecomes

\* One more of what is counted for an item.
LEMMA OneMoreIs ==
  ASSUME NEW count \in [Items -> Nat], NEW i \in Items
  PROVE  /\ OneMore(count, i) \in [Items -> Nat]
         /\ Counted => /\ OneMore(count, i)[i] = count[i] + 1
                       /\ \A j \in Items \ {i} : OneMore(count, i)[j] = count[j]
  BY DEF OneMore

LEMMA TakeIs ==
  ASSUME Types, NEW c \in Calls, Take(c), Head(heap) \in Items
  PROVE  LET i == Head(heap) IN
         \/ /\ i \in cache
            /\ Becomes(c, "dispatching", call[c].saved, call[c].todo, call[c].left - 1, None,
                       [call[c].writes EXCEPT ![i.event] = call[c].writes[i.event] + 1])
         \/ Becomes(c, "dispatching", call[c].saved, call[c].todo, call[c].left - 1,
                    call[c].item, call[c].writes)
         \/ /\ i \notin cache
            /\ Becomes(c, "asking", call[c].saved, call[c].todo, call[c].left, i, call[c].writes)
  <1> DEFINE i == Head(heap)
  <1>1. call[c] \in Call /\ call[c].at = "dispatching" /\ call[c].left > 0
    BY DEF Types, Take, WantsMore
  <1>2. CASE i \in cache /\ Answered(c, i)
    BY <1>1, <1>2, AnsweredIs
  <1>3. CASE MLOnly(c)
    <2> DEFINE r == [call[c] EXCEPT !.left = call[c].left - 1]
    <2>1. call[c].left - 1 \in 0..Limit
      BY <1>1, SchedulerBounds DEF Call
    <2>2. call' = [call EXCEPT ![c] = r]
      BY <1>3 DEF MLOnly, Types
    <2>3. r \in Call
      BY <1>1, <2>1 DEF Call
    <2>4. /\ r.at = "dispatching" /\ r.saved = call[c].saved /\ r.todo = call[c].todo
          /\ r.left = call[c].left - 1 /\ r.item = call[c].item /\ r.writes = call[c].writes
      BY <1>1 DEF Call
    <2> HIDE DEF r
    <2> QED BY <2>2, <2>3, <2>4, RowBecomes
  <1>4. CASE i \notin cache /\ call' = [call EXCEPT ![c].at = "asking", ![c].item = i]
    <2> DEFINE r == [call[c] EXCEPT !.at = "asking", !.item = i]
    <2>1. call' = [call EXCEPT ![c] = r]
      BY <1>4 DEF Types
    <2>2. r \in Call
      BY <1>1 DEF Call
    <2>3. /\ r.at = "asking" /\ r.saved = call[c].saved /\ r.todo = call[c].todo
          /\ r.left = call[c].left /\ r.item = i /\ r.writes = call[c].writes
      BY <1>1 DEF Call
    <2> HIDE DEF r
    <2> QED BY <1>4, <2>1, <2>2, <2>3, RowBecomes
  <1> QED BY <1>2, <1>3, <1>4 DEF Take

-------------------------------------------------------------------------------
LEMMA InitialSchedulerInv == Init => SchedulerInv
  <1> SUFFICES ASSUME Init PROVE SchedulerInv
    OBVIOUS
  <1>1. \A c \in Calls : call[c] = Returned /\ Idle(c)
    BY DEF Init, Returned, Idle
  <1>2. Types
    <2>1. heap \in Seq(Items) /\ Len(heap) = 0
      BY DEF Init
    <2>2. version \in [Events -> Versions] /\ decisions \in [Events -> 0..2]
      BY SchedulerBounds DEF Init, Versions, NoWrites
    <2> QED BY <2>1, <2>2, ReturnedIs, SchedulerBounds DEF Init, Types
  <1>3. Syncing = {}
    BY <1>1 DEF Syncing, Returned
  <1>4. Sorted(heap) /\ EventsOnce(heap)
    BY DEF Init, Sorted, EventsOnce
  <1>5. \A e \in Events : decisions[e] = 0
    BY DEF Init, NoWrites
  <1> QED BY <1>1, <1>2, <1>3, <1>4, <1>5
       DEF Init, SchedulerInv, CallOK, Alone, HurdleKnown, CacheKnows, OneKept, DoubtKnown,
           DispatchKnows, Idle, InDoubt, Returned

(***************************************************************************)
(* Types and the queue.                                                    *)
(***************************************************************************)
LEMMA SmallerIs ==
  \A a, b \in Nat : Smaller(a, b) \in {a, b} /\ Smaller(a, b) <= a /\ Smaller(a, b) <= b
  BY DEF Smaller

\* A step of a call that leaves the queue alone.
TypesKept(c) ==
  /\ hurdle' \in {Default, Lowered}
  /\ call' \in [Calls -> Call]
  /\ CallOK(c)' /\ \A d \in Calls \ {c} : call'[d] = call[d]

LEMMA QueueKept ==
  ASSUME SchedulerInv, NEW c \in Calls, TypesKept(c),
         heap' \in Seq(Items), Len(heap') <= Capacity, Sorted(heap'),
         cache' \subseteq Items, cooling' \subseteq Events,
         UNCHANGED <<version, gone>>, decisions' \in [Events -> 0..2],
         answers' \in [Items -> Nat], lost' \in [Items -> Nat],
         past' \subseteq {"overlap", "blurred", "failed", "forgotten"}, troubles' \in 0..MaxTroubles
  PROVE  Types' /\ Sorted(heap)' /\ \A d \in Calls : CallOK(d)'
  <1>1. Types'
    BY DEF SchedulerInv, Types, TypesKept
  <1>2. \A d \in Calls \ {c} : CallOK(d)'
    BY DEF SchedulerInv, CallOK, InDoubt, TypesKept, Syncing
  <1> QED BY <1>1, <1>2 DEF TypesKept

LEMMA SyncTypes ==
  ASSUME SchedulerInv, NEW c \in Calls, Sync(c) \/ SyncFails(c)
  PROVE  Types' /\ Sorted(heap)' /\ \A d \in Calls : CallOK(d)'
  <1>1. /\ Types /\ Sorted(heap) /\ call[c] \in Call /\ {Default, Lowered} \subseteq Nat
        /\ UNCHANGED <<version, decisions, gone, cache, cooling, answers, lost>>
    BY ScoreData DEF SchedulerInv, Types, Sync, SyncFails, ReadHurdle, Lower, Enqueue, RestoreHurdle,
                     scheduler, database, history
  <1>2. /\ past' \subseteq {"overlap", "blurred", "failed", "forgotten"}
        /\ troubles' \in 0..MaxTroubles
    BY <1>1, SchedulerBounds DEF Types, Sync, SyncFails, ReadHurdle, Lower, Enqueue, RestoreHurdle,
                                 history, Trouble
  <1>3. call[c].at \in {"read", "enqueuing"} => call[c].saved \in {Default, Lowered}
    BY DEF SchedulerInv, CallOK, Syncing
  <1>4. CASE ReadHurdle(c)
    <2>1. UNCHANGED <<hurdle, heap>>
      BY <1>4 DEF ReadHurdle, scheduler
    <2>2. TypesKept(c)
      BY <1>1, <1>4, <2>1, ReadHurdleIs DEF TypesKept, CallOK, InDoubt, Becomes, Types, Syncing
    <2> QED BY <1>1, <1>2, <2>1, <2>2, QueueKept DEF Types
  <1>5. CASE Lower(c)
    <2>1. UNCHANGED heap /\ hurdle' = Smaller(call[c].saved, Lowered) /\ call[c].at = "read"
      BY <1>5 DEF Lower, Eased
    <2>2. hurdle' \in {Default, Lowered}
      BY <1>1, <1>3, <2>1 DEF Smaller
    <2>3. TypesKept(c)
      BY <1>1, <1>3, <1>5, <2>1, <2>2, LowerIs DEF TypesKept, CallOK, InDoubt, Becomes, Types, Syncing
    <2> QED BY <1>1, <1>2, <2>1, <2>3, QueueKept DEF Types
  <1>6. CASE Enqueue(c)
    <2>1. PICK i \in Items : \E p \in Evaluated(heap, i) : \E todo, left :
             /\ heap' = p.queue
             /\ Becomes(c, "enqueuing", call[c].saved, todo, left, call[c].item, call[c].writes)
      BY <1>1, <1>6, EnqueueIs
    <2>2. heap' \in Seq(Items) /\ Len(heap') <= Capacity /\ Sorted(heap')
      BY <1>1, <2>1, EvaluatedIs, ScoreData, SchedulerBounds DEF Types
    <2>3. hurdle' = hurdle /\ call[c].at = "enqueuing"
      BY <1>6 DEF Enqueue
    <2>4. TypesKept(c)
      BY <1>1, <1>3, <2>1, <2>3 DEF TypesKept, CallOK, InDoubt, Becomes, Types, Syncing
    <2> QED BY <1>1, <1>2, <2>2, <2>4, QueueKept DEF Types
  <1>7. CASE RestoreHurdle(c)
    <2>1. UNCHANGED heap /\ hurdle' = call[c].saved /\ call[c].at = "enqueuing"
      BY <1>7 DEF RestoreHurdle, Restored
    <2>2. TypesKept(c)
      BY <1>1, <1>3, <1>7, <2>1, RestoreIs DEF TypesKept, CallOK, InDoubt, Becomes, Types, Syncing
    <2> QED BY <1>1, <1>2, <2>1, <2>2, QueueKept DEF Types
  <1>8. CASE SyncFails(c)
    <2>1. UNCHANGED heap /\ hurdle' = call[c].saved /\ call[c].at = "enqueuing"
      BY <1>8 DEF SyncFails, Restored
    <2>2. TypesKept(c)
      BY <1>1, <1>3, <1>8, <2>1, EndsIs DEF TypesKept, CallOK, InDoubt, Becomes, Types, Syncing
    <2> QED BY <1>1, <1>2, <2>1, <2>2, QueueKept DEF Types
  <1> QED BY <1>4, <1>5, <1>6, <1>7, <1>8 DEF Sync

LEMMA DispatchTypes ==
  ASSUME SchedulerInv, NEW c \in Calls, Dispatch(c) \/ DispatchFails(c)
  PROVE  Types' /\ Sorted(heap)' /\ \A d \in Calls : CallOK(d)'
  <1>1. /\ Types /\ Sorted(heap) /\ call[c] \in Call
        /\ UNCHANGED <<hurdle, version, gone>>
    BY DEF SchedulerInv, Types, Dispatch, DispatchFails, Take, Answer, Record, Commit,
           scheduler, database, history
  <1>2. /\ past' \subseteq {"overlap", "blurred", "failed", "forgotten"}
        /\ troubles' \in 0..MaxTroubles
    BY <1>1, SchedulerBounds
    DEF Types, Dispatch, DispatchFails, Take, Answer, Record, Commit, history, Trouble
  <1>3. CASE Take(c)
    <2>1. /\ UNCHANGED <<cache, cooling, decisions, answers, lost>> /\ heap # <<>> /\ heap' = Tail(heap)
          /\ call[c].left > 0
      BY <1>3 DEF Take, database, history, WantsMore
    <2>2. heap \in Seq(Items) /\ Len(heap) \in Nat /\ Capacity \in Nat
      BY <1>1, SchedulerBounds DEF Types
    <2>3. heap' \in Seq(Items) /\ Len(heap') <= Capacity /\ Sorted(heap') /\ Head(heap) \in Items
      <3>1. Tail(heap) \in Seq(Items) /\ Len(Tail(heap)) = Len(heap) - 1 /\ Sorted(Tail(heap)) /\ Head(heap) \in Items
        BY <1>1, <2>1, <2>2, TailIs
      <3>2. Len(heap) <= Capacity
        BY <1>1 DEF Types
      <3> QED BY <2>1, <2>2, <3>1, <3>2
    <2>4. TypesKept(c)
      BY <1>1, <1>3, <2>1, <2>3, TakeIs DEF TypesKept, CallOK, InDoubt, Becomes, Types, Syncing
    <2> QED BY <1>1, <1>2, <2>1, <2>3, <2>4, QueueKept DEF Types
  <1>4. CASE Answer(c)
    <2>1. /\ UNCHANGED <<heap, cache, cooling, decisions, lost>> /\ InDoubt(c)
          /\ answers' = OneMore(answers, call[c].item)
      BY <1>4 DEF Answer, scheduler, database, InDoubt
    <2>2. call[c].item \in Items /\ call[c].left > 0
      BY <2>1 DEF SchedulerInv, CallOK
    <2>3. answers' \in [Items -> Nat]
      BY <1>1, <2>1, <2>2, OneMoreIs DEF Types
    <2>4. TypesKept(c)
      BY <1>1, <1>4, <2>2, AnswerIs DEF TypesKept, CallOK, InDoubt, Becomes, Types, Syncing
    <2> QED BY <1>1, <1>2, <2>1, <2>3, <2>4, QueueKept DEF Types
  <1>5. CASE Record(c)
    <2> DEFINE i == call[c].item
    <2>1. /\ UNCHANGED <<heap, decisions, answers, lost>> /\ InDoubt(c)
          /\ cooling' = cooling \cup {i.event} /\ cache' = cache \cup {i} /\ Answered(c, i)
      BY <1>5 DEF Record, database, history, Cached, InDoubt
    <2>2. i \in Items /\ call[c].left > 0
      BY <2>1 DEF SchedulerInv, CallOK
    <2>3. cache' \subseteq Items /\ cooling' \subseteq Events
      BY <1>1, <2>1, <2>2 DEF Types, Items
    <2>4. TypesKept(c)
      BY <1>1, <2>1, <2>2, AnsweredIs DEF TypesKept, CallOK, InDoubt, Becomes, Types, Syncing
    <2> QED BY <1>1, <1>2, <2>1, <2>3, <2>4, QueueKept DEF Types
  <1>6. CASE Commit(c)
    <2>1. UNCHANGED <<heap, cache, cooling, answers, lost>>
      BY <1>6 DEF Commit, scheduler, history
    <2>2. decisions' \in [Events -> 0..2]
      <3>1. decisions' = [e \in Events |-> Smaller(decisions[e] + call[c].writes[e], 2)]
        BY <1>6 DEF Commit
      <3>2. decisions \in [Events -> 0..2] /\ call[c].writes \in [Events -> Nat]
        BY <1>1 DEF Types, Call
      <3>3. ASSUME NEW e \in Events PROVE Smaller(decisions[e] + call[c].writes[e], 2) \in 0..2
        <4>1. decisions[e] + call[c].writes[e] \in Nat
          BY <3>2
        <4> QED BY <4>1 DEF Smaller
      <3> QED BY <3>1, <3>3
    <2>3. TypesKept(c)
      BY <1>1, <1>6, EndsIs DEF TypesKept, CallOK, InDoubt, Becomes, Types, Syncing
    <2> QED BY <1>1, <1>2, <2>1, <2>2, <2>3, QueueKept DEF Types
  <1>7. CASE DispatchFails(c)
    <2>1. UNCHANGED <<heap, cache, cooling, decisions, answers>>
      BY <1>7 DEF DispatchFails, scheduler, database
    <2>2. lost' \in [Items -> Nat]
      <3>1. CASE call[c].at = "answered"
        <4>1. call[c].item \in Items /\ lost' = OneMore(lost, call[c].item)
          BY <1>7, <3>1 DEF SchedulerInv, CallOK, InDoubt, DispatchFails
        <4> QED BY <1>1, <4>1, OneMoreIs DEF Types
      <3>2. CASE call[c].at # "answered"
        BY <1>1, <1>7, <3>2 DEF DispatchFails, Types
      <3> QED BY <3>1, <3>2
    <2>3. TypesKept(c)
      BY <1>1, <1>7, EndsIs DEF TypesKept, CallOK, InDoubt, Becomes, Types, Syncing
    <2> QED BY <1>1, <1>2, <2>1, <2>2, <2>3, QueueKept DEF Types
  <1> QED BY <1>3, <1>4, <1>5, <1>6, <1>7 DEF Dispatch

LEMMA OtherTypes ==
  ASSUME SchedulerInv,
         ClearByHand \/ Restart \/ Time \/ (\E e \in Events : NewPrediction(e) \/ Leaves(e)) \/ UNCHANGED vars
  PROVE  Types' /\ Sorted(heap)' /\ \A d \in Calls : CallOK(d)'
  <1>1. Types /\ Sorted(heap) /\ \A d \in Calls : CallOK(d)
    BY DEF SchedulerInv
  <1>2. Sorted(<<>>) /\ <<>> \in Seq(Items) /\ Len(<<>>) <= Capacity
    BY SchedulerBounds DEF Sorted
  <1>3. CASE ClearByHand
    <2>1. Types'
      BY <1>1, <1>2, <1>3, SchedulerBounds DEF Types, ClearByHand, database, Trouble
    <2> QED BY <1>1, <1>2, <1>3, <2>1 DEF ClearByHand, CallOK, InDoubt, Syncing
  <1>4. CASE Restart
    <2>1. Types'
      BY <1>1, <1>2, <1>4, ReturnedIs, SchedulerBounds DEF Types, Restart, database, Trouble
    <2> QED BY <1>1, <1>2, <1>4, <2>1, ReturnedIs DEF Restart, CallOK, InDoubt, Syncing
  <1>5. CASE Time
    <2>1. Types'
      <3>1. ASSUME NEW e \in Events, CoolsDown(e) PROVE Types'
        BY <1>1, <3>1 DEF Types, CoolsDown, database, history
      <3>2. ASSUME NEW i \in Items, Expires(i) PROVE Types'
        BY <1>1, <3>2, SchedulerBounds DEF Types, Expires, database, Trouble
      <3> QED BY <1>5, <3>1, <3>2 DEF Time
    <2>2. UNCHANGED <<heap, call>>
      BY <1>5 DEF Time, CoolsDown, Expires
    <2> QED BY <1>1, <2>1, <2>2 DEF CallOK, InDoubt, Syncing
  <1>6. ASSUME NEW e \in Events, NewPrediction(e) PROVE Types' /\ UNCHANGED <<heap, call>>
    <2>1. version' = [version EXCEPT ![e] = version[e] + 1] /\ version[e] + 1 \in Versions
      BY <1>1, <1>6, SchedulerBounds DEF NewPrediction, Types, Versions
    <2>2. version' \in [Events -> Versions]
      BY <1>1, <2>1 DEF Types
    <2> QED BY <1>1, <1>6, <2>2, SchedulerBounds DEF Types, NewPrediction, scheduler, history, Trouble
  <1>7. ASSUME NEW e \in Events, Leaves(e) PROVE Types' /\ UNCHANGED <<heap, call>>
    BY <1>1, <1>7, SchedulerBounds DEF Types, Leaves, scheduler, history, Trouble
  <1>8. CASE UNCHANGED vars
    BY <1>1, <1>8 DEF vars, scheduler, database, history, Types, CallOK, InDoubt, Syncing
  <1> QED BY <1>1, <1>3, <1>4, <1>5, <1>6, <1>7, <1>8 DEF CallOK, InDoubt, Syncing

-------------------------------------------------------------------------------
(***************************************************************************)
(* What a call knows.                                                      *)
(***************************************************************************)
Works(c) == Sync(c) \/ SyncFails(c) \/ Dispatch(c) \/ DispatchFails(c)

\* A call changes itself only, and without overlap no other call does anything.
LEMMA OneCallWorks ==
  ASSUME SchedulerInv, NEW c \in Calls, Works(c)
  PROVE  /\ past \subseteq past' /\ \A d \in Calls \ {c} : call'[d] = call[d]
         /\ "overlap" \notin past' => \A d \in Calls \ {c} : Idle(d) /\ Idle(d)'
  <1>1. Types /\ Alone
    BY DEF SchedulerInv
  <1>2. past \subseteq past' /\ \A d \in Calls \ {c} : call'[d] = call[d]
    BY <1>1 DEF Types, Works, Sync, SyncFails, Dispatch, DispatchFails, ReadHurdle, Lower, Enqueue,
                RestoreHurdle, Take, Answer, Record, Commit, MLOnly, Answered, history
  <1>3. ASSUME "overlap" \notin past' PROVE \A d \in Calls \ {c} : Idle(d)
    <2>1. CASE ReadHurdle(c)
      BY <1>3, <2>1 DEF ReadHurdle
    <2>2. CASE ~Idle(c)
      BY <1>1, <1>2, <1>3, <2>2 DEF Alone
    <2> QED BY <2>1, <2>2 DEF Works, Sync, SyncFails, Dispatch, DispatchFails, Lower, Enqueue,
                              RestoreHurdle, Take, Answer, Record, Commit, Idle
  <1> QED BY <1>2, <1>3 DEF Idle

LEMMA AloneKept ==
  ASSUME SchedulerInv, NEW c \in Calls, Works(c)
  PROVE  Alone'
  BY OneCallWorks DEF Alone

LEMMA HurdleKept ==
  ASSUME SchedulerInv, NEW c \in Calls, Works(c)
  PROVE  HurdleKnown'
  <1> SUFFICES ASSUME "blurred" \notin past'
               PROVE  /\ \A a, b \in Syncing' : a = b
                      /\ \A a \in Syncing' : call'[a].saved = Default
                      /\ Syncing' = {} \/ (\E a \in Calls : call'[a].at = "read") => hurdle' = Default
    BY DEF HurdleKnown
  <1>1. Types /\ past \subseteq past' /\ \A d \in Calls \ {c} : call'[d] = call[d]
    BY OneCallWorks DEF SchedulerInv
  <1>2. /\ \A a, b \in Syncing : a = b
        /\ \A a \in Syncing : call[a].saved = Default
        /\ Syncing = {} \/ (\E a \in Calls : call[a].at = "read") => hurdle = Default
    BY <1>1 DEF SchedulerInv, HurdleKnown
  <1>3. CASE ReadHurdle(c)
    <2>1. Syncing = {} /\ UNCHANGED hurdle
      BY <1>3 DEF ReadHurdle, scheduler
    <2>2. call'[c].at = "read" /\ call'[c].saved = hurdle
      BY <1>1, <1>3, ReadHurdleIs DEF Becomes
    <2> QED BY <1>1, <1>2, <2>1, <2>2 DEF Syncing
  <1>4. CASE Lower(c) \/ Enqueue(c)
    <2>1. c \in Syncing
      BY <1>4 DEF Lower, Enqueue, Syncing
    <2>2. call'[c].at = "enqueuing" /\ call'[c].saved = call[c].saved
      BY <1>1, <1>4, LowerIs, EnqueueIs DEF Becomes
    <2> QED BY <1>1, <1>2, <2>1, <2>2 DEF Syncing
  <1>5. CASE RestoreHurdle(c) \/ SyncFails(c)
    <2>1. c \in Syncing /\ hurdle' = call[c].saved
      BY <1>5 DEF RestoreHurdle, SyncFails, Restored, Syncing
    <2>2. call'[c].at \in {"idle", "dispatching"}
      BY <1>1, <1>5, RestoreIs, EndsIs DEF Becomes
    <2> QED BY <1>1, <1>2, <2>1, <2>2 DEF Syncing
  <1>6. CASE Dispatch(c) \/ DispatchFails(c)
    <2>1. UNCHANGED hurdle /\ call[c].at \in {"dispatching", "asking", "answered"}
      BY <1>6 DEF Dispatch, DispatchFails, Take, Answer, Record, Commit, scheduler
    <2>2. call'[c].at \in {"idle", "dispatching", "asking", "answered"}
      BY <1>1, <1>6
      DEF Types, Call, Dispatch, DispatchFails, Take, Answer, Record, Commit, MLOnly, Answered, Returned
    <2>3. Syncing' = Syncing /\ \A a \in Calls : call'[a].at = "read" => call[a].at = "read"
      BY <1>1, <2>1, <2>2 DEF Syncing
    <2> QED BY <1>1, <1>2, <2>1, <2>3 DEF Syncing
  <1> QED BY <1>3, <1>4, <1>5, <1>6 DEF Works, Sync

LEMMA CacheKept ==
  ASSUME SchedulerInv, NEW c \in Calls, Works(c)
  PROVE  CacheKnows'
  <1> SUFFICES ASSUME past' \cap {"overlap", "forgotten"} = {}
               PROVE  (\A i \in Items : OneKept(i)') /\ (\A d \in Calls : DoubtKnown(d)')
    BY DEF CacheKnows
  <1>1. /\ Types /\ past \cap {"overlap", "forgotten"} = {}
        /\ answers \in [Items -> Nat] /\ lost \in [Items -> Nat]
        /\ \A d \in Calls \ {c} : call'[d] = call[d] /\ Idle(d) /\ Idle(d)'
    BY OneCallWorks DEF SchedulerInv, Types
  <1>2. /\ \A i \in Items : OneKept(i)
        /\ call[c].at = "asking" => answers[call[c].item] = lost[call[c].item]
        /\ call[c].at = "answered" => answers[call[c].item] = lost[call[c].item] + 1
    BY <1>1 DEF SchedulerInv, CacheKnows, DoubtKnown
  <1>3. /\ \A d \in Calls \ {c} : call[d].at \notin {"asking", "answered"}
        /\ \A d \in Calls \ {c} : DoubtKnown(d)'
    BY <1>1 DEF Idle, DoubtKnown
  <1>4. \A i \in Items : Kept(i) => i \in cache \/ (call[c].at = "answered" /\ call[c].item = i)
    BY <1>3 DEF Kept
  <1>5. CASE Sync(c) \/ SyncFails(c) \/ Commit(c)
    <2>1. UNCHANGED <<cache, answers, lost>> /\ call[c].at # "answered"
      BY <1>5 DEF Sync, SyncFails, Commit, ReadHurdle, Lower, Enqueue, RestoreHurdle,
                  scheduler, history, Idle
    <2>2. call'[c].at \notin {"asking", "answered"}
      BY <1>1, <1>5, ReadHurdleIs, LowerIs, EnqueueIs, RestoreIs, EndsIs DEF Sync, Becomes
    <2>3. \A i \in Items : Kept(i) => Kept(i)'
      BY <1>4, <2>1 DEF Kept
    <2>4. \A i \in Items : OneKept(i)'
      BY <1>2, <2>1, <2>3 DEF OneKept
    <2>5. DoubtKnown(c)'
      BY <2>2 DEF DoubtKnown
    <2> QED BY <1>3, <2>4, <2>5
  <1>6. CASE Take(c)
    <2>1. UNCHANGED <<cache, answers, lost>> /\ call[c].at = "dispatching" /\ Head(heap) \in Items
      BY <1>1, <1>6, TailIs DEF Take, history, SchedulerInv, Types
    <2>2. /\ call'[c].at \in {"dispatching", "asking"}
          /\ call'[c].at = "asking" => call'[c].item \in Items /\ call'[c].item \notin cache
      BY <1>1, <1>6, <2>1, TakeIs DEF Becomes
    <2>3. \A i \in Items : Kept(i) => i \in cache
      BY <1>4, <2>1
    <2>4. \A i \in Items : Kept(i) => Kept(i)'
      BY <2>1, <2>3 DEF Kept
    <2>5. \A i \in Items : OneKept(i)'
      BY <1>2, <2>1, <2>4 DEF OneKept
    <2>6. \A i \in Items : i \notin cache => answers[i] = lost[i]
      BY <1>2, <2>3 DEF OneKept
    <2>7. DoubtKnown(c)'
      BY <2>1, <2>2, <2>6 DEF DoubtKnown
    <2> QED BY <1>3, <2>5, <2>7
  <1>7. CASE Answer(c)
    <2>1. PICK i \in Items : i = call[c].item /\ call[c].at = "asking" /\ call[c].left > 0
      BY <1>7 DEF Answer, SchedulerInv, CallOK, InDoubt
    <2>2. UNCHANGED <<cache, lost>> /\ answers' = OneMore(answers, i) /\ Counted
      BY <1>1, <1>7, <2>1 DEF Answer, scheduler, Counted
    <2>3. /\ answers[i] = lost[i] /\ answers'[i] = answers[i] + 1
          /\ \A j \in Items \ {i} : answers'[j] = answers[j]
      BY <1>1, <1>2, <2>1, <2>2, OneMoreIs
    <2>4. call'[c].at = "answered" /\ call'[c].item = i
      BY <1>1, <1>7, <2>1, AnswerIs DEF Becomes
    <2>5. Kept(i)' /\ \A j \in Items : Kept(j) => Kept(j)'
      BY <1>4, <2>1, <2>2, <2>4 DEF Kept
    <2>6. OneKept(i)'
      BY <2>2, <2>3, <2>5 DEF OneKept
    <2>7. \A j \in Items \ {i} : OneKept(j)'
      BY <1>2, <2>2, <2>3, <2>5 DEF OneKept
    <2>8. DoubtKnown(c)'
      BY <2>2, <2>3, <2>4 DEF DoubtKnown
    <2> QED BY <1>3, <2>6, <2>7, <2>8
  <1>8. CASE Record(c)
    <2>1. PICK i \in Items : i = call[c].item /\ call[c].at = "answered" /\ call[c].left > 0
      BY <1>8 DEF Record, SchedulerInv, CallOK, InDoubt
    <2>2. UNCHANGED <<answers, lost>> /\ cache' = cache \cup {i} /\ Answered(c, i)
      BY <1>8, <2>1 DEF Record, history, Cached
    <2>3. call'[c].at = "dispatching"
      BY <1>1, <2>1, <2>2, AnsweredIs DEF Becomes
    <2>4. \A j \in Items : Kept(j) => Kept(j)'
      BY <1>4, <2>1, <2>2 DEF Kept
    <2>5. \A j \in Items : OneKept(j)'
      BY <1>2, <2>2, <2>4 DEF OneKept
    <2>6. DoubtKnown(c)'
      BY <2>3 DEF DoubtKnown
    <2> QED BY <1>3, <2>5, <2>6
  <1>9. CASE DispatchFails(c)
    <2>1. UNCHANGED <<cache, answers>> /\ Counted
      BY <1>1, <1>9 DEF DispatchFails, scheduler, Counted
    <2>2. call'[c].at = "idle"
      BY <1>1, <1>9, EndsIs DEF Becomes
    <2>3. DoubtKnown(c)'
      BY <2>2 DEF DoubtKnown
    <2>4. CASE call[c].at = "answered"
      <3>1. PICK i \in Items : i = call[c].item
        BY <2>4 DEF SchedulerInv, CallOK, InDoubt
      <3>2. lost' = OneMore(lost, i) /\ answers[i] = lost[i] + 1
        BY <1>2, <1>9, <2>4, <3>1 DEF DispatchFails
      <3>3. lost'[i] = lost[i] + 1 /\ \A j \in Items \ {i} : lost'[j] = lost[j]
        BY <1>1, <2>1, <3>2, OneMoreIs
      <3>4. \A j \in Items \ {i} : Kept(j) => Kept(j)'
        BY <1>4, <2>1, <3>1 DEF Kept
      <3>5. OneKept(i)'
        BY <2>1, <3>2, <3>3 DEF OneKept
      <3>6. \A j \in Items \ {i} : OneKept(j)'
        BY <1>2, <2>1, <3>3, <3>4 DEF OneKept
      <3> QED BY <1>3, <2>3, <3>5, <3>6
    <2>5. CASE call[c].at # "answered"
      <3>1. UNCHANGED lost
        BY <1>9, <2>5 DEF DispatchFails
      <3>2. \A j \in Items : Kept(j) => Kept(j)'
        BY <1>4, <2>1, <2>5 DEF Kept
      <3>3. \A j \in Items : OneKept(j)'
        BY <1>2, <2>1, <3>1, <3>2 DEF OneKept
      <3> QED BY <1>3, <2>3, <3>3
    <2> QED BY <2>4, <2>5
  <1> QED BY <1>5, <1>6, <1>7, <1>8, <1>9 DEF Works, Dispatch

LEMMA SyncKnows ==
  ASSUME SchedulerInv, NEW c \in Calls, Sync(c) \/ SyncFails(c)
  PROVE  DispatchKnows'
  <1> SUFFICES ASSUME past' \cap {"overlap", "failed"} = {}
               PROVE  /\ EventsOnce(heap')
                      /\ (\A d \in Calls : Idle(d)') => heap' = <<>>
                      /\ \A d \in Calls : ~Idle(d)' => OnePlace(d)'
                      /\ \A e \in Events : decisions'[e] <= 1
    BY DEF DispatchKnows
  <1>1. /\ Types /\ past \cap {"overlap", "failed"} = {} /\ call[c] \in Call
        /\ \A d \in Calls \ {c} : Idle(d) /\ Idle(d)'
    BY OneCallWorks DEF SchedulerInv, Works, Types
  <1>2. /\ EventsOnce(heap) /\ \A e \in Events : decisions[e] <= 1
        /\ Idle(c) => heap = <<>>
        /\ ~Idle(c) => OnePlace(c)
    BY <1>1 DEF SchedulerInv, DispatchKnows
  <1>3. UNCHANGED decisions
    BY DEF Sync, SyncFails, ReadHurdle, Lower, Enqueue, RestoreHurdle, database
  <1>4. EventsOf(<<>>) = {} /\ Len(<<>>) = 0 /\ Len(heap) \in Nat /\ heap \in Seq(Items)
    BY <1>1, LenProperties DEF EventsOf, Types
  <1>5. CASE ReadHurdle(c)
    <2>1. heap = <<>> /\ heap' = heap
      BY <1>2, <1>5 DEF ReadHurdle, scheduler
    <2>2. /\ call'[c].at = "read" /\ call'[c].todo = {} /\ call'[c].left = 0
          /\ call'[c].writes = NoWrites
      BY <1>1, <1>5, ReadHurdleIs DEF Becomes
    <2>3. Todo(c)' = {} /\ Asked(c)' = {} /\ Written(c)' = {} /\ EventsOf(heap') = {}
      BY <1>4, <2>1, <2>2 DEF Todo, Asked, InDoubt, Written, NoWrites
    <2>4. \A e \in Events : call'[c].writes[e] = 0
      BY <2>2 DEF NoWrites
    <2>5. OnePlace(c)'
      BY <1>4, <2>1, <2>2, <2>3, <2>4 DEF OnePlace, InDoubt
    <2> QED BY <1>1, <1>2, <1>3, <2>1, <2>5
  <1>6. CASE Lower(c)
    <2>1. UNCHANGED heap /\ ~Idle(c) /\ call[c].at = "read" /\ call[c].left = 0
      BY <1>6 DEF Lower, Idle, SchedulerInv, CallOK
    <2>2. heap = <<>>
      BY <1>2, <1>4, <2>1, EmptySeq DEF OnePlace, InDoubt
    <2>3. /\ call'[c].at = "enqueuing" /\ call'[c].todo = Listed /\ call'[c].left = call[c].left
          /\ call'[c].writes = call[c].writes
      BY <1>1, <1>6, LowerIs DEF Becomes
    <2>4. EventsOf(heap') = {} /\ Asked(c)' = {} /\ Written(c)' = {}
      BY <1>2, <1>4, <2>1, <2>2, <2>3 DEF Asked, InDoubt, Written, OnePlace
    <2>5. /\ \A i, j \in Listed : i.event = j.event => i = j
          /\ \A i \in Listed : decisions[i.event] = 0
      BY DEF Listed, Rows, Newest, Undecided
    <2>6. OnePlace(c)'
      BY <1>2, <1>3, <1>4, <2>1, <2>2, <2>3, <2>4, <2>5 DEF OnePlace, InDoubt, Todo
    <2>7. ~Idle(c)'
      BY <2>3 DEF Idle
    <2> QED BY <1>1, <1>2, <1>3, <2>1, <2>6, <2>7
  <1>7. CASE Enqueue(c)
    <2>1. ~Idle(c) /\ call[c].at = "enqueuing"
      BY <1>7 DEF Enqueue, Idle
    <2>2. PICK i \in call[c].todo : \E p \in Evaluated(heap, i) :
           /\ heap' = p.queue /\ i \in Items
           /\ Becomes(c, "enqueuing", call[c].saved, call[c].todo \ {i},
                      call[c].left + (IF p.taken THEN 1 ELSE 0), call[c].item, call[c].writes)
      BY <1>1, <1>7, EnqueueIs
    <2>3. PICK p \in Evaluated(heap, i) :
           /\ heap' = p.queue /\ i \in Items
           /\ Becomes(c, "enqueuing", call[c].saved, call[c].todo \ {i},
                      call[c].left + (IF p.taken THEN 1 ELSE 0), call[c].item, call[c].writes)
      BY <2>2
    <2>4. /\ call'[c].at = "enqueuing" /\ call'[c].todo = call[c].todo \ {i}
          /\ call'[c].left = call[c].left + (IF p.taken THEN 1 ELSE 0)
          /\ call'[c].writes = call[c].writes
      BY <2>3 DEF Becomes
    <2>5. /\ Len(p.queue) <= Len(heap) + (IF p.taken THEN 1 ELSE 0)
          /\ EventsOf(p.queue) \subseteq EventsOf(heap) \cup {i.event}
          /\ EventsOnce(heap) /\ i.event \notin EventsOf(heap) => EventsOnce(p.queue)
          /\ Len(p.queue) \in Nat
      <3>1. Sorted(heap) /\ Len(heap) <= Capacity
        BY <1>1 DEF SchedulerInv, Types
      <3>2. p.queue \in Seq(Items)
        BY <1>4, <2>3, <3>1, EvaluatedIs, ScoreData, SchedulerBounds
      <3> QED BY <1>4, <2>3, <3>1, <3>2, EvaluatedIs, ScoreData, SchedulerBounds, LenProperties
    <2>6. i.event \in Todo(c) /\ i.event \notin EventsOf(heap) /\ Written(c) = {}
      BY <1>2, <2>1 DEF Todo, OnePlace, InDoubt
    <2>7. Asked(c)' = {} /\ Written(c)' = {}
      BY <2>4, <2>6 DEF Asked, InDoubt, Written
    <2>8. Todo(c)' \subseteq Todo(c) /\ i.event \notin Todo(c)'
      BY <1>2, <2>1, <2>4 DEF Todo, OnePlace, InDoubt
    <2>9. \A j, k \in call'[c].todo : j.event = k.event => j = k
      BY <1>2, <2>1, <2>4 DEF OnePlace, InDoubt
    <2>10. EventsOf(heap') \subseteq EventsOf(heap) \cup {i.event}
      BY <2>3, <2>5
    <2>11. Len(heap') <= call'[c].left
      <3>1. Len(heap) <= call[c].left /\ call[c].left \in Nat
        BY <1>1, <1>2, <2>1, SchedulerBounds DEF OnePlace, InDoubt, Call
      <3> QED BY <1>4, <2>3, <2>4, <2>5, <3>1
    <2>12. OnePlace(c)'
      BY <1>2, <1>3, <2>1, <2>4, <2>6, <2>7, <2>8, <2>9, <2>10, <2>11 DEF OnePlace, InDoubt
    <2>13. ~Idle(c)'
      BY <2>4 DEF Idle
    <2> QED BY <1>1, <1>2, <1>3, <2>3, <2>5, <2>6, <2>12, <2>13
  <1>8. CASE RestoreHurdle(c)
    <2>1. UNCHANGED heap /\ ~Idle(c) /\ call[c].at = "enqueuing"
      BY <1>8 DEF RestoreHurdle, Idle
    <2>2. OnePlace(c) /\ Written(c) = {} /\ Len(heap) <= call[c].left
      BY <1>2, <2>1 DEF OnePlace, InDoubt
    <2>3. CASE call[c].left = 0 /\ call'[c].at = "idle"
      <3>1. heap' = <<>>
        BY <1>4, <2>1, <2>2, <2>3, EmptySeq
      <3>2. Idle(c)'
        BY <2>3 DEF Idle
      <3> QED BY <1>1, <1>2, <1>3, <2>1, <3>1, <3>2
    <2>4. CASE /\ call'[c].at = "dispatching" /\ call'[c].todo = {} /\ call'[c].left = call[c].left
               /\ call'[c].writes = call[c].writes
      <3>1. Todo(c)' = {} /\ Asked(c)' = {} /\ Written(c)' = {}
        BY <2>2, <2>4 DEF Todo, Asked, InDoubt, Written
      <3>2. OnePlace(c)'
        BY <1>3, <2>1, <2>2, <2>4, <3>1 DEF OnePlace, InDoubt
      <3>3. ~Idle(c)'
        BY <2>4 DEF Idle
      <3> QED BY <1>1, <1>2, <1>3, <2>1, <3>2, <3>3
    <2> QED BY <1>1, <1>8, <2>3, <2>4, RestoreIs DEF Becomes
  <1>9. CASE SyncFails(c)
    BY <1>9 DEF SyncFails
  <1> QED BY <1>5, <1>6, <1>7, <1>8, <1>9 DEF Sync

LEMMA DispatchStillKnows ==
  ASSUME SchedulerInv, NEW c \in Calls, Dispatch(c) \/ DispatchFails(c)
  PROVE  DispatchKnows'
  <1> SUFFICES ASSUME past' \cap {"overlap", "failed"} = {}
               PROVE  /\ EventsOnce(heap')
                      /\ (\A d \in Calls : Idle(d)') => heap' = <<>>
                      /\ \A d \in Calls : ~Idle(d)' => OnePlace(d)'
                      /\ \A e \in Events : decisions'[e] <= 1
    BY DEF DispatchKnows
  <1>1. /\ Types /\ past \cap {"overlap", "failed"} = {} /\ call[c] \in Call
        /\ \A d \in Calls \ {c} : Idle(d) /\ Idle(d)'
    BY OneCallWorks DEF SchedulerInv, Works, Types
  <1>2. call[c].at \in {"dispatching", "asking", "answered"} /\ ~Idle(c)
    BY DEF Dispatch, DispatchFails, Take, Answer, Record, Commit, Idle
  <1>3. EventsOnce(heap) /\ OnePlace(c) /\ \A e \in Events : decisions[e] <= 1
    BY <1>1, <1>2 DEF SchedulerInv, DispatchKnows
  <1>4. /\ Len(heap) \in Nat /\ heap \in Seq(Items) /\ call[c].left \in Nat
        /\ call[c].writes \in [Events -> Nat] /\ decisions \in [Events -> 0..2]
        /\ call[c].todo = {} /\ Todo(c) = {}
    BY <1>1, <1>2, <1>3, LenProperties, SchedulerBounds DEF Types, Call, OnePlace, InDoubt, Todo
  <1>5. CASE Take(c)
    <2> DEFINE i == Head(heap)
               w == [call[c].writes EXCEPT ![i.event] = call[c].writes[i.event] + 1]
    <2>1. /\ heap' = Tail(heap) /\ heap # <<>> /\ UNCHANGED decisions
          /\ call[c].at = "dispatching" /\ call[c].left > 0
      BY <1>5 DEF Take, database, WantsMore
    <2>2. /\ Len(heap') = Len(heap) - 1 /\ EventsOf(heap') \subseteq EventsOf(heap)
          /\ i \in Items /\ i.event \in EventsOf(heap) /\ i.event \notin EventsOf(heap')
          /\ EventsOnce(heap')
      BY <1>3, <1>4, <2>1, TailIs DEF SchedulerInv
    <2>3. /\ call'[c].todo = {}
          /\ \/ call'[c].at = "dispatching" /\ call'[c].left = call[c].left - 1 /\ call'[c].writes = w
             \/ /\ call'[c].at = "dispatching" /\ call'[c].left = call[c].left - 1
                /\ call'[c].writes = call[c].writes
             \/ /\ call'[c].at = "asking" /\ call'[c].left = call[c].left /\ call'[c].item = i
                /\ call'[c].writes = call[c].writes
      BY <1>1, <1>4, <1>5, <2>2, TakeIs DEF Becomes
    <2>4. i.event \in Events /\ i.event \notin Written(c) /\ decisions[i.event] = 0 /\ Asked(c) = {}
      BY <1>3, <2>1, <2>2 DEF OnePlace, InDoubt, Items, Asked, InDoubt
    <2>5. Len(heap') <= call[c].left - 1
      BY <1>3, <1>4, <2>1, <2>2 DEF OnePlace, InDoubt
    <2>6. w \in [Events -> Nat] /\ w[i.event] = 1 /\ \A e \in Events \ {i.event} : w[e] = call[c].writes[e]
      BY <1>4, <2>4 DEF Written
    <2> HIDE DEF i, w
    <2>7. Todo(c)' = {} /\ ~Idle(c)'
      BY <2>3 DEF Todo, Idle
    <2>8. OnePlace(c)'
      <3>1. CASE call'[c].at = "dispatching" /\ call'[c].left = call[c].left - 1 /\ call'[c].writes = w
        <4>1. Asked(c)' = {} /\ Written(c)' \subseteq Written(c) \cup {i.event}
          BY <2>6, <3>1 DEF Asked, InDoubt, Written
        <4>2. \A e \in Events : call'[c].writes[e] <= 1
          BY <1>3, <2>6, <3>1 DEF OnePlace, InDoubt
        <4> QED BY <1>3, <2>1, <2>2, <2>3, <2>4, <2>5, <2>7, <3>1, <4>1, <4>2 DEF OnePlace, InDoubt
      <3>2. CASE /\ call'[c].at = "dispatching" /\ call'[c].left = call[c].left - 1
                 /\ call'[c].writes = call[c].writes
        <4>1. Asked(c)' = {} /\ Written(c)' = Written(c)
          BY <3>2 DEF Asked, InDoubt, Written
        <4> QED BY <1>3, <2>1, <2>2, <2>3, <2>4, <2>5, <2>7, <3>2, <4>1 DEF OnePlace, InDoubt
      <3>3. CASE /\ call'[c].at = "asking" /\ call'[c].left = call[c].left /\ call'[c].item = i
                 /\ call'[c].writes = call[c].writes
        <4>1. Asked(c)' = {i.event} /\ Written(c)' = Written(c)
          BY <3>3 DEF Asked, InDoubt, Written
        <4> QED BY <1>3, <2>1, <2>2, <2>3, <2>4, <2>5, <2>7, <3>3, <4>1 DEF OnePlace, InDoubt
      <3> QED BY <2>3, <3>1, <3>2, <3>3
    <2> QED BY <1>1, <1>3, <2>1, <2>2, <2>7, <2>8
  <1>6. CASE Answer(c)
    <2>1. UNCHANGED <<heap, decisions>> /\ call[c].at = "asking"
      BY <1>6 DEF Answer, scheduler, database
    <2>2. /\ call'[c].at = "answered" /\ call'[c].todo = call[c].todo /\ call'[c].left = call[c].left
          /\ call'[c].item = call[c].item /\ call'[c].writes = call[c].writes
      BY <1>1, <1>6, AnswerIs DEF Becomes
    <2>3. /\ Asked(c)' = Asked(c) /\ Todo(c)' = Todo(c) /\ Written(c)' = Written(c)
          /\ InDoubt(c)' = InDoubt(c) /\ ~Idle(c)'
      BY <2>1, <2>2 DEF Asked, InDoubt, Todo, Written, Idle
    <2>4. OnePlace(c)'
      BY <1>3, <1>4, <2>1, <2>2, <2>3 DEF OnePlace
    <2> QED BY <1>1, <1>3, <2>1, <2>3, <2>4
  <1>7. CASE Record(c)
    <2> DEFINE i == call[c].item
               w == [call[c].writes EXCEPT ![i.event] = call[c].writes[i.event] + 1]
    <2>1. UNCHANGED <<heap, decisions>> /\ call[c].at = "answered" /\ Answered(c, i)
      BY <1>7 DEF Record, database
    <2>2. i \in Items /\ call[c].left > 0 /\ Asked(c) = {i.event}
      BY <2>1 DEF SchedulerInv, CallOK, Asked, InDoubt
    <2>3. /\ call'[c].at = "dispatching" /\ call'[c].todo = {} /\ call'[c].left = call[c].left - 1
          /\ call'[c].writes = w
      <3>1. Becomes(c, "dispatching", call[c].saved, call[c].todo, call[c].left - 1, None, w)
        BY <1>1, <2>1, <2>2, AnsweredIs
      <3> HIDE DEF w
      <3> QED BY <1>4, <3>1 DEF Becomes
    <2>4. i.event \in Events /\ i.event \notin Written(c) /\ i.event \notin EventsOf(heap) /\ decisions[i.event] = 0
      BY <1>3, <2>2 DEF OnePlace, InDoubt, Items
    <2>5. w \in [Events -> Nat] /\ w[i.event] = 1 /\ \A e \in Events \ {i.event} : w[e] = call[c].writes[e]
      BY <1>4, <2>4 DEF Written
    <2>6. Len(heap) <= call[c].left - 1
      BY <1>3, <2>1 DEF OnePlace, InDoubt
    <2> HIDE DEF i, w
    <2>7. /\ Asked(c)' = {} /\ Todo(c)' = {} /\ ~Idle(c)'
          /\ Written(c)' \subseteq Written(c) \cup {i.event}
      BY <2>3, <2>5 DEF Asked, InDoubt, Todo, Idle, Written
    <2>8. \A e \in Events : call'[c].writes[e] <= 1
      BY <1>3, <2>3, <2>5 DEF OnePlace, InDoubt
    <2>9. OnePlace(c)'
      BY <1>3, <2>1, <2>2, <2>3, <2>4, <2>6, <2>7, <2>8 DEF OnePlace, InDoubt
    <2> QED BY <1>1, <1>3, <2>1, <2>7, <2>9
  <1>8. CASE Commit(c)
    <2>1. UNCHANGED heap /\ decisions' = [e \in Events |-> Smaller(decisions[e] + call[c].writes[e], 2)]
      BY <1>8 DEF Commit, scheduler
    <2>2. heap = <<>>
      <3>1. CASE ~(call[c].left > 0)
        <4>1. Len(heap) <= call[c].left
          BY <1>3, <1>8 DEF OnePlace, InDoubt, Commit
        <4> QED BY <1>4, <3>1, <4>1, EmptySeq
      <3> QED BY <1>8, <3>1 DEF Commit, WantsMore
    <2>3. ASSUME NEW e \in Events PROVE decisions'[e] <= 1
      <3>1. decisions[e] \in Nat /\ call[c].writes[e] \in Nat /\ decisions[e] <= 1 /\ call[c].writes[e] <= 1
        BY <1>3, <1>4 DEF OnePlace, InDoubt
      <3>2. call[c].writes[e] # 0 => decisions[e] = 0
        BY <1>3 DEF OnePlace, InDoubt, Written
      <3> QED BY <2>1, <3>1, <3>2 DEF Smaller
    <2>4. Idle(c)'
      BY <1>1, <1>8, EndsIs DEF Becomes, Idle
    <2> QED BY <1>1, <1>3, <2>1, <2>2, <2>3, <2>4
  <1>9. CASE DispatchFails(c)
    BY <1>9 DEF DispatchFails
  <1> QED BY <1>5, <1>6, <1>7, <1>8, <1>9 DEF Dispatch

\* What happens beside the calls.
LEMMA OthersKnow ==
  ASSUME SchedulerInv,
         ClearByHand \/ Restart \/ Time \/ (\E e \in Events : NewPrediction(e) \/ Leaves(e)) \/ UNCHANGED vars
  PROVE  Alone' /\ HurdleKnown' /\ CacheKnows' /\ DispatchKnows'
  <1>1. Alone /\ HurdleKnown /\ CacheKnows /\ DispatchKnows /\ Types
    BY DEF SchedulerInv
  <1>2. CASE ClearByHand
    <2>1. CacheKnows' /\ DispatchKnows'
      BY <1>2 DEF ClearByHand, CacheKnows, DispatchKnows
    <2>2. UNCHANGED <<call, hurdle>> /\ past \subseteq past'
      BY <1>2 DEF ClearByHand
    <2> QED BY <1>1, <2>1, <2>2 DEF Alone, HurdleKnown, Idle, Syncing
  <1>3. CASE Restart
    <2>1. CacheKnows' /\ DispatchKnows'
      BY <1>3 DEF Restart, CacheKnows, DispatchKnows
    <2>2. hurdle' = Default /\ \A c \in Calls : call'[c].at = "idle"
      BY <1>3 DEF Restart, Returned
    <2> QED BY <2>1, <2>2 DEF Alone, HurdleKnown, Idle, Syncing
  <1>4. CASE \E i \in Items : Expires(i)
    <2>1. UNCHANGED <<hurdle, heap, call, decisions>> /\ past' = past \cup {"forgotten"}
      BY <1>4 DEF Expires, database
    <2>2. CacheKnows'
      BY <2>1 DEF CacheKnows
    <2> QED BY <1>1, <2>1, <2>2
         DEF Alone, HurdleKnown, DispatchKnows, Idle, Syncing, OnePlace, Todo, Asked, InDoubt, Written
  <1>5. CASE \/ \E e \in Events : CoolsDown(e) \/ NewPrediction(e) \/ Leaves(e)
             \/ UNCHANGED vars
    <2>1. UNCHANGED <<hurdle, heap, call, decisions, cache, answers, lost, past>>
      BY <1>5 DEF CoolsDown, NewPrediction, Leaves, vars, scheduler, database, history
    <2> QED BY <1>1, <2>1
         DEF Alone, HurdleKnown, CacheKnows, OneKept, DoubtKnown, Kept, DispatchKnows, Idle, Syncing,
             OnePlace, Todo, Asked, InDoubt, Written
  <1> QED BY <1>2, <1>3, <1>4, <1>5 DEF Time

LEMMA SchedulerStep == SchedulerInv /\ [Next]_vars => SchedulerInv'
  <1> SUFFICES ASSUME SchedulerInv, [Next]_vars PROVE SchedulerInv'
    OBVIOUS
  <1>1. ASSUME NEW c \in Calls, Works(c) PROVE SchedulerInv'
    <2>1. Types' /\ Sorted(heap)' /\ \A d \in Calls : CallOK(d)'
      BY <1>1, SyncTypes, DispatchTypes DEF Works
    <2>2. Alone' /\ HurdleKnown' /\ CacheKnows'
      BY <1>1, AloneKept, HurdleKept, CacheKept
    <2>3. DispatchKnows'
      BY <1>1, SyncKnows, DispatchStillKnows DEF Works
    <2> QED BY <2>1, <2>2, <2>3 DEF SchedulerInv
  <1>2. CASE ClearByHand \/ Restart \/ Time \/ (\E e \in Events : NewPrediction(e) \/ Leaves(e)) \/ UNCHANGED vars
    BY <1>2, OtherTypes, OthersKnow DEF SchedulerInv
  <1> QED BY <1>1, <1>2 DEF Next, Fails, Works

-------------------------------------------------------------------------------
(***************************************************************************)
(* The theorems.                                                           *)
(***************************************************************************)
\* What the scheduler's requests keep true between them, whatever their order:
\* sync_ml_predictions, dispatch_batch, clear and a restart of the backend.
THEOREM SchedulerInvariant == Spec => []SchedulerInv
  BY InitialSchedulerInv, SchedulerStep, PTL DEF Spec

\* Every variable has its type, and the heap of CandidateQueue, which push,
\* pop and the eviction of the worst item change, is sorted and within max_size.
THEOREM SchedulerTypes == Spec => []TypeOK
  <1>1. SchedulerInv => TypeOK
    <2> SUFFICES ASSUME SchedulerInv PROVE TypeOK
      OBVIOUS
    <2>1. Types /\ Len(heap) \in Nat
      BY LenProperties DEF SchedulerInv, Types
    <2>2. \A k \in 1..Len(heap) - 1 : k \in 1..Len(heap) /\ k + 1 \in 1..Len(heap) /\ k <= k + 1
      BY <2>1
    <2>3. \A k \in 1..Len(heap) - 1 : Score[heap[k]] >= Score[heap[k + 1]]
      BY <2>2 DEF SchedulerInv, Sorted
    <2> QED BY <2>1, <2>3 DEF Types, TypeOK, Call
  <1> QED BY <1>1, SchedulerInvariant, PTL

\* The configured hurdle is back whenever no sync is under way, also after a
\* failure (the finally block of sync_ml_predictions), unless two syncs overlapped.
THEOREM HurdleComesBack == Spec => []HurdleLostOnlyByOverlap
  <1>1. SchedulerInv => HurdleLostOnlyByOverlap
    BY DEF SchedulerInv, HurdleKnown, HurdleLostOnlyByOverlap
  <1> QED BY <1>1, SchedulerInvariant, PTL

\* The LLM answers a prediction once, and once more for each answer that is lost
\* because its rows could not be flushed (dispatch_batch caches the verdict only
\* then): a cached verdict is used again, also after the rollback of its dispatch.
THEOREM OneAnswer == Spec => []AnsweredOnce
  <1>1. SchedulerInv => AnsweredOnce
    <2> SUFFICES ASSUME SchedulerInv, past \cap {"overlap", "forgotten"} = {}, NEW i \in Items
                 PROVE  answers[i] <= 1 + lost[i]
      BY DEF AnsweredOnce
    <2>1. OneKept(i) /\ answers[i] \in Nat /\ lost[i] \in Nat
      BY DEF SchedulerInv, Types, CacheKnows
    <2> QED BY <2>1 DEF OneKept
  <1> QED BY <1>1, SchedulerInvariant, PTL

\* An event gets one row of llm_decisions, unless requests overlapped or failed:
\* the queue never holds an event that the call has written or is asking for.
THEOREM OneDecision == Spec => []DecidedOnce
  <1>1. SchedulerInv => DecidedOnce
    BY DEF SchedulerInv, DispatchKnows, DecidedOnce
  <1> QED BY <1>1, SchedulerInvariant, PTL


-------------------------------------------------------------------------------
(***************************************************************************)
(* Nothing is left behind: with overlap the queue is no longer one call's, *)
(* but each item in it is paid for by an item some call has enqueued and   *)
(* not dispatched.                                                         *)
(***************************************************************************)
\* What a call may still take from the queue.
Due(c) == IF InDoubt(c) THEN call[c].left - 1 ELSE call[c].left
Dispatches == {t \in Calls \X (1..Limit) : t[2] <= Due(t[1])}

QueuePaid == IsFiniteSet(Dispatches) /\ Len(heap) <= Cardinality(Dispatches)
DueInv ==
  /\ \A c \in Calls : Idle(c) => call[c].left = 0
  /\ "failed" \notin past => QueuePaid

LEMMA DueIs ==
  ASSUME SchedulerInv, NEW c \in Calls
  PROVE  Due(c) \in 0..Limit /\ Len(heap) \in Nat
  <1>1. call[c] \in Call /\ (InDoubt(c) => call[c].left > 0) /\ heap \in Seq(Items)
    BY DEF SchedulerInv, Types, CallOK
  <1>2. Len(heap) \in Nat
    BY <1>1, LenProperties
  <1> QED BY <1>1, <1>2, SchedulerBounds DEF Due, InDoubt, Call

LEMMA PaidAlready ==
  ASSUME QueuePaid, \A d \in Calls : Due(d)' = Due(d), Len(heap) \in Nat, Len(heap') \in Nat,
         Len(heap') <= Len(heap)
  PROVE  QueuePaid'
  <1>1. Dispatches' = Dispatches
    BY DEF Dispatches
  <1>2. Cardinality(Dispatches) \in Nat
    BY FS_CardinalityType DEF QueuePaid
  <1> QED BY <1>1, <1>2 DEF QueuePaid

LEMMA PaidByOneMore ==
  ASSUME QueuePaid, NEW c \in Calls, Due(c) \in 0..Limit, Due(c)' \in 0..Limit, Due(c)' = Due(c) + 1,
         \A d \in Calls \ {c} : Due(d)' = Due(d), Len(heap) \in Nat, Len(heap') \in Nat,
         Len(heap') <= Len(heap) + 1
  PROVE  QueuePaid'
  <1> DEFINE t == <<c, Due(c) + 1>>
  <1>1. t \notin Dispatches
    BY SchedulerBounds DEF Dispatches
  <1>2. Dispatches' = Dispatches \cup {t}
    <2>1. t \in Dispatches'
      BY SchedulerBounds DEF Dispatches
    <2>2. ASSUME NEW u \in Calls \X (1..Limit), u # t PROVE u \in Dispatches' <=> u \in Dispatches
      <3>1. PICK d \in Calls, k \in 1..Limit : u = <<d, k>>
        OBVIOUS
      <3>2. CASE d = c
        <4>1. k # Due(c) + 1
          BY <2>2, <3>1, <3>2
        <4>2. k <= Due(c) + 1 <=> k <= Due(c)
          BY <4>1, SchedulerBounds
        <4> QED BY <3>1, <3>2, <4>2 DEF Dispatches
      <3>3. CASE d # c
        BY <3>1, <3>3 DEF Dispatches
      <3> QED BY <3>2, <3>3
    <2>3. Dispatches \subseteq Calls \X (1..Limit) /\ Dispatches' \subseteq Calls \X (1..Limit)
      BY DEF Dispatches
    <2> QED BY <2>1, <2>2, <2>3
  <1> HIDE DEF t
  <1>3. IsFiniteSet(Dispatches') /\ Cardinality(Dispatches') = Cardinality(Dispatches) + 1
    BY <1>1, <1>2, FS_AddElement DEF QueuePaid
  <1>4. Cardinality(Dispatches) \in Nat
    BY FS_CardinalityType DEF QueuePaid
  <1> QED BY <1>3, <1>4 DEF QueuePaid

LEMMA PaidByOneLess ==
  ASSUME QueuePaid, NEW c \in Calls, Due(c) \in 0..Limit, Due(c) > 0, Due(c)' = Due(c) - 1,
         \A d \in Calls \ {c} : Due(d)' = Due(d), Len(heap) \in Nat, Len(heap') \in Nat,
         Len(heap') <= Len(heap) - 1
  PROVE  QueuePaid'
  <1> DEFINE t == <<c, Due(c)>>
  <1>1. t \in Dispatches
    BY SchedulerBounds DEF Dispatches
  <1>2. Dispatches' = Dispatches \ {t}
    <2>1. t \notin Dispatches'
      BY SchedulerBounds DEF Dispatches
    <2>2. ASSUME NEW u \in Calls \X (1..Limit), u # t PROVE u \in Dispatches' <=> u \in Dispatches
      <3>1. PICK d \in Calls, k \in 1..Limit : u = <<d, k>>
        OBVIOUS
      <3>2. CASE d = c
        <4>1. k # Due(c)
          BY <2>2, <3>1, <3>2
        <4>2. k <= Due(c) - 1 <=> k <= Due(c)
          BY <4>1, SchedulerBounds
        <4> QED BY <3>1, <3>2, <4>2 DEF Dispatches
      <3>3. CASE d # c
        BY <3>1, <3>3 DEF Dispatches
      <3> QED BY <3>2, <3>3
    <2>3. Dispatches \subseteq Calls \X (1..Limit) /\ Dispatches' \subseteq Calls \X (1..Limit)
      BY DEF Dispatches
    <2> QED BY <2>1, <2>2, <2>3
  <1> HIDE DEF t
  <1>3. IsFiniteSet(Dispatches') /\ Cardinality(Dispatches') = Cardinality(Dispatches) - 1
    BY <1>1, <1>2, FS_RemoveElement DEF QueuePaid
  <1>4. Cardinality(Dispatches) \in Nat
    BY FS_CardinalityType DEF QueuePaid
  <1> QED BY <1>3, <1>4 DEF QueuePaid

\* A call that ends with nothing due, or with the queue empty.
LEMMA PaidInTheEnd ==
  ASSUME QueuePaid, NEW c \in Calls, Due(c) \in 0..Limit, Due(c)' = 0,
         \A d \in Calls \ {c} : Due(d)' = Due(d), heap' = heap, Due(c) = 0 \/ heap = <<>>
  PROVE  QueuePaid'
  <1>1. CASE Due(c) = 0
    <2>1. Dispatches' = Dispatches
      BY <1>1 DEF Dispatches
    <2> QED BY <2>1 DEF QueuePaid
  <1>2. CASE heap = <<>>
    <2>1. Dispatches' \subseteq Dispatches
      <3> SUFFICES ASSUME NEW d \in Calls, NEW k \in 1..Limit, k <= Due(d)' PROVE k <= Due(d)
        BY DEF Dispatches
      <3>1. CASE d = c
        BY <3>1, SchedulerBounds
      <3>2. CASE d # c
        BY <3>2
      <3> QED BY <3>1, <3>2
    <2>2. IsFiniteSet(Dispatches') /\ Cardinality(Dispatches') \in Nat
      BY <2>1, FS_Subset, FS_CardinalityType DEF QueuePaid
    <2>3. Len(heap') = 0
      BY <1>2
    <2> QED BY <2>2, <2>3 DEF QueuePaid
  <1> QED BY <1>1, <1>2

\* The others' calls are left alone.
LEMMA OthersDue ==
  ASSUME NEW c \in Calls, \A d \in Calls \ {c} : call'[d] = call[d]
  PROVE  \A d \in Calls \ {c} : Due(d)' = Due(d) /\ (Idle(d)' <=> Idle(d))
  BY DEF Due, InDoubt, Idle

LEMMA DuesAre == SchedulerInv => \A c \in Calls : Due(c) \in 0..Limit
  BY DueIs

LEMMA DueStep ==
  /\ SchedulerInv /\ SchedulerInv' /\ (\A c \in Calls : Due(c) \in 0..Limit)'
  /\ DueInv /\ [Next]_vars
  => DueInv'
  <1> SUFFICES ASSUME SchedulerInv, SchedulerInv', (\A c \in Calls : Due(c) \in 0..Limit)',
                      DueInv, [Next]_vars
               PROVE  DueInv'
    OBVIOUS
  <1>1. Types /\ Types' /\ \A c \in Calls : Due(c) \in 0..Limit /\ Due(c)' \in 0..Limit
    BY DuesAre DEF SchedulerInv
  <1>2. Len(heap) \in Nat /\ Len(heap') \in Nat
    BY <1>1, LenProperties DEF Types
  <1>3. CASE "failed" \in past' /\ (call' = [c \in Calls |-> Returned] \/ UNCHANGED call)
    BY <1>3 DEF DueInv, Idle, Returned
  <1>4. ASSUME NEW c \in Calls, ReadHurdle(c) PROVE DueInv'
    <2>1. Becomes(c, "read", hurdle, {}, 0, None, NoWrites)
      BY <1>1, <1>4, ReadHurdleIs
    <2>2. call[c].left = 0 /\ call[c].at = "idle" /\ UNCHANGED heap /\ past \subseteq past'
      BY <1>4 DEF DueInv, ReadHurdle, Idle, scheduler
    <2>3. Due(c) = 0 /\ Due(c)' = 0 /\ ~Idle(c)'
      BY <2>1, <2>2 DEF Becomes, Due, InDoubt, Idle
    <2> QED BY <1>1, <1>2, <2>1, <2>2, <2>3, OthersDue, PaidAlready DEF DueInv, Becomes
  <1>5. ASSUME NEW c \in Calls, Lower(c) PROVE DueInv'
    <2>1. Becomes(c, "enqueuing", call[c].saved, Listed, call[c].left, call[c].item, call[c].writes)
      BY <1>1, <1>5, LowerIs
    <2>2. call[c].at = "read" /\ UNCHANGED <<heap, past>>
      BY <1>5 DEF Lower, history
    <2>3. Due(c)' = Due(c) /\ ~Idle(c)'
      BY <2>1, <2>2 DEF Becomes, Due, InDoubt, Idle
    <2> QED BY <1>2, <2>1, <2>2, <2>3, OthersDue, PaidAlready DEF DueInv, Becomes
  <1>6. ASSUME NEW c \in Calls, Enqueue(c) PROVE DueInv'
    <2>1. PICK i \in call[c].todo : \E p \in Evaluated(heap, i) :
            /\ heap' = p.queue /\ i \in Items
            /\ Becomes(c, "enqueuing", call[c].saved, call[c].todo \ {i},
                       call[c].left + (IF p.taken THEN 1 ELSE 0), call[c].item, call[c].writes)
      BY <1>1, <1>6, EnqueueIs
    <2>2. PICK p \in Evaluated(heap, i) :
            /\ heap' = p.queue /\ i \in Items
            /\ Becomes(c, "enqueuing", call[c].saved, call[c].todo \ {i},
                       call[c].left + (IF p.taken THEN 1 ELSE 0), call[c].item, call[c].writes)
      BY <2>1
    <2>3. call[c].at = "enqueuing" /\ UNCHANGED past
      BY <1>6 DEF Enqueue, history
    <2>4. Len(heap') <= Len(heap) + (IF p.taken THEN 1 ELSE 0)
      BY <2>2, EvaluatedIs, ScoreData, SchedulerBounds DEF SchedulerInv, Types
    <2>5. Due(c)' = Due(c) + (IF p.taken THEN 1 ELSE 0) /\ ~Idle(c)'
      BY <2>2, <2>3 DEF Becomes, Due, InDoubt, Idle
    <2>6. \A d \in Calls \ {c} : Due(d)' = Due(d) /\ (Idle(d)' <=> Idle(d)) /\ call'[d] = call[d]
      BY <2>2, OthersDue DEF Becomes
    <2>7. CASE p.taken
      <3>1. QueuePaid => QueuePaid'
        BY <1>1, <1>2, <2>4, <2>5, <2>6, <2>7, PaidByOneMore
      <3> QED BY <2>3, <2>5, <2>6, <3>1 DEF DueInv
    <2>8. CASE ~p.taken
      <3>1. \A d \in Calls : Due(d)' = Due(d)
        BY <1>1, <2>5, <2>6, <2>8
      <3>2. QueuePaid => QueuePaid'
        BY <1>2, <2>4, <2>8, <3>1, PaidAlready
      <3> QED BY <2>3, <2>5, <2>6, <3>2 DEF DueInv
    <2> QED BY <2>7, <2>8
  <1>7. ASSUME NEW c \in Calls, RestoreHurdle(c) PROVE DueInv'
    <2>1. call[c].at = "enqueuing" /\ UNCHANGED <<heap, past>>
      BY <1>7 DEF RestoreHurdle, history
    <2>2. \/ call[c].left = 0 /\ Becomes(c, "idle", 0, {}, 0, None, NoWrites)
          \/ call[c].left # 0 /\ Becomes(c, "dispatching", 0, {}, call[c].left, call[c].item, call[c].writes)
      BY <1>1, <1>7, RestoreIs
    <2>3. Due(c)' = Due(c) /\ (Idle(c)' => call'[c].left = 0)
      BY <2>1, <2>2 DEF Becomes, Due, InDoubt, Idle
    <2>4. \A d \in Calls \ {c} : call'[d] = call[d]
      BY <2>2 DEF Becomes
    <2> QED BY <1>2, <2>1, <2>3, <2>4, OthersDue, PaidAlready DEF DueInv
  <1>8. ASSUME NEW c \in Calls, Take(c) PROVE DueInv'
    <2>1. /\ call[c].at = "dispatching" /\ call[c].left > 0 /\ heap # <<>> /\ heap' = Tail(heap)
          /\ UNCHANGED past
      BY <1>8 DEF Take, WantsMore, history
    <2>2. Head(heap) \in Items /\ Len(heap') = Len(heap) - 1
      BY <2>1, TailIs DEF SchedulerInv, Types
    <2>3. /\ call'[c].at \in {"dispatching", "asking"}
          /\ call'[c].left = IF call'[c].at = "asking" THEN call[c].left ELSE call[c].left - 1
          /\ \A d \in Calls \ {c} : call'[d] = call[d]
      BY <1>1, <1>8, <2>2, TakeIs DEF Becomes
    <2>4. Due(c) > 0 /\ Due(c)' = Due(c) - 1 /\ ~Idle(c)'
      BY <2>1, <2>3 DEF Due, InDoubt, Idle
    <2>5. \A d \in Calls \ {c} : Due(d)' = Due(d) /\ (Idle(d)' <=> Idle(d))
      BY <2>3, OthersDue
    <2>6. QueuePaid => QueuePaid'
      BY <1>1, <1>2, <2>2, <2>4, <2>5, PaidByOneLess
    <2> QED BY <2>1, <2>3, <2>4, <2>5, <2>6 DEF DueInv
  <1>9. ASSUME NEW c \in Calls, Answer(c) PROVE DueInv'
    <2>1. call[c].at = "asking" /\ UNCHANGED <<heap, past>>
      BY <1>9 DEF Answer, scheduler
    <2>2. /\ call'[c].at = "answered" /\ call'[c].left = call[c].left
          /\ \A d \in Calls \ {c} : call'[d] = call[d]
      BY <1>1, <1>9, AnswerIs DEF Becomes
    <2>3. Due(c)' = Due(c) /\ ~Idle(c)'
      BY <2>1, <2>2 DEF Due, InDoubt, Idle
    <2> QED BY <1>2, <2>1, <2>2, <2>3, OthersDue, PaidAlready DEF DueInv
  <1>14. ASSUME NEW c \in Calls, Record(c) PROVE DueInv'
    <2>1. /\ call[c].at = "answered" /\ Answered(c, call[c].item) /\ UNCHANGED <<heap, past>>
          /\ call[c].item \in Items /\ call[c].left > 0
      BY <1>14 DEF Record, history, SchedulerInv, CallOK, InDoubt
    <2>2. /\ call'[c].at = "dispatching" /\ call'[c].left = call[c].left - 1
          /\ \A d \in Calls \ {c} : call'[d] = call[d]
      BY <1>1, <2>1, AnsweredIs DEF Becomes
    <2>3. Due(c)' = Due(c) /\ ~Idle(c)'
      BY <2>1, <2>2 DEF Due, InDoubt, Idle
    <2> QED BY <1>2, <2>1, <2>2, <2>3, OthersDue, PaidAlready DEF DueInv
  <1>10. ASSUME NEW c \in Calls, Commit(c) PROVE DueInv'
    <2>1. /\ call[c].at = "dispatching" /\ (~(call[c].left > 0) \/ heap = <<>>)
          /\ UNCHANGED <<heap, past>>
      BY <1>10 DEF Commit, WantsMore, scheduler, history
    <2>2. Becomes(c, "idle", 0, {}, 0, None, NoWrites)
      BY <1>1, <1>10, EndsIs
    <2>3. Due(c)' = 0 /\ (Due(c) = 0 \/ heap = <<>>) /\ call'[c].left = 0
      <3>1. Due(c) = call[c].left
        BY <1>10 DEF Commit, Due, InDoubt
      <3> QED BY <1>1, <2>1, <2>2, <3>1 DEF Becomes, Due, InDoubt
    <2>4. \A d \in Calls \ {c} : Due(d)' = Due(d) /\ (Idle(d)' <=> Idle(d)) /\ call'[d] = call[d]
      BY <2>2, OthersDue DEF Becomes
    <2>5. QueuePaid => QueuePaid'
      BY <1>1, <2>1, <2>3, <2>4, PaidInTheEnd
    <2> QED BY <2>1, <2>3, <2>4, <2>5 DEF DueInv
  <1>11. ASSUME NEW c \in Calls, SyncFails(c) \/ DispatchFails(c) PROVE DueInv'
    <2>1. Becomes(c, "idle", 0, {}, 0, None, NoWrites)
      BY <1>1, <1>11, EndsIs
    <2>2. "failed" \in past'
      BY <1>11 DEF SyncFails, DispatchFails
    <2> QED BY <2>1, <2>2, OthersDue DEF DueInv, Becomes
  <1>12. CASE ClearByHand \/ Restart
    <2>1. "failed" \in past' /\ (call' = [c \in Calls |-> Returned] \/ UNCHANGED call)
      BY <1>12 DEF ClearByHand, Restart
    <2> QED BY <1>3, <2>1
  <1>13. CASE Time \/ (\E e \in Events : NewPrediction(e) \/ Leaves(e)) \/ UNCHANGED vars
    <2>1. UNCHANGED <<heap, call>> /\ past \subseteq past'
      BY <1>13 DEF Time, CoolsDown, Expires, NewPrediction, Leaves, vars, scheduler, history
    <2>2. \A c \in Calls : Due(c)' = Due(c) /\ (Idle(c)' <=> Idle(c))
      BY <2>1 DEF Due, InDoubt, Idle
    <2> QED BY <1>2, <2>1, <2>2, PaidAlready DEF DueInv
  <1> QED BY <1>4, <1>5, <1>6, <1>7, <1>8, <1>9, <1>10, <1>11, <1>12, <1>13, <1>14
       DEF Next, Sync, Dispatch, Fails

\* Between the requests, as long as nothing has failed, the queue is empty: what
\* a sync counts as enqueued is dispatched by some sync, overlapping or not
\* (dispatch_batch takes as many items as its own sync has enqueued).
THEOREM QueueEmptied == Spec => []NothingLeftBehind
  <1>1. Init => DueInv
    <2> SUFFICES ASSUME Init PROVE DueInv
      OBVIOUS
    <2>1. \A c \in Calls : call[c].left = 0 /\ Due(c) = 0
      BY DEF Init, Returned, Due, InDoubt
    <2>2. Dispatches = {}
      BY <2>1 DEF Dispatches
    <2>3. QueuePaid
      BY <2>2, FS_EmptySet DEF QueuePaid, Init
    <2> QED BY <2>1, <2>3 DEF DueInv
  <1>2. SchedulerInv /\ DueInv => NothingLeftBehind
    <2> SUFFICES ASSUME SchedulerInv, DueInv, \A c \in Calls : Idle(c), "failed" \notin past
                 PROVE  heap = <<>>
      BY DEF NothingLeftBehind
    <2>1. \A c \in Calls : Due(c) = 0
      BY DEF DueInv, Due, InDoubt, Idle
    <2>2. Dispatches = {}
      BY <2>1 DEF Dispatches
    <2>3. Len(heap) <= 0
      BY <2>2, FS_EmptySet DEF DueInv, QueuePaid
    <2>4. heap \in Seq(Items) /\ Len(heap) = 0
      <3>1. heap \in Seq(Items)
        BY DEF SchedulerInv, Types
      <3> QED BY <2>3, <3>1, LenProperties
    <2> QED BY <2>4, EmptySeq
  <1> QED BY <1>1, <1>2, DuesAre, DueStep, SchedulerInvariant, PTL DEF Spec
===============================================================================
