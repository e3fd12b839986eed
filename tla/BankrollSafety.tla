---------------------------- MODULE BankrollSafety ----------------------------
(***************************************************************************)
(* No bet is settled twice, whatever the number of settlement transactions *)
(* and the order of their statements; a repeated proposal gets one bet;    *)
(* the exposure column keeps its limit; the account row agrees with the    *)
(* ledger; the books implement BetJournal.  Each part below has the        *)
(* invariant that its claim needs.                                         *)
(*                                                                         *)
(* SettledOnce is not inductive: it says nothing of the outcomes a         *)
(* transaction has written but not committed.  What makes it so is that    *)
(* such outcomes belong to distinct bets that are still open and whose     *)
(* rows the transaction holds, from LockBet until it ends.                 *)
(***************************************************************************)
EXTENDS BankrollProofs, FiniteSetTheorems

Work(s) == settler[s].work

\* The uncommitted outcomes of a settlement transaction.
HoldsWork(s) ==
  /\ \A i \in DOMAIN Work(s) :
       betLock[Work(s)[i].bet] = s /\ bet[Work(s)[i].bet] = "PENDING"
  /\ \A i, j \in DOMAIN Work(s) : i # j => Work(s)[i].bet # Work(s)[j].bet
  /\ settler[s].at = "settleBet" =>
       /\ betLock[settler[s].current] = s
       /\ \A i \in DOMAIN Work(s) : Work(s)[i].bet # settler[s].current

\* A request that has not ended has placed nothing.
BetsOfPlaced == \A r \in Requests : bet[r] # "NONE" => req[r].at = "placed"

OnceInv ==
  /\ TypeInv
  /\ BetsOfPlaced
  /\ \A s \in Settlers : HoldsWork(s)
  /\ SettledOnce
-------------------------------------------------------------------------------
\* No bets, no outcomes: the empty books satisfy it.
LEMMA InitialOnceInv == Init => OnceInv
  <1> SUFFICES ASSUME Init PROVE OnceInv
    OBVIOUS
  <1>1. TypeInv
    BY InitialTypeInv
  <1>2. BetsOfPlaced
    BY DEF Init, BetsOfPlaced
  <1>3. \A s \in Settlers : HoldsWork(s)
    BY DEF Init, HoldsWork, Work, IdleSettler, Ended
  <1>4. SettledOnce
    <2>1. \A r \in Requests : OutcomeEntries(r) = {}
      BY DEF Init, OutcomeEntries, DepositEntry, Entry
    <2> QED BY <2>1 DEF Init, SettledOnce, Closed
  <1> QED BY <1>1, <1>2, <1>3, <1>4 DEF OnceInv

OutcomeTypes == {"BET_WIN", "BET_LOSS", "BET_VOID"}
OutcomesIn(l, r) == {i \in DOMAIN l : l[i].type \in OutcomeTypes /\ l[i].bet = r}

\* An entry of another type leaves the outcomes where they are.
LEMMA AppendOther ==
  ASSUME NEW l \in Seq(Entries), NEW e \in Entries, e.type \notin OutcomeTypes, NEW r
  PROVE  /\ Append(l, e) \in Seq(Entries)
         /\ OutcomesIn(Append(l, e), r) = OutcomesIn(l, r)
         /\ \A i \in DOMAIN l : Append(l, e)[i] = l[i]
  <1>1. /\ Append(l, e) \in Seq(Entries)
        /\ DOMAIN l = 1 .. Len(l) /\ Len(l) \in Nat
        /\ DOMAIN Append(l, e) = 1 .. Len(l) + 1
        /\ \A i \in 1 .. Len(l) : Append(l, e)[i] = l[i]
        /\ Append(l, e)[Len(l) + 1] = e
    OBVIOUS
  <1> QED BY <1>1 DEF OutcomesIn

\* What a step does to the settled bets when it settles none.
Untouched(r) ==
  /\ OutcomeEntries(r)' = OutcomeEntries(r)
  /\ \A i \in DOMAIN ledger : ledger'[i] = ledger[i]

\* BET_PLACED, deposit and reset entries are no outcomes.
LEMMA AppendKeepsOutcomes ==
  ASSUME TypeOK, NEW t, NEW e \in Entries, e.type \notin OutcomeTypes,
         ledger' = Append(LedgerOf(t), e) \/ ledger' = LedgerOf(t), NEW r
  PROVE  Untouched(r)
  <1>1. DepositEntry \in Entries /\ DepositEntry.type \notin OutcomeTypes
    BY Limits DEF DepositEntry, Entry, Entries, EntryTypes, OutcomeTypes
  <1>2. /\ LedgerOf(t) \in Seq(Entries)
        /\ OutcomesIn(LedgerOf(t), r) = OutcomesIn(ledger, r)
        /\ \A i \in DOMAIN ledger : i \in DOMAIN LedgerOf(t) /\ LedgerOf(t)[i] = ledger[i]
    BY <1>1, AppendOther DEF LedgerOf, TypeOK
  <1>3. /\ OutcomesIn(ledger', r) = OutcomesIn(ledger, r)
        /\ \A i \in DOMAIN ledger : ledger'[i] = ledger[i]
    <2>1. CASE ledger' = LedgerOf(t)
      BY <1>2, <2>1
    <2>2. CASE ledger' = Append(LedgerOf(t), e)
      <3> DEFINE l == LedgerOf(t)
      <3>1. /\ OutcomesIn(Append(l, e), r) = OutcomesIn(l, r)
            /\ \A i \in DOMAIN l : Append(l, e)[i] = l[i]
        BY <1>2, AppendOther
      <3> QED BY <1>2, <2>2, <3>1
    <2> QED BY <2>1, <2>2
  <1>4. OutcomeEntries(r) = OutcomesIn(ledger, r) /\ OutcomeEntries(r)' = OutcomesIn(ledger', r)
    BY DEF OutcomeEntries, OutcomesIn, OutcomeTypes
  <1> QED BY <1>3, <1>4 DEF Untouched

\* Settled bets stay as they are when no outcome is written.
LEMMA SettledOnceFrame ==
  ASSUME SettledOnce, \A r \in Requests : Untouched(r), UNCHANGED settlements,
         \A r \in Requests : bet'[r] = bet[r] \/ (bet[r] = "NONE" /\ bet'[r] = "PENDING")
  PROVE  SettledOnce'
  <1> SUFFICES ASSUME NEW r \in Requests
               PROVE  IF bet'[r] \in Closed
                      THEN /\ \E i \in DOMAIN ledger' : /\ OutcomeEntries(r)' = {i}
                                                        /\ ledger'[i].type = EntryType[bet'[r]]
                           /\ {x \in settlements' : x.bet = r} = {[bet |-> r, status |-> bet'[r]]}
                      ELSE /\ OutcomeEntries(r)' = {}
                           /\ {x \in settlements' : x.bet = r} = {}
    BY DEF SettledOnce
  <1>1. OutcomeEntries(r)' = OutcomeEntries(r) /\ OutcomeEntries(r)' \subseteq DOMAIN ledger'
    BY DEF Untouched, OutcomeEntries
  <1>2. CASE bet[r] \in Closed
    <2>1. bet'[r] = bet[r]
      BY <1>2 DEF Closed
    <2>2. PICK i \in DOMAIN ledger : OutcomeEntries(r) = {i} /\ ledger[i].type = EntryType[bet[r]]
      BY <1>2 DEF SettledOnce
    <2>3. i \in DOMAIN ledger' /\ ledger'[i] = ledger[i]
      BY <1>1, <2>2 DEF Untouched
    <2> QED BY <1>1, <1>2, <2>1, <2>2, <2>3 DEF SettledOnce
  <1>3. CASE bet[r] \notin Closed
    BY <1>1, <1>3 DEF SettledOnce, Closed
  <1> QED BY <1>2, <1>3

\* Steps that leave the books alone.
LEMMA BooksFrame ==
  ASSUME SettledOnce, UNCHANGED books
  PROVE  SettledOnce'
  BY SettledOnceFrame DEF books, Untouched, OutcomeEntries

\* The uncommitted outcomes of a transaction are a sequence of work items.
LEMMA WorkType ==
  ASSUME TypeInv, NEW s \in Settlers
  PROVE  /\ Work(s) \in Seq(WorkItems)
         /\ \A i \in DOMAIN Work(s) : Work(s)[i] \in WorkItems /\ Work(s)[i].bet \in Requests
  <1>1. settler[s] \in SettlerStates
    BY DEF TypeInv, TypeOK
  <1>2. Work(s) \in Seq(WorkItems)
    BY <1>1 DEF SettlerStates, Work
  <1>3. \A i \in DOMAIN Work(s) : Work(s)[i] \in WorkItems
    BY <1>2
  <1> QED BY <1>2, <1>3 DEF WorkItems

\* A transaction keeps its work while its rows and their locks stay as they are.
LEMMA WorkFrame ==
  ASSUME TypeInv, NEW s \in Settlers, HoldsWork(s), settler'[s] = settler[s],
         \A r \in Requests : betLock[r] = s => betLock'[r] = s,
         \A r \in Requests : bet[r] = "PENDING" /\ betLock[r] = s => bet'[r] = "PENDING"
  PROVE  HoldsWork(s)'
  <1>1. \A i \in DOMAIN Work(s) : Work(s)[i].bet \in Requests
    BY WorkType
  <1>2. settler[s].at = "settleBet" => settler[s].current \in Requests
    BY DEF TypeInv, SettlersKnowBets, KnowsBets
  <1> QED BY <1>1, <1>2 DEF HoldsWork, Work

-------------------------------------------------------------------------------
\* Requests write no outcome and place a bet at most once.
LEMMA RequestStepOnce ==
  ASSUME OnceInv, NEW r \in Requests, RequestStep(r)
  PROVE  BetsOfPlaced' /\ (\A s \in Settlers : HoldsWork(s)') /\ SettledOnce'
  <1> TypeInv /\ TypeOK /\ BetsOfPlaced /\ SettledOnce /\ \A s \in Settlers : HoldsWork(s)
    BY DEF OnceInv, TypeInv
  <1>1. UNCHANGED <<settler, betLock, settlements>>
    BY DEF RequestStep, LoadAccount, CreateAccount, Validate, AnswerDuplicate, FindProposal,
           InsertProposal, CommitWithoutBet, EnterPlaceBet, PlaceBet, AbortRequest, Rollback, books, locks
  <1>2. CASE ~PlaceBet(r)
    <2>1. UNCHANGED bet
      BY <1>2 DEF RequestStep, LoadAccount, CreateAccount, Validate, AnswerDuplicate, FindProposal,
             InsertProposal, CommitWithoutBet, EnterPlaceBet, AbortRequest, Rollback, books, locks
    <2>2. BetsOfPlaced'
      <3>1. req[r].at # "placed" /\ \A d \in Requests \ {r} : req'[d] = req[d]
        BY <1>2 DEF RequestStep, LoadAccount, CreateAccount, Validate, AnswerDuplicate, FindProposal,
               InsertProposal, CommitWithoutBet, EnterPlaceBet, AbortRequest, Rollback, Finish,
               At, Goto, TypeOK
      <3> QED BY <2>1, <3>1 DEF BetsOfPlaced
    <2>3. SettledOnce'
      <3>1. CASE CommitWithoutBet(r)
        <4>1. \A d \in Requests : Untouched(d)
          <5>1. PICK e \in Entries : e.type \notin OutcomeTypes
            <6>1. DepositEntry \in Entries /\ DepositEntry.type \notin OutcomeTypes
              BY Limits DEF DepositEntry, Entry, Entries, EntryTypes, OutcomeTypes
            <6> QED BY <6>1
          <5> QED BY <3>1, <5>1, AppendKeepsOutcomes DEF CommitWithoutBet
        <4> QED BY <1>1, <2>1, <4>1, SettledOnceFrame
      <3>2. CASE ~CommitWithoutBet(r)
        <4>1. UNCHANGED books
          BY <1>2, <3>2 DEF RequestStep, LoadAccount, CreateAccount, Validate, AnswerDuplicate,
                 FindProposal, InsertProposal, EnterPlaceBet, AbortRequest, Rollback, books
        <4> QED BY <4>1, BooksFrame
      <3> QED BY <3>1, <3>2
    <2> QED BY <1>1, <2>1, <2>2, <2>3, WorkFrame
  <1>3. CASE PlaceBet(r)
    <2>1. bet[r] = "NONE"
      BY <1>3 DEF PlaceBet, At, BetsOfPlaced
    <2>2. CASE Rollback(r, "failed")
      <3>1. UNCHANGED books /\ BetsOfPlaced'
        BY <2>1, <2>2 DEF Rollback, Finish, books, BetsOfPlaced, TypeOK
      <3> QED BY <1>1, <3>1, BooksFrame, WorkFrame DEF books
    <2>3. CASE ~Rollback(r, "failed")
      <3> DEFINE snap == req[r].snap
                 e == Entry("BET_PLACED", r, -Stake[r], snap.balance - Stake[r])
      <3>1. /\ ~(Stake[r] > snap.balance) /\ snap \in Rows
            /\ bet' = [bet EXCEPT ![r] = "PENDING"]
            /\ ledger' = Append(LedgerOf(r), e)
            /\ Finish(r, "placed")
        <4>1. snap \in Rows
          BY <1>3 DEF PlaceBet, At, TypeInv, RequestsKnowAccount, Running, TypeOK, RequestStates
        <4> QED BY <1>3, <2>3, <4>1 DEF PlaceBet, Row
      <3>2. e \in Entries /\ e.type \notin OutcomeTypes
        <4>1. Stake[r] \in Nat
          BY BetData
        <4> QED BY <3>1, <4>1 DEF Entry, Entries, EntryTypes, OutcomeTypes, Rows
      <3>3. SettledOnce'
        <4> HIDE DEF e
        <4>1. \A d \in Requests : Untouched(d)
          BY <3>1, <3>2, AppendKeepsOutcomes
        <4>2. \A d \in Requests : bet'[d] = bet[d] \/ (bet[d] = "NONE" /\ bet'[d] = "PENDING")
          BY <2>1, <3>1 DEF TypeOK
        <4> QED BY <1>1, <4>1, <4>2, SettledOnceFrame
      <3>4. BetsOfPlaced'
        BY <3>1 DEF Finish, BetsOfPlaced, TypeOK
      <3>5. \A s \in Settlers : HoldsWork(s)'
        BY <1>1, <3>1, WorkFrame DEF TypeOK
      <3> QED BY <3>3, <3>4, <3>5
    <2> QED BY <2>2, <2>3
  <1> QED BY <1>2, <1>3

\* Resets write no outcome.
LEMMA ResetStepOnce ==
  ASSUME OnceInv, NEW x \in Resetters, ResetStep(x)
  PROVE  BetsOfPlaced' /\ (\A s \in Settlers : HoldsWork(s)') /\ SettledOnce'
  <1> TypeInv /\ TypeOK /\ BetsOfPlaced /\ SettledOnce /\ \A s \in Settlers : HoldsWork(s)
    BY DEF OnceInv, TypeInv
  <1>1. UNCHANGED <<settler, betLock, settlements, bet, req>>
    BY DEF ResetStep, ReadForReset, CreateForReset, WriteReset, books, locks
  <1>2. \A r \in Requests : Untouched(r)
    <2>1. CASE WriteReset(x)
      <3> DEFINE snap == resetter[x].snap
                 e == Entry("SIMULATION_RESET", Nobody, InitialBalance - snap.balance, InitialBalance)
      <3>1. snap \in Rows
        BY <2>1 DEF WriteReset, TypeInv, ResettersKnowAccount, TypeOK, ResetterStates
      <3>2. e \in Entries /\ e.type \notin OutcomeTypes
        BY <3>1, Limits DEF Entry, Entries, EntryTypes, OutcomeTypes, Rows
      <3>3. ledger' = Append(LedgerOf(x), e)
        BY <2>1 DEF WriteReset
      <3> QED BY <3>2, <3>3, AppendKeepsOutcomes
    <2>2. CASE ~WriteReset(x)
      BY <2>2 DEF ResetStep, ReadForReset, CreateForReset, books, Untouched, OutcomeEntries
    <2> QED BY <2>1, <2>2
  <1>3. SettledOnce'
    BY <1>1, <1>2, SettledOnceFrame
  <1> QED BY <1>1, <1>3, WorkFrame DEF BetsOfPlaced

-------------------------------------------------------------------------------
\* A rollback forgets the outcomes and the rows held for them.
LEMMA RollbackSettlementOnce ==
  ASSUME OnceInv, NEW s \in Settlers, RollbackSettlement(s)
  PROVE  BetsOfPlaced' /\ (\A t \in Settlers : HoldsWork(t)') /\ SettledOnce'
  <1> TypeInv /\ TypeOK /\ BetsOfPlaced /\ SettledOnce /\ \A t \in Settlers : HoldsWork(t)
    BY DEF OnceInv, TypeInv
  <1>1. UNCHANGED books /\ UNCHANGED bet /\ UNCHANGED req
    BY DEF RollbackSettlement, EndSettlement, books
  <1>2. HoldsWork(s)'
    <2>1. settler'[s] = AfterRound(s)
      BY DEF RollbackSettlement, EndSettlement, TypeOK
    <2> QED BY <2>1, AfterRoundType DEF HoldsWork, Work
  <1>3. ASSUME NEW t \in Settlers \ {s} PROVE HoldsWork(t)'
    <2>1. settler'[t] = settler[t] /\ \A r \in Requests : betLock[r] = t => betLock'[r] = t
      BY DEF RollbackSettlement, EndSettlement, TypeOK
    <2> QED BY <1>1, <2>1, WorkFrame
  <1> QED BY <1>1, <1>2, <1>3, BooksFrame DEF BetsOfPlaced

\* Appending the outcomes of s puts exactly one of them behind each of its bets.
LEMMA CommitOutcomes ==
  ASSUME OnceInv, NEW s \in Settlers, CommitSettlement(s), NEW r \in Requests
  PROVE  /\ \A i \in DOMAIN ledger : i \in DOMAIN ledger' /\ ledger'[i] = ledger[i]
         /\ (\A i \in DOMAIN Work(s) : Work(s)[i].bet # r) =>
              OutcomeEntries(r)' = OutcomeEntries(r)
         /\ \A i \in DOMAIN Work(s) : Work(s)[i].bet = r /\ OutcomeEntries(r) = {} =>
              \E n \in DOMAIN ledger' : /\ OutcomeEntries(r)' = {n}
                                        /\ ledger'[n].type = EntryType[Work(s)[i].status]
  <1> DEFINE n == Len(ledger)
             m == Len(Work(s))
             entries == [i \in DOMAIN Work(s) |-> OutcomeEntry(Work(s)[i])]
  <1>1. Work(s) \in Seq(WorkItems) /\ \A i \in DOMAIN Work(s) : Work(s)[i] \in WorkItems
    BY WorkType DEF OnceInv
  <1>2. /\ n \in Nat /\ DOMAIN ledger = 1 .. n /\ ledger \in Seq(Entries)
        /\ m \in Nat /\ DOMAIN Work(s) = 1 .. m
    BY <1>1 DEF OnceInv, TypeInv, TypeOK
  <1>3. \A i \in 1 .. m : /\ OutcomeEntry(Work(s)[i]) \in Entries
                          /\ OutcomeEntry(Work(s)[i]).type = EntryType[Work(s)[i].status]
                          /\ OutcomeEntry(Work(s)[i]).type \in OutcomeTypes
                          /\ OutcomeEntry(Work(s)[i]).bet = Work(s)[i].bet
    BY <1>1, <1>2, BetData, SMTT(60) DEF OutcomeEntry, Entry, EntryType, Entries, EntryTypes, Credit, WorkItems,
                               Closed, OutcomeTypes
  <1>4. entries \in Seq(Entries) /\ Len(entries) = m /\ \A i \in 1 .. m : entries[i] = OutcomeEntry(Work(s)[i])
    <2>1. entries \in [1 .. m -> Entries]
      BY <1>2, <1>3
    <2> QED BY <1>2, <2>1, SeqDef
  <1>5. ledger' = ledger \o entries
    BY DEF CommitSettlement, Work
  <1> HIDE DEF entries
  <1>6. /\ DOMAIN ledger' = 1 .. n + m
        /\ \A i \in 1 .. n : ledger'[i] = ledger[i]
        /\ \A i \in 1 .. m : ledger'[n + i] = OutcomeEntry(Work(s)[i])
    <2>1. /\ Len(ledger \o entries) = n + m /\ ledger \o entries \in Seq(Entries)
          /\ \A i \in 1 .. n + m : (ledger \o entries)[i] = IF i <= n THEN ledger[i] ELSE entries[i - n]
      <3>1. entries \in Seq(Entries) /\ ledger \in Seq(Entries) /\ Len(entries) = m
        BY <1>2, <1>4
      <3>2. /\ ledger \o entries \in Seq(Entries)
            /\ Len(ledger \o entries) = Len(ledger) + Len(entries)
            /\ \A i \in 1 .. Len(ledger) + Len(entries) :
                 (ledger \o entries)[i] = IF i <= Len(ledger) THEN ledger[i] ELSE entries[i - Len(ledger)]
        BY <3>1, ConcatProperties
      <3> QED BY <3>1, <3>2
    <2> QED BY <1>2, <1>4, <1>5, <2>1
  <1>7. \A k \in 1 .. n + m : k \in 1 .. n \/ \E i \in 1 .. m : k = n + i
    <2> TAKE k \in 1 .. n + m
    <2>1. k > n => k - n \in 1 .. m /\ k = n + (k - n)
      BY <1>2
    <2> QED BY <1>2, <2>1
  <1>8. OutcomeEntries(r)' = OutcomeEntries(r) \cup {n + i : i \in {j \in 1 .. m : Work(s)[j].bet = r}}
    <2>1. \A i \in 1 .. m : n + i \in 1 .. n + m /\ n + i \notin 1 .. n
      BY <1>2
    <2>2. OutcomeEntries(r)' =
            {k \in 1 .. n + m : ledger'[k].type \in OutcomeTypes /\ ledger'[k].bet = r}
      BY <1>6 DEF OutcomeEntries, OutcomeTypes
    <2>3. OutcomeEntries(r) = {k \in 1 .. n : ledger[k].type \in OutcomeTypes /\ ledger[k].bet = r}
      BY <1>2 DEF OutcomeEntries, OutcomeTypes
    <2>4. ASSUME NEW k \in 1 .. n
          PROVE  k \in 1 .. n + m /\ (k \in OutcomeEntries(r)' <=> k \in OutcomeEntries(r))
      BY <1>2, <1>6, <2>2, <2>3
    <2>5. ASSUME NEW i \in 1 .. m
          PROVE  n + i \in OutcomeEntries(r)' <=> Work(s)[i].bet = r
      BY <1>3, <1>6, <2>1, <2>2
    <2>6. OutcomeEntries(r)' \subseteq 1 .. n + m /\ OutcomeEntries(r) \subseteq 1 .. n
      BY <2>2, <2>3
    <2> QED BY <1>7, <2>4, <2>5, <2>6
  <1>9. ASSUME NEW i \in DOMAIN Work(s), Work(s)[i].bet = r, OutcomeEntries(r) = {}
        PROVE  \E k \in DOMAIN ledger' : /\ OutcomeEntries(r)' = {k}
                                         /\ ledger'[k].type = EntryType[Work(s)[i].status]
    <2>1. {j \in 1 .. m : Work(s)[j].bet = r} = {i}
      BY <1>2, <1>9 DEF OnceInv, HoldsWork
    <2>2. OutcomeEntries(r)' = {n + i}
      BY <1>8, <1>9, <2>1
    <2>3. n + i \in 1 .. n + m /\ ledger'[n + i].type = EntryType[Work(s)[i].status]
      BY <1>2, <1>3, <1>6
    <2> QED BY <1>6, <2>2, <2>3
  <1>10. (\A i \in DOMAIN Work(s) : Work(s)[i].bet # r) => OutcomeEntries(r)' = OutcomeEntries(r)
    BY <1>2, <1>8
  <1>11. \A i \in DOMAIN ledger : i \in DOMAIN ledger' /\ ledger'[i] = ledger[i]
    BY <1>2, <1>6
  <1> QED BY <1>9, <1>10, <1>11

\* A commit closes exactly the open bets the transaction has worked on.
LEMMA CommitSettlementOnce ==
  ASSUME OnceInv, NEW s \in Settlers, CommitSettlement(s)
  PROVE  BetsOfPlaced' /\ (\A t \in Settlers : HoldsWork(t)') /\ SettledOnce'
  <1> TypeInv /\ TypeOK /\ BetsOfPlaced /\ SettledOnce /\ \A t \in Settlers : HoldsWork(t)
    BY DEF OnceInv, TypeInv
  <1>1. \A i \in DOMAIN Work(s) : Work(s)[i] \in WorkItems
    BY WorkType
  <1>2. ASSUME NEW r \in Requests, NEW i \in DOMAIN Work(s), Work(s)[i].bet = r
        PROVE  bet[r] = "PENDING" /\ bet'[r] = Work(s)[i].status
    <2>1. {j \in DOMAIN Work(s) : Work(s)[j].bet = r} = {i}
      BY <1>2 DEF HoldsWork
    <2>2. bet'[r] = Work(s)[CHOOSE j \in {i} : TRUE].status
      BY <1>2, <2>1 DEF CommitSettlement, Work
    <2> QED BY <1>2, <2>2 DEF HoldsWork
  <1>3. ASSUME NEW r \in Requests, \A i \in DOMAIN Work(s) : Work(s)[i].bet # r
        PROVE  bet'[r] = bet[r]
    BY <1>3 DEF CommitSettlement, Work
  <1>4. BetsOfPlaced'
    <2>1. ASSUME NEW r \in Requests, bet'[r] # "NONE" PROVE bet[r] # "NONE"
      <3>1. CASE \A i \in DOMAIN Work(s) : Work(s)[i].bet # r
        BY <1>3, <2>1, <3>1
      <3>2. CASE \E i \in DOMAIN Work(s) : Work(s)[i].bet = r
        BY <1>2, <3>2
      <3> QED BY <3>1, <3>2
    <2> QED BY <2>1 DEF BetsOfPlaced, CommitSettlement, EndSettlement
  <1>5. \A t \in Settlers : HoldsWork(t)'
    <2>1. settler'[s] = AfterRound(s) /\ \A t \in Settlers \ {s} : settler'[t] = settler[t]
      BY DEF CommitSettlement, EndSettlement, TypeOK
    <2>2. HoldsWork(s)'
      BY <2>1, AfterRoundType DEF HoldsWork, Work
    <2>3. ASSUME NEW t \in Settlers \ {s} PROVE HoldsWork(t)'
      <3>1. \A r \in Requests : betLock[r] = t => betLock'[r] = t
        BY DEF CommitSettlement, EndSettlement, TypeOK
      <3>2. ASSUME NEW r \in Requests, betLock[r] = t PROVE bet'[r] = bet[r]
        BY <1>3, <3>2 DEF HoldsWork
      <3> QED BY <2>1, <3>1, <3>2, WorkFrame
    <2> QED BY <2>2, <2>3
  <1>6. SettledOnce'
    <2> SUFFICES ASSUME NEW r \in Requests
                 PROVE  IF bet'[r] \in Closed
                        THEN /\ \E i \in DOMAIN ledger' : /\ OutcomeEntries(r)' = {i}
                                                          /\ ledger'[i].type = EntryType[bet'[r]]
                             /\ {x \in settlements' : x.bet = r} = {[bet |-> r, status |-> bet'[r]]}
                        ELSE /\ OutcomeEntries(r)' = {}
                             /\ {x \in settlements' : x.bet = r} = {}
      BY DEF SettledOnce
    <2>1. settlements' = settlements \cup
                           {[bet |-> Work(s)[i].bet, status |-> Work(s)[i].status] : i \in DOMAIN Work(s)}
      BY DEF CommitSettlement, Work
    <2>2. CASE \A i \in DOMAIN Work(s) : Work(s)[i].bet # r
      <3>1. OutcomeEntries(r)' = OutcomeEntries(r) /\ bet'[r] = bet[r]
        BY <1>3, <2>2, CommitOutcomes
      <3>2. \A i \in DOMAIN ledger : i \in DOMAIN ledger' /\ ledger'[i] = ledger[i]
        BY CommitOutcomes
      <3>3. {x \in settlements' : x.bet = r} = {x \in settlements : x.bet = r}
        BY <2>1, <2>2
      <3> QED BY <3>1, <3>2, <3>3 DEF SettledOnce
    <2>3. CASE \E i \in DOMAIN Work(s) : Work(s)[i].bet = r
      <3>1. PICK i \in DOMAIN Work(s) : Work(s)[i].bet = r
        BY <2>3
      <3>2. bet[r] = "PENDING" /\ bet'[r] = Work(s)[i].status /\ bet'[r] \in Closed
        BY <1>1, <1>2, <3>1 DEF WorkItems
      <3>3. OutcomeEntries(r) = {} /\ {x \in settlements : x.bet = r} = {}
        BY <3>2 DEF SettledOnce, Closed
      <3>4. \E k \in DOMAIN ledger' : OutcomeEntries(r)' = {k} /\ ledger'[k].type = EntryType[bet'[r]]
        BY <3>1, <3>2, <3>3, CommitOutcomes
      <3>5. \A j \in DOMAIN Work(s) : Work(s)[j].bet = r => j = i
        BY <3>1 DEF HoldsWork
      <3>6. {x \in settlements' : x.bet = r} = {[bet |-> r, status |-> bet'[r]]}
        BY <2>1, <3>1, <3>2, <3>3, <3>5
      <3> QED BY <3>2, <3>4, <3>6
    <2> QED BY <2>2, <2>3
  <1> QED BY <1>4, <1>5, <1>6

\* Every statement of a settlement transaction, one case per action.
LEMMA SettlerStepOnce ==
  ASSUME OnceInv, NEW s \in Settlers, SettlerStep(s)
  PROVE  BetsOfPlaced' /\ (\A t \in Settlers : HoldsWork(t)') /\ SettledOnce'
  <1> TypeInv /\ TypeOK /\ BetsOfPlaced /\ SettledOnce /\ \A t \in Settlers : HoldsWork(t)
    BY DEF OnceInv, TypeInv
  <1> settler[s] \in SettlerStates
    BY DEF TypeOK
  <1>1. CASE BeginSettlement(s) \/ MatchEvent(s) \/ CompleteEvent(s) \/ LoadBets(s) \/ NextBet(s)
    <2>1. UNCHANGED books /\ UNCHANGED bet /\ UNCHANGED req /\ UNCHANGED betLock
      BY <1>1 DEF BeginSettlement, MatchEvent, CompleteEvent, LoadBets, NextBet, books, locks
    <2>2. /\ \A t \in Settlers \ {s} : settler'[t] = settler[t]
          /\ settler'[s].work = settler[s].work /\ settler'[s].at # "settleBet"
      <3>1. CASE BeginSettlement(s)
        BY <3>1 DEF BeginSettlement, TypeOK, SettlerStates
      <3>2. CASE LoadBets(s)
        BY <3>2 DEF LoadBets, TypeOK, SettlerStates
      <3>3. CASE NextBet(s)
        BY <3>3 DEF NextBet, TypeOK, SettlerStates
      <3>4. CASE MatchEvent(s)
        BY <3>4 DEF MatchEvent, TypeOK, SettlerStates
      <3>5. CASE CompleteEvent(s)
        BY <3>5 DEF CompleteEvent, TypeOK, SettlerStates
      <3> QED BY <1>1, <3>1, <3>2, <3>3, <3>4, <3>5
    <2>3. HoldsWork(s)'
      BY <2>1, <2>2 DEF HoldsWork, Work
    <2> QED BY <2>1, <2>2, <2>3, WorkFrame, BooksFrame DEF BetsOfPlaced
  <1>2. CASE LockBet(s)
    <2>1. UNCHANGED books /\ UNCHANGED bet /\ UNCHANGED req
      BY <1>2 DEF LockBet, books
    <2>2. /\ settler[s].current \in Requests
          /\ betLock[settler[s].current] = Nobody
          /\ betLock' = [betLock EXCEPT ![settler[s].current] = s]
          /\ \A t \in Settlers \ {s} : settler'[t] = settler[t]
          /\ settler'[s].work = settler[s].work /\ settler'[s].current = settler[s].current
      BY <1>2 DEF LockBet, TypeInv, SettlersKnowBets, KnowsBets, TypeOK, SettlerStates
    <2>3. Nobody \notin Settlers
      BY TransactionsDistinct
    <2>4. \A r \in Requests, t \in Settlers : betLock[r] = t => betLock'[r] = t
      BY <2>2, <2>3 DEF TypeOK
    <2>5. HoldsWork(s)'
      <3>1. \A i \in DOMAIN Work(s) : Work(s)[i].bet # settler[s].current
        BY <2>2, <2>3 DEF HoldsWork
      <3>2. \A i \in DOMAIN Work(s) : Work(s)[i].bet \in Requests
        BY WorkType
      <3> QED BY <2>1, <2>2, <2>4, <3>1, <3>2 DEF HoldsWork, Work, TypeOK
    <2> QED BY <2>1, <2>2, <2>4, <2>5, WorkFrame, BooksFrame DEF BetsOfPlaced
  <1>3. CASE SettleBet(s)
    <2> DEFINE r == settler[s].current
               verdict == Verdict(r, settler[s].result[Event[r]])
               row == SettledRow(LockedRow(s), r, verdict)
               item == [bet |-> r, status |-> verdict, after |-> row.balance]
    <2>1. CASE AlreadySettled(r)
      BY <1>3, <2>1, RollbackSettlementOnce DEF SettleBet
    <2>2. CASE ~AlreadySettled(r)
      <3>1. UNCHANGED books /\ UNCHANGED bet /\ UNCHANGED req /\ UNCHANGED betLock
        BY <1>3, <2>2 DEF SettleBet, books
      <3>2. r \in Requests /\ bet[r] # "NONE" /\ betLock[r] = s
            /\ \A i \in DOMAIN Work(s) : Work(s)[i].bet # r
        BY <1>3 DEF SettleBet, TypeInv, SettlersKnowBets, KnowsBets, Settleable, HoldsWork
      <3>3. bet[r] = "PENDING"
        <4>1. {x \in settlements : x.bet = r} = {}
          BY <2>2 DEF AlreadySettled
        <4>2. bet[r] \notin Closed
          BY <3>2, <4>1 DEF SettledOnce
        <4> QED BY <3>2, <4>2 DEF TypeOK
      <3> HIDE DEF item, row, verdict
      <3>4. settler'[s].at = "next" /\ settler'[s].work = Append(settler[s].work, item)
        <4>1. settler' = [settler EXCEPT ![s].at = "next", ![s].row = row,
                                         ![s].work = Append(@, item)]
          BY <1>3, <2>2 DEF SettleBet, row, item, verdict
        <4> QED BY <4>1 DEF TypeOK, SettlerStates
      <3>5. \A t \in Settlers \ {s} : settler'[t] = settler[t]
        BY <1>3, <2>2 DEF SettleBet, TypeOK
      <3>6. item.bet = r
        BY DEF item
      <3>7. HoldsWork(s)'
        <4>1. /\ Len(Work(s)) \in Nat /\ DOMAIN Work(s) = 1 .. Len(Work(s))
              /\ DOMAIN Work(s)' = 1 .. Len(Work(s)) + 1
              /\ \A i \in 1 .. Len(Work(s)) : Work(s)'[i] = Work(s)[i]
              /\ Work(s)'[Len(Work(s)) + 1] = item
          BY <3>4, WorkType DEF Work
        <4>2. \A i \in 1 .. Len(Work(s)) : /\ betLock[Work(s)[i].bet] = s
                                          /\ bet[Work(s)[i].bet] = "PENDING" /\ Work(s)[i].bet # r
          BY <3>2, <4>1 DEF HoldsWork
        <4>3. \A i, j \in 1 .. Len(Work(s)) : i # j => Work(s)[i].bet # Work(s)[j].bet
          BY <4>1 DEF HoldsWork
        <4>4. \A i \in 1 .. Len(Work(s)) + 1 : i \in 1 .. Len(Work(s)) \/ i = Len(Work(s)) + 1
          BY <4>1
        <4> QED BY <3>1, <3>2, <3>3, <3>4, <3>6, <4>1, <4>2, <4>3, <4>4 DEF HoldsWork
      <3> QED BY <3>1, <3>5, <3>7, WorkFrame, BooksFrame DEF BetsOfPlaced
    <2> QED BY <2>1, <2>2
  <1>4. CASE CommitSettlement(s)
    BY <1>4, CommitSettlementOnce
  <1>5. CASE BreakDeadlock(s)
    <2>1. PICK o \in Settlers \ {s} :
            /\ WaitsFor(o, s)
            /\ settler' = [settler EXCEPT ![s] = AfterRound(s),
                 ![o].at = IF @ = "complete" THEN "load" ELSE "settleBet"]
            /\ betLock' = [r \in Requests |->
                 IF betLock[r] # s THEN betLock[r]
                 ELSE IF settler[o].at = "lockBet" /\ settler[o].current = r THEN o ELSE Nobody]
            /\ UNCHANGED <<books, req>>
      BY <1>5 DEF BreakDeadlock
    <2>2. UNCHANGED bet
      BY <2>1 DEF books
    <2>3. settler'[s] = AfterRound(s) /\ \A t \in Settlers \ {s, o} : settler'[t] = settler[t]
      BY <2>1 DEF TypeOK
    <2>4. \A r \in Requests, t \in Settlers \ {s} : betLock[r] = t => betLock'[r] = t
      BY <2>1 DEF TypeOK
    <2>5. HoldsWork(s)'
      BY <2>3, AfterRoundType DEF HoldsWork, Work
    <2>6. HoldsWork(o)'
      <3>1. settler[o] \in SettlerStates
        BY DEF TypeOK
      <3>2. /\ settler'[o].work = settler[o].work /\ settler'[o].current = settler[o].current
            /\ settler'[o].at = IF settler[o].at = "complete" THEN "load" ELSE "settleBet"
        BY <2>1, <3>1 DEF TypeOK, SettlerStates
      <3>3. settler[o].at # "complete" =>
              /\ settler[o].current \in Requests
              /\ betLock'[settler[o].current] = o
              /\ \A i \in DOMAIN Work(o) : Work(o)[i].bet # settler[o].current
        <4> SUFFICES ASSUME settler[o].at # "complete"
                     PROVE  /\ settler[o].current \in Requests
                            /\ betLock'[settler[o].current] = o
                            /\ \A i \in DOMAIN Work(o) : Work(o)[i].bet # settler[o].current
          OBVIOUS
        <4>1. settler[o].current \in Requests
          BY <2>1 DEF WaitsFor, TypeInv, SettlersKnowBets, KnowsBets
        <4>2. CASE settler[o].at = "lockBet"
          BY <2>1, <4>1, <4>2 DEF WaitsFor, HoldsWork
        <4>3. CASE settler[o].at = "settleBet"
          BY <2>1, <4>1, <4>3 DEF HoldsWork
        <4> QED BY <2>1, <4>1, <4>2, <4>3 DEF WaitsFor
      <3>4. \A i \in DOMAIN Work(o) : Work(o)[i].bet \in Requests
        BY WorkType
      <3> QED BY <2>2, <2>4, <3>2, <3>3, <3>4 DEF HoldsWork, Work
    <2>7. \A t \in Settlers \ {s, o} : HoldsWork(t)'
      BY <2>2, <2>3, <2>4, WorkFrame
    <2> QED BY <2>1, <2>2, <2>5, <2>6, <2>7, BooksFrame DEF BetsOfPlaced
  <1> QED BY <1>1, <1>2, <1>3, <1>4, <1>5 DEF SettlerStep

-------------------------------------------------------------------------------
\* The invariant is inductive.
LEMMA StepOnceInv == OnceInv /\ [Next]_vars => OnceInv'
  <1> SUFFICES ASSUME OnceInv, [Next]_vars PROVE OnceInv'
    OBVIOUS
  <1>1. TypeInv'
    BY StepTypeInv DEF OnceInv
  <1>2. CASE UNCHANGED vars
    BY <1>1, <1>2 DEF OnceInv, vars, books, locks, BetsOfPlaced, HoldsWork, Work, SettledOnce,
                      OutcomeEntries
  <1>3. CASE Next
    BY <1>1, <1>3, RequestStepOnce, SettlerStepOnce, ResetStepOnce DEF Next, OnceInv
  <1> QED BY <1>2, <1>3

\* However settlement rounds, scripts, requests and resets interleave, a closed
\* bet has exactly one settlement and one outcome entry, an open bet none.
THEOREM SettledOnceAlways == Spec => []SettledOnce
  <1>1. Spec => []OnceInv
    BY InitialOnceInv, StepOnceInv, PTL DEF Spec
  <1>2. OnceInv => SettledOnce
    BY DEF OnceInv
  <1> QED BY <1>1, <1>2, PTL

-------------------------------------------------------------------------------
(***************************************************************************)
(* Repeated proposals.  OneBetPerProposal and RowExposureWithinLimit say   *)
(* nothing of the requests under way.  Of two requests of one proposal     *)
(* that go on to place a bet, one has inserted the row and the other waits *)
(* for it -- unless the row is there already and has no bet, which means   *)
(* that the proposal was rejected before.                                  *)
(***************************************************************************)
HoldsProposal(r) == proposalLock[Proposal[r]] = r
Known(r) == Proposal[r] \in proposals
Rejected(p) == \E q \in Requests : Proposal[q] = p /\ At(q, "rejected")

ProposalsSerialised ==
  /\ \A r \in Requests : bet[r] # "NONE" \/ At(r, "rejected") => Known(r)
  /\ \A p \in proposals : HasBet(p) \/ Rejected(p)
  /\ \A p \in Proposals : proposalLock[p] # Nobody =>
       /\ p \notin proposals /\ Proposal[proposalLock[p]] = p
       /\ req[proposalLock[p]].at \in {"decide", "place"}
  /\ \A r \in Requests : At(r, "decide") => HoldsProposal(r) \/ Known(r)
  /\ \A r \in Requests : At(r, "place") => HoldsProposal(r) \/ RepeatedAfterRejection(Proposal[r])

\* What the exposure gate lets pass.
Within(exposure) == exposure * ExposureDivisor <= InitialBalance
Stakeable(r) == Within(req[r].snap.exposure + Stake[r])
Repeated == \E r \in Requests : RepeatedAfterRejection(Proposal[r])

ExposureChecked ==
  /\ \A r \in Requests : req[r].verdict = "ACCEPTED" /\ req[r].snap # Nobody
       /\ req[r].at \in {"propose", "insert", "decide"} => Stakeable(r)
  /\ \A r \in Requests : At(r, "decide") /\ req[r].snap = Nobody => Known(r)
  /\ \A r \in Requests : At(r, "place") => Stakeable(r) \/ RepeatedAfterRejection(Proposal[r])
  /\ \A s \in Settlers : settler[s].row # Nobody => Repeated \/ Within(settler[s].row.exposure)
  /\ RowExposureWithinLimit

ProposalInv == OnceInv /\ ProposalsSerialised /\ OneBetPerProposal /\ ExposureChecked

\* A request changes itself only; what is committed, and a rejection, stay.
LEMMA RequestMoves ==
  ASSUME TypeOK, NEW r \in Requests, RequestStep(r)
  PROVE  /\ \A d \in Requests \ {r} : req'[d] = req[d] /\ bet'[d] = bet[d]
         /\ req[r].at \notin {"placed", "answered", "rejected", "failed"}
         /\ \A d \in Requests : bet[d] # "NONE" => bet'[d] # "NONE"
         /\ proposals \subseteq proposals' /\ UNCHANGED settler
  <1>1. /\ req[r].at \notin {"placed", "answered", "rejected", "failed"}
        /\ proposals \subseteq proposals' /\ UNCHANGED settler
    BY DEF RequestStep, LoadAccount, CreateAccount, Validate, AnswerDuplicate, FindProposal,
           InsertProposal, CommitWithoutBet, EnterPlaceBet, PlaceBet, AbortRequest, Rollback, books,
           CommitProposal, At
  <1>2. \A d \in Requests \ {r} : req'[d] = req[d]
    BY DEF RequestStep, LoadAccount, CreateAccount, Validate, AnswerDuplicate, FindProposal,
           InsertProposal, CommitWithoutBet, EnterPlaceBet, PlaceBet, AbortRequest, Rollback, Finish,
           Goto, TypeOK
  <1>3. UNCHANGED bet \/ bet' = [bet EXCEPT ![r] = "PENDING"]
    BY DEF RequestStep, LoadAccount, CreateAccount, Validate, AnswerDuplicate, FindProposal,
           InsertProposal, CommitWithoutBet, EnterPlaceBet, PlaceBet, AbortRequest, Rollback, books
  <1> QED BY <1>1, <1>2, <1>3 DEF TypeOK

LEMMA Lasting ==
  ASSUME TypeOK, NEW r \in Requests, RequestStep(r), NEW p
  PROVE  /\ RepeatedAfterRejection(p) => RepeatedAfterRejection(p)'
         /\ Rejected(p) => Rejected(p)'
         /\ HasBet(p) => HasBet(p)'
         /\ Repeated => Repeated'
  BY RequestMoves DEF RepeatedAfterRejection, Rejected, Repeated, HasBet, At

\* Where a request may be after a step that commits nothing and ends nothing.
LEMMA RequestGoesOn ==
  ASSUME TypeOK, NEW r \in Requests,
         LoadAccount(r) \/ Validate(r) \/ FindProposal(r) \/ InsertProposal(r) \/ EnterPlaceBet(r)
  PROVE  /\ UNCHANGED <<proposals, bet, account>>
         /\ \A d \in Requests \ {r} : req'[d] = req[d]
         /\ req'[r].at \in {"create", "validate", "propose", "insert", "decide", "place"}
  BY DEF LoadAccount, Validate, FindProposal, InsertProposal, EnterPlaceBet, Goto, TypeOK,
         RequestStates, books

\* The request ends without a commit.
LEMMA RollbackSerialised ==
  ASSUME OnceInv, ProposalsSerialised, NEW r \in Requests, NEW place \in {"answered", "failed"},
         Rollback(r, place), RequestStep(r)
  PROVE  ProposalsSerialised'
  <1>1. TypeOK /\ UNCHANGED <<bet, proposals>>
    BY DEF OnceInv, TypeInv, Rollback, books
  <1>2. /\ proposalLock' = [p \in Proposals |-> IF proposalLock[p] = r THEN Nobody ELSE proposalLock[p]]
        /\ req'[r].at = place
    BY <1>1 DEF Rollback, Finish, TypeOK, RequestStates
  <1>3. \A d \in Requests : Proposal[d] \in Proposals
    BY DEF Proposals
  <1>4. /\ \A d \in Requests \ {r} : req'[d] = req[d]
        /\ req[r].at \notin {"placed", "answered", "rejected", "failed"}
    BY <1>1, RequestMoves
  <1>5. \A p : (Rejected(p) => Rejected(p)') /\ (HasBet(p) => HasBet(p)')
               /\ (RepeatedAfterRejection(p) => RepeatedAfterRejection(p)')
    BY <1>1, Lasting
  <1>6. \A d \in Requests : bet'[d] # "NONE" \/ At(d, "rejected")' => Known(d)'
    BY <1>1, <1>2, <1>4 DEF ProposalsSerialised, At, Known
  <1>7. \A p \in proposals' : HasBet(p)' \/ Rejected(p)'
    BY <1>1, <1>5 DEF ProposalsSerialised
  <1>8. \A p \in Proposals : proposalLock'[p] # Nobody =>
          /\ p \notin proposals' /\ Proposal[proposalLock'[p]] = p
          /\ req'[proposalLock'[p]].at \in {"decide", "place"}
    BY <1>1, <1>2, <1>4 DEF ProposalsSerialised, TypeOK
  <1>9. \A d \in Requests : At(d, "decide")' => HoldsProposal(d)' \/ Known(d)'
    BY <1>1, <1>2, <1>3, <1>4 DEF ProposalsSerialised, At, Known, HoldsProposal
  <1>10. \A d \in Requests : At(d, "place")' => HoldsProposal(d)' \/ RepeatedAfterRejection(Proposal[d])'
    BY <1>1, <1>2, <1>3, <1>4, <1>5 DEF ProposalsSerialised, At, Known, HoldsProposal
  <1> QED BY <1>6, <1>7, <1>8, <1>9, <1>10 DEF ProposalsSerialised

\* The request commits its proposal: it is rejected, or has a bet.
LEMMA CommitSerialised ==
  ASSUME OnceInv, ProposalsSerialised, NEW r \in Requests, NEW place \in {"placed", "answered", "rejected"},
         Finish(r, place), CommitProposal(r), RequestStep(r),
         HoldsProposal(r) \/ Known(r),
         place = "rejected" \/ HasBet(Proposal[r])'
  PROVE  ProposalsSerialised' /\ Known(r)'
  <1>1. TypeOK
    BY DEF OnceInv, TypeInv
  <1>2. /\ proposalLock' = [p \in Proposals |-> IF proposalLock[p] = r THEN Nobody ELSE proposalLock[p]]
        /\ req'[r].at = place
        /\ proposals' = proposals \cup {p \in Proposals : proposalLock[p] = r}
    BY <1>1 DEF Finish, CommitProposal, TypeOK, RequestStates
  <1>3. \A d \in Requests : Proposal[d] \in Proposals
    BY DEF Proposals
  <1>4. /\ \A d \in Requests \ {r} : req'[d] = req[d] /\ bet'[d] = bet[d]
        /\ req[r].at \notin {"placed", "answered", "rejected", "failed"}
    BY <1>1, RequestMoves
  <1>5. \A p : (Rejected(p) => Rejected(p)') /\ (HasBet(p) => HasBet(p)')
               /\ (RepeatedAfterRejection(p) => RepeatedAfterRejection(p)')
    BY <1>1, Lasting
  <1>6. /\ proposals' = proposals \cup {Proposal[r]}
        /\ r # Nobody /\ \A p \in Proposals : proposalLock[p] = r => p = Proposal[r]
    BY <1>2, <1>3, TransactionsDistinct DEF HoldsProposal, Known, ProposalsSerialised
  <1>7. \A d \in Requests : bet'[d] # "NONE" \/ At(d, "rejected")' => Known(d)'
    BY <1>2, <1>4, <1>6 DEF ProposalsSerialised, At, Known
  <1>8. \A p \in proposals' : HasBet(p)' \/ Rejected(p)'
    <2>1. Rejected(Proposal[r])' \/ HasBet(Proposal[r])'
      BY <1>2 DEF Rejected, At
    <2> QED BY <1>5, <1>6, <2>1 DEF ProposalsSerialised
  <1>9. ASSUME NEW p \in Proposals, proposalLock'[p] # Nobody
        PROVE  /\ p \notin proposals' /\ Proposal[proposalLock'[p]] = p
               /\ req'[proposalLock'[p]].at \in {"decide", "place"}
    <2>1. proposalLock'[p] = proposalLock[p] /\ proposalLock[p] # r /\ proposalLock[p] \in Requests
      BY <1>1, <1>2, <1>9 DEF TypeOK
    <2>2. p \notin proposals /\ Proposal[proposalLock[p]] = p /\ req[proposalLock[p]].at \in {"decide", "place"}
      BY <1>9, <2>1 DEF ProposalsSerialised
    <2>3. p # Proposal[r]
      BY <2>1, <2>2 DEF HoldsProposal, Known
    <2> QED BY <1>4, <1>6, <2>1, <2>2, <2>3
  <1>10. \A d \in Requests : At(d, "decide")' => HoldsProposal(d)' \/ Known(d)'
    BY <1>2, <1>3, <1>4, <1>6 DEF ProposalsSerialised, At, Known, HoldsProposal
  <1>11. \A d \in Requests : At(d, "place")' => HoldsProposal(d)' \/ RepeatedAfterRejection(Proposal[d])'
    BY <1>2, <1>3, <1>4, <1>5 DEF ProposalsSerialised, At, HoldsProposal
  <1> QED BY <1>6, <1>7, <1>8, <1>9, <1>10, <1>11 DEF ProposalsSerialised, Known

\* A proposal that is known and has no bet was rejected before.
LEMMA KnownWithoutBet ==
  ASSUME ProposalsSerialised, NEW r \in Requests, Known(r), ~HasBet(Proposal[r]), ~At(r, "rejected")
  PROVE  RepeatedAfterRejection(Proposal[r])
  BY DEF ProposalsSerialised, Known, Rejected, RepeatedAfterRejection

LEMMA RequestSerialised ==
  ASSUME OnceInv, ProposalsSerialised, OneBetPerProposal, NEW r \in Requests, RequestStep(r)
  PROVE  ProposalsSerialised' /\ OneBetPerProposal'
  <1>1. TypeOK /\ BetsOfPlaced /\ Nobody \notin Requests
    BY TransactionsDistinct DEF OnceInv, TypeInv
  <1>2. /\ \A d \in Requests \ {r} : req'[d] = req[d] /\ bet'[d] = bet[d]
        /\ req[r].at \notin {"placed", "answered", "rejected", "failed"}
    BY <1>1, RequestMoves
  <1>3. \A p : (Rejected(p) => Rejected(p)') /\ (HasBet(p) => HasBet(p)')
               /\ (RepeatedAfterRejection(p) => RepeatedAfterRejection(p)')
    BY <1>1, Lasting
  <1>4. UNCHANGED bet => OneBetPerProposal'
    BY <1>3 DEF OneBetPerProposal
  <1>5. \A d \in Requests : Proposal[d] \in Proposals
    BY DEF Proposals
  <1>6. CASE \E place \in {"answered", "failed"} : Rollback(r, place)
    BY <1>4, <1>6, RollbackSerialised DEF Rollback, books
  <1>7. CASE LoadAccount(r) \/ CreateAccount(r) \/ Validate(r)
    <2>1. CASE Rollback(r, "failed")
      BY <1>6, <2>1
    <2>2. CASE ~Rollback(r, "failed")
      <3>1. /\ UNCHANGED <<proposals, bet, proposalLock>>
            /\ req[r].at \in {"start", "create", "validate"} /\ req'[r].at \in {"create", "validate", "propose"}
        BY <1>1, <1>7, <2>2 DEF LoadAccount, CreateAccount, Validate, books, locks, At, TypeOK, RequestStates
      <3>2. \A d \in Requests : /\ At(d, "rejected")' => At(d, "rejected")
                                /\ At(d, "decide")' => At(d, "decide")
                                /\ At(d, "place")' => At(d, "place")
                                /\ req[d].at \in {"decide", "place"} => req'[d].at \in {"decide", "place"}
        BY <1>2, <3>1 DEF At
      <3>3. \A p \in Proposals : proposalLock[p] \in Requests \cup {Nobody}
        BY <1>1 DEF TypeOK
      <3>4. \A p \in Proposals : proposalLock[p] # Nobody =>
              /\ p \notin proposals /\ Proposal[proposalLock[p]] = p
              /\ req'[proposalLock[p]].at \in {"decide", "place"}
        BY <3>2, <3>3 DEF ProposalsSerialised
      <3>5. \A p \in proposals : HasBet(p)' \/ Rejected(p)'
        BY <1>3 DEF ProposalsSerialised
      <3>6. \A d \in Requests : bet[d] # "NONE" \/ At(d, "rejected")' => Known(d)
        BY <3>2 DEF ProposalsSerialised
      <3>7. \A d \in Requests : At(d, "place")' => HoldsProposal(d) \/ RepeatedAfterRejection(Proposal[d])'
        BY <1>3, <3>2 DEF ProposalsSerialised
      <3>8. \A d \in Requests : At(d, "decide")' => HoldsProposal(d) \/ Known(d)
        BY <3>2 DEF ProposalsSerialised
      <3> QED BY <1>4, <3>1, <3>4, <3>5, <3>6, <3>7, <3>8 DEF ProposalsSerialised, Known, HoldsProposal
    <2> QED BY <2>1, <2>2
  <1>8. CASE FindProposal(r)
    <2>1. /\ UNCHANGED <<proposals, bet, proposalLock>> /\ req[r].at = "propose"
          /\ req'[r].at = IF Known(r) THEN "decide" ELSE "insert"
      BY <1>1, <1>8 DEF FindProposal, Goto, books, locks, At, TypeOK, RequestStates, Known
    <2>2. \A d \in Requests : /\ At(d, "rejected")' => At(d, "rejected")
                              /\ At(d, "decide")' => At(d, "decide") \/ Known(d)
                              /\ At(d, "place")' => At(d, "place")
                              /\ req[d].at \in {"decide", "place"} => req'[d].at \in {"decide", "place"}
      BY <1>2, <2>1 DEF At
    <2>3. \A p \in Proposals : proposalLock[p] \in Requests \cup {Nobody}
      BY <1>1 DEF TypeOK
    <2> QED BY <1>3, <1>4, <2>1, <2>2, <2>3 DEF ProposalsSerialised, Known, HoldsProposal
  <1>9. CASE InsertProposal(r)
    <2>1. UNCHANGED <<proposals, bet>> /\ req[r].at = "insert" /\ req'[r].at = "decide"
      BY <1>1, <1>9 DEF InsertProposal, Goto, books, At, TypeOK, RequestStates
    <2>2. \/ Known(r) /\ UNCHANGED proposalLock
          \/ /\ ~Known(r) /\ proposalLock[Proposal[r]] = Nobody
             /\ proposalLock' = [proposalLock EXCEPT ![Proposal[r]] = r]
      BY <1>9 DEF InsertProposal, Known
    <2>3. \A d \in Requests : /\ At(d, "rejected")' => At(d, "rejected")
                              /\ At(d, "decide")' => At(d, "decide") \/ d = r
                              /\ At(d, "place")' => At(d, "place")
                              /\ req[d].at \in {"decide", "place"} => req'[d].at \in {"decide", "place"}
      BY <1>2, <2>1 DEF At
    <2>4. \A p \in Proposals : /\ proposalLock[p] \in Requests \cup {Nobody}
                               /\ proposalLock'[p] = proposalLock[p] \/ (proposalLock'[p] = r /\ p = Proposal[r] /\ ~Known(r))
      BY <1>1, <2>2 DEF TypeOK
    <2>5. HoldsProposal(r)' \/ Known(r)
      BY <1>1, <1>5, <2>2 DEF HoldsProposal, TypeOK
    <2>6. \A d \in Requests : HoldsProposal(d) => HoldsProposal(d)'
      BY <1>1, <1>5, <2>2 DEF HoldsProposal, TypeOK
    <2>7. \A p \in Proposals : proposalLock'[p] # Nobody =>
            /\ p \notin proposals' /\ Proposal[proposalLock'[p]] = p
            /\ req'[proposalLock'[p]].at \in {"decide", "place"}
      BY <2>1, <2>3, <2>4 DEF ProposalsSerialised, Known
    <2> QED BY <1>3, <1>4, <2>1, <2>3, <2>5, <2>6, <2>7 DEF ProposalsSerialised, Known
  <1>10. CASE CommitWithoutBet(r)
    <2> DEFINE end == IF req[r].verdict = "ACCEPTED" THEN "answered" ELSE "rejected"
    <2>1. /\ Finish(r, end) /\ CommitProposal(r) /\ UNCHANGED bet /\ At(r, "decide")
          /\ end \in {"placed", "answered", "rejected"}
          /\ end = "rejected" \/ HasBet(Proposal[r])
      BY <1>10 DEF CommitWithoutBet
    <2> HIDE DEF end
    <2>2. HoldsProposal(r) \/ Known(r)
      BY <2>1 DEF ProposalsSerialised
    <2>3. end = "rejected" \/ HasBet(Proposal[r])'
      BY <1>3, <2>1
    <2> QED BY <1>4, <2>1, <2>2, <2>3, CommitSerialised
  <1>11. CASE EnterPlaceBet(r)
    <2>1. /\ UNCHANGED <<proposals, bet, proposalLock>> /\ req[r].at = "decide" /\ req'[r].at = "place"
          /\ ~HasBet(Proposal[r])
      BY <1>1, <1>11 DEF EnterPlaceBet, books, locks, At, TypeOK, RequestStates
    <2>2. \A d \in Requests : /\ At(d, "rejected")' => At(d, "rejected")
                              /\ At(d, "decide")' => At(d, "decide")
                              /\ At(d, "place")' => At(d, "place") \/ d = r
                              /\ req[d].at \in {"decide", "place"} => req'[d].at \in {"decide", "place"}
      BY <1>2, <2>1 DEF At
    <2>3. \A p \in Proposals : proposalLock[p] \in Requests \cup {Nobody}
      BY <1>1 DEF TypeOK
    <2>4. HoldsProposal(r) \/ RepeatedAfterRejection(Proposal[r])
      BY <2>1, KnownWithoutBet DEF ProposalsSerialised, At
    <2> QED BY <1>3, <1>4, <2>1, <2>2, <2>3, <2>4 DEF ProposalsSerialised, Known, HoldsProposal
  <1>12. CASE PlaceBet(r) /\ ~Rollback(r, "failed")
    <2>1. /\ Finish(r, "placed") /\ CommitProposal(r) /\ At(r, "place")
          /\ bet' = [bet EXCEPT ![r] = "PENDING"]
      BY <1>12 DEF PlaceBet
    <2>2. HoldsProposal(r) \/ RepeatedAfterRejection(Proposal[r])
      BY <2>1 DEF ProposalsSerialised
    <2>3. HoldsProposal(r) \/ Known(r)
      BY <2>2 DEF ProposalsSerialised, RepeatedAfterRejection, Known
    <2>4. HasBet(Proposal[r])' /\ bet'[r] = "PENDING"
      BY <1>1, <2>1 DEF HasBet, TypeOK
    <2>5. ProposalsSerialised'
      BY <2>1, <2>3, <2>4, CommitSerialised
    <2>6. CASE HoldsProposal(r)
      <3>1. Proposal[r] \notin proposals
        BY <1>1, <1>5, <2>6 DEF HoldsProposal, ProposalsSerialised
      <3>2. \A d \in Requests \ {r} : Proposal[d] = Proposal[r] => bet'[d] = "NONE"
        BY <1>2, <3>1 DEF ProposalsSerialised, Known
      <3>3. \A d, q \in Requests \ {r} : d # q /\ Proposal[d] = Proposal[q] /\ bet'[d] # "NONE" /\ bet'[q] # "NONE"
              => RepeatedAfterRejection(Proposal[d])'
        BY <1>2, <1>3 DEF OneBetPerProposal
      <3> QED BY <2>5, <3>2, <3>3 DEF OneBetPerProposal
    <2>7. CASE RepeatedAfterRejection(Proposal[r])
      BY <1>2, <1>3, <2>5, <2>7 DEF OneBetPerProposal
    <2> QED BY <2>2, <2>6, <2>7
  <1> QED BY <1>6, <1>7, <1>8, <1>9, <1>10, <1>11, <1>12
       DEF RequestStep, AnswerDuplicate, AbortRequest, PlaceBet

-------------------------------------------------------------------------------
\* Settlements and resets touch neither requests nor proposals, and place no bet.
LEMMA SettlerLeavesRequests ==
  ASSUME OnceInv, NEW s \in Settlers, SettlerStep(s)
  PROVE  /\ UNCHANGED <<req, proposals, proposalLock>>
         /\ \A r \in Requests : bet'[r] # "NONE" <=> bet[r] # "NONE"
  <1>1. CASE CommitSettlement(s)
    <2>1. /\ \A i \in DOMAIN Work(s) : Work(s)[i] \in WorkItems
          /\ \A i \in DOMAIN Work(s) : bet[Work(s)[i].bet] = "PENDING"
      BY WorkType DEF OnceInv, HoldsWork
    <2>2. ASSUME NEW r \in Requests PROVE bet'[r] # "NONE" <=> bet[r] # "NONE"
      <3> DEFINE decided == {i \in DOMAIN Work(s) : Work(s)[i].bet = r}
      <3>1. bet'[r] = IF decided = {} THEN bet[r] ELSE Work(s)[CHOOSE i \in decided : TRUE].status
        BY <1>1 DEF CommitSettlement, Work
      <3>2. ASSUME NEW i \in decided PROVE bet[r] = "PENDING" /\ Work(s)[i].status \in Closed
        BY <2>1 DEF WorkItems
      <3> HIDE DEF decided
      <3> QED BY <3>1, <3>2 DEF Closed
    <2> QED BY <1>1, <2>2 DEF CommitSettlement, EndSettlement
  <1>2. CASE ~CommitSettlement(s)
    BY <1>2 DEF SettlerStep, BeginSettlement, MatchEvent, CompleteEvent, LoadBets, NextBet, LockBet,
                SettleBet, RollbackSettlement, EndSettlement, BreakDeadlock, books, locks
  <1> QED BY <1>1, <1>2

LEMMA ProposalsFrame ==
  ASSUME ProposalsSerialised, OneBetPerProposal, UNCHANGED <<req, proposals, proposalLock>>,
         \A r \in Requests : bet'[r] # "NONE" <=> bet[r] # "NONE"
  PROVE  /\ ProposalsSerialised' /\ OneBetPerProposal'
         /\ \A p : RepeatedAfterRejection(p)' <=> RepeatedAfterRejection(p)
         /\ Repeated' <=> Repeated
  <1>1. \A p : /\ RepeatedAfterRejection(p)' <=> RepeatedAfterRejection(p)
               /\ Rejected(p)' <=> Rejected(p)
               /\ HasBet(p)' <=> HasBet(p)
    BY DEF RepeatedAfterRejection, Rejected, HasBet, At
  <1>2. OneBetPerProposal'
    BY <1>1 DEF OneBetPerProposal
  <1>3. ProposalsSerialised'
    <2>1. \A r \in Requests : /\ At(r, "decide")' <=> At(r, "decide")
                              /\ At(r, "place")' <=> At(r, "place")
                              /\ At(r, "rejected")' <=> At(r, "rejected")
                              /\ Known(r)' <=> Known(r)
                              /\ HoldsProposal(r)' <=> HoldsProposal(r)
      BY DEF At, Known, HoldsProposal
    <2>2. /\ \A p \in proposals' : HasBet(p)' \/ Rejected(p)'
          /\ \A r \in Requests : bet'[r] # "NONE" \/ At(r, "rejected")' => Known(r)'
          /\ \A r \in Requests : At(r, "place")' => HoldsProposal(r)' \/ RepeatedAfterRejection(Proposal[r])'
      BY <1>1, <2>1 DEF ProposalsSerialised, HasBet, Rejected, At
    <2> QED BY <2>1, <2>2 DEF ProposalsSerialised
  <1> QED BY <1>1, <1>2, <1>3 DEF Repeated

\* A smaller exposure is within the limit too.
LEMMA LessIsWithin ==
  ASSUME NEW a \in Nat, NEW b \in Nat, a <= b, Within(b)
  PROVE  Within(a)
  <1>1. ExposureDivisor \in Nat /\ InitialBalance \in Nat
    BY Limits
  <1>2. \A x, y, z \in Nat : x <= y => x * z <= y * z
    OBVIOUS
  <1>3. \A x, z \in Nat : x * z \in Nat
    OBVIOUS
  <1> QED BY <1>1, <1>2, <1>3 DEF Within

LEMMA NewAccountWithin ==
  Within(NewAccount.exposure) /\ NewAccount.exposure = 0
  BY Limits DEF Within, NewAccount, Row

\* What a request keeps that has validated.
Checked(r) ==
  /\ req[r].verdict = "ACCEPTED" /\ req[r].snap # Nobody
       /\ req[r].at \in {"propose", "insert", "decide"} => Stakeable(r)
  /\ At(r, "decide") /\ req[r].snap = Nobody => Known(r)
  /\ At(r, "place") => Stakeable(r) \/ RepeatedAfterRejection(Proposal[r])

LEMMA ExposureOthers ==
  ASSUME TypeOK, ExposureChecked, NEW r \in Requests, RequestStep(r), Checked(r)',
         \/ UNCHANGED account \/ Repeated' \/ Within(account'.exposure)
  PROVE  ExposureChecked'
  <1>1. /\ \A d \in Requests \ {r} : req'[d] = req[d]
        /\ proposals \subseteq proposals' /\ UNCHANGED settler
    BY RequestMoves
  <1>2. /\ \A p : RepeatedAfterRejection(p) => RepeatedAfterRejection(p)'
        /\ Repeated => Repeated'
    BY Lasting
  <1>3. ASSUME NEW d \in Requests \ {r} PROVE Checked(d)'
    BY <1>1, <1>2 DEF ExposureChecked, Checked, At, Known, Stakeable
  <1>4. \A d \in Requests : Checked(d)'
    BY <1>3
  <1>5. \A s \in Settlers : settler'[s].row # Nobody => Repeated' \/ Within(settler'[s].row.exposure)
    BY <1>1, <1>2 DEF ExposureChecked
  <1>6. RowExposureWithinLimit'
    BY <1>2 DEF ExposureChecked, RowExposureWithinLimit, Within, Repeated
  <1> QED BY <1>4, <1>5, <1>6 DEF ExposureChecked, Checked, Within

LEMMA RequestExposure ==
  ASSUME OnceInv, ProposalsSerialised, ExposureChecked, NEW r \in Requests, RequestStep(r)
  PROVE  ExposureChecked'
  <1>1. TypeOK /\ RequestsKnowAccount /\ req[r] \in RequestStates
    BY DEF OnceInv, TypeInv, TypeOK
  <1>2. CASE \E place \in {"answered", "failed"} : Rollback(r, place)
    <2>1. UNCHANGED account /\ req'[r].at \in {"answered", "failed"}
      BY <1>1, <1>2 DEF Rollback, Finish, books, TypeOK, RequestStates
    <2> QED BY <1>1, <2>1, ExposureOthers DEF Checked, At
  <1>3. CASE LoadAccount(r) \/ (CreateAccount(r) /\ ~Rollback(r, "failed"))
    <2>1. UNCHANGED account /\ req'[r].at \in {"create", "validate"}
      BY <1>1, <1>3 DEF LoadAccount, CreateAccount, books, TypeOK, RequestStates
    <2> QED BY <1>1, <2>1, ExposureOthers DEF Checked, At
  <1>4. CASE Validate(r)
    <2>1. /\ UNCHANGED account /\ req'[r].at = "propose" /\ req'[r].snap = req[r].snap
          /\ req'[r].verdict = "ACCEPTED" => Accepts(r, req[r].snap)
      BY <1>1, <1>4 DEF Validate, books, TypeOK, RequestStates
    <2>2. Checked(r)'
      BY <2>1 DEF Checked, At, Stakeable, Accepts, ExposureGate, Within
    <2> QED BY <1>1, <2>1, <2>2, ExposureOthers
  <1>5. CASE FindProposal(r)
    <2>1. /\ UNCHANGED account /\ req'[r].at \in {"insert", "decide"} /\ req'[r].snap = req[r].snap
          /\ req'[r].verdict = req[r].verdict /\ req[r].at = "propose"
      BY <1>1, <1>5 DEF FindProposal, Goto, At, books, TypeOK, RequestStates
    <2>2. req[r].snap # Nobody
      BY <1>1, <2>1 DEF RequestsKnowAccount, Running
    <2>3. Checked(r)'
      BY <2>1, <2>2 DEF Checked, At, Stakeable, ExposureChecked
    <2> QED BY <1>1, <2>1, <2>3, ExposureOthers
  <1>6. CASE InsertProposal(r)
    <2>1. /\ UNCHANGED account /\ req'[r].at = "decide" /\ req'[r].verdict = req[r].verdict
          /\ req[r].at = "insert" /\ UNCHANGED proposals
          /\ \/ req'[r].snap = Nobody /\ Known(r)
             \/ req'[r].snap = req[r].snap
      BY <1>1, <1>6 DEF InsertProposal, Goto, At, books, TypeOK, RequestStates, Known
    <2>2. req[r].snap # Nobody
      BY <1>1, <2>1 DEF RequestsKnowAccount, Running
    <2>3. Checked(r)'
      BY <2>1, <2>2 DEF Checked, At, Stakeable, ExposureChecked, Known
    <2> QED BY <1>1, <2>1, <2>3, ExposureOthers
  <1>7. CASE CommitWithoutBet(r)
    <2>1. /\ account' = account \/ account' = NewAccount
          /\ req'[r].at \in {"answered", "rejected"}
      BY <1>1, <1>7 DEF CommitWithoutBet, Finish, TypeOK, RequestStates
    <2> QED BY <1>1, <2>1, NewAccountWithin, ExposureOthers DEF Checked, At
  <1>8. CASE EnterPlaceBet(r)
    <2>1. /\ UNCHANGED account /\ req'[r].at = "place" /\ At(r, "decide")
          /\ req[r].verdict = "ACCEPTED" /\ ~HasBet(Proposal[r])
          /\ req[r].snap # Nobody => req'[r].snap = req[r].snap
      BY <1>1, <1>8 DEF EnterPlaceBet, books, TypeOK, RequestStates
    <2>2. req[r].snap = Nobody => RepeatedAfterRejection(Proposal[r])'
      BY <1>1, <2>1, KnownWithoutBet, Lasting DEF ExposureChecked, At
    <2>3. Checked(r)'
      BY <2>1, <2>2 DEF Checked, At, Stakeable, ExposureChecked
    <2> QED BY <1>1, <2>1, <2>3, ExposureOthers
  <1>9. CASE PlaceBet(r) /\ ~Rollback(r, "failed")
    <2>1. /\ At(r, "place") /\ req'[r].at = "placed"
          /\ account'.exposure = req[r].snap.exposure + Stake[r]
      BY <1>1, <1>9 DEF PlaceBet, Finish, Row, TypeOK, RequestStates
    <2>2. Within(account'.exposure) \/ Repeated'
      BY <1>1, <2>1, Lasting DEF ExposureChecked, Stakeable, Repeated
    <2> QED BY <1>1, <2>1, <2>2, ExposureOthers DEF Checked, At
  <1> QED BY <1>2, <1>3, <1>4, <1>5, <1>6, <1>7, <1>8, <1>9
       DEF RequestStep, AnswerDuplicate, AbortRequest, PlaceBet

\* Nothing but the rows of settlements, and the account, moves.
LEMMA ExposureFrame ==
  ASSUME ProposalInv, UNCHANGED <<req, proposals, proposalLock>>,
         \A r \in Requests : bet'[r] # "NONE" <=> bet[r] # "NONE",
         \A s \in Settlers : settler'[s].row # Nobody => Repeated \/ Within(settler'[s].row.exposure),
         account' # Nobody => Repeated \/ Within(account'.exposure)
  PROVE  ExposureChecked'
  <1>1. /\ \A p : RepeatedAfterRejection(p)' <=> RepeatedAfterRejection(p)
        /\ Repeated' <=> Repeated
    BY ProposalsFrame DEF ProposalInv
  <1>2. \A r \in Requests : Checked(r)'
    BY <1>1 DEF ProposalInv, ExposureChecked, Checked, At, Known, Stakeable
  <1>3. \A s \in Settlers : settler'[s].row # Nobody => Repeated' \/ Within(settler'[s].row.exposure)
    BY <1>1
  <1>4. RowExposureWithinLimit'
    BY <1>1 DEF RowExposureWithinLimit, Within, Repeated
  <1> QED BY <1>2, <1>3, <1>4 DEF ExposureChecked, Checked

LEMMA SettlerExposure ==
  ASSUME ProposalInv, NEW s \in Settlers, SettlerStep(s)
  PROVE  ExposureChecked'
  <1>1. /\ OnceInv /\ TypeInv /\ TypeOK /\ ExposureChecked /\ settler[s] \in SettlerStates
        /\ \A t \in Settlers : AfterRound(t).row = Nobody
    BY DEF ProposalInv, OnceInv, TypeInv, TypeOK, AfterRound, IdleSettler, Ended
  <1>2. account # Nobody => Repeated \/ Within(account.exposure)
    BY <1>1 DEF ExposureChecked, RowExposureWithinLimit, Within, Repeated
  <1>3. \A t \in Settlers : settler[t].row # Nobody => Repeated \/ Within(settler[t].row.exposure)
    BY <1>1 DEF ExposureChecked
  <1>4. /\ UNCHANGED <<req, proposals, proposalLock>>
        /\ \A r \in Requests : bet'[r] # "NONE" <=> bet[r] # "NONE"
    BY <1>1, SettlerLeavesRequests
  <1>5. CASE BeginSettlement(s) \/ MatchEvent(s) \/ CompleteEvent(s) \/ LoadBets(s) \/ NextBet(s) \/ LockBet(s)
    <2>1. UNCHANGED account
      BY <1>5 DEF BeginSettlement, MatchEvent, CompleteEvent, LoadBets, NextBet, LockBet, books
    <2>2. \A t \in Settlers : settler'[t].row = settler[t].row
      <3>1. CASE BeginSettlement(s)
        BY <1>1, <3>1 DEF BeginSettlement, TypeOK, SettlerStates
      <3>2. CASE MatchEvent(s)
        BY <1>1, <3>2 DEF MatchEvent, TypeOK, SettlerStates
      <3>3. CASE CompleteEvent(s)
        BY <1>1, <3>3 DEF CompleteEvent, TypeOK, SettlerStates
      <3>4. CASE LoadBets(s)
        BY <1>1, <3>4 DEF LoadBets, TypeOK, SettlerStates
      <3>5. CASE NextBet(s)
        BY <1>1, <3>5 DEF NextBet, TypeOK, SettlerStates
      <3>6. CASE LockBet(s)
        BY <1>1, <3>6 DEF LockBet, TypeOK, SettlerStates
      <3> QED BY <1>5, <3>1, <3>2, <3>3, <3>4, <3>5, <3>6
    <2> QED BY <1>2, <1>3, <1>4, <2>1, <2>2, ExposureFrame
  <1>6. CASE RollbackSettlement(s)
    <2>1. UNCHANGED account /\ settler' = [settler EXCEPT ![s] = AfterRound(s)]
      BY <1>6 DEF RollbackSettlement, EndSettlement, books
    <2>2. \A t \in Settlers : settler'[t].row \in {settler[t].row, Nobody}
      BY <1>1, <2>1 DEF TypeOK
    <2> QED BY <1>2, <1>3, <1>4, <2>1, <2>2, ExposureFrame
  <1>7. CASE SettleBet(s) /\ ~RollbackSettlement(s)
    <2> DEFINE r == settler[s].current
               verdict == Verdict(r, settler[s].result[Event[r]])
               row == SettledRow(LockedRow(s), r, verdict)
    <2>1. /\ UNCHANGED account /\ \A t \in Settlers \ {s} : settler'[t] = settler[t]
          /\ settler'[s].row = row
      BY <1>1, <1>7 DEF SettleBet, books, TypeOK, SettlerStates
    <2>2. r \in Requests /\ account # Nobody
      BY <1>1, <1>7 DEF SettleBet, TypeInv, SettlersKnowBets, KnowsBets, Settleable, AccountFirst
    <2>3. LockedRow(s) \in Rows /\ (Repeated \/ Within(LockedRow(s).exposure))
      BY <1>1, <1>2, <1>3, <2>2 DEF LockedRow, TypeOK, SettlerStates
    <2>4. row.exposure \in Nat /\ row.exposure <= LockedRow(s).exposure /\ LockedRow(s).exposure \in Nat
      BY <2>2, <2>3, BetData DEF SettledRow, Row, Rows, Released
    <2> HIDE DEF row
    <2>5. Repeated \/ Within(row.exposure)
      BY <2>3, <2>4, LessIsWithin
    <2> QED BY <1>2, <1>3, <1>4, <2>1, <2>5, ExposureFrame
  <1>8. CASE CommitSettlement(s)
    <2>1. account' = LockedRow(s) /\ settler' = [settler EXCEPT ![s] = AfterRound(s)]
      BY <1>8 DEF CommitSettlement, EndSettlement
    <2>2. account' # Nobody => Repeated \/ Within(account'.exposure)
      BY <1>2, <1>3, <2>1 DEF LockedRow
    <2>3. \A t \in Settlers : settler'[t].row \in {settler[t].row, Nobody}
      BY <1>1, <2>1 DEF TypeOK
    <2> QED BY <1>3, <1>4, <2>2, <2>3, ExposureFrame
  <1>9. CASE BreakDeadlock(s)
    <2>1. UNCHANGED account
      BY <1>9 DEF BreakDeadlock, books
    <2>2. \A t \in Settlers : settler'[t].row \in {settler[t].row, Nobody}
      <3>1. PICK o \in Settlers \ {s} :
              settler' = [settler EXCEPT ![s] = AfterRound(s),
                            ![o].at = IF @ = "complete" THEN "load" ELSE "settleBet"]
        BY <1>9 DEF BreakDeadlock
      <3> QED BY <1>1, <3>1 DEF TypeOK, SettlerStates
    <2> QED BY <1>2, <1>3, <1>4, <2>1, <2>2, ExposureFrame
  <1> QED BY <1>5, <1>6, <1>7, <1>8, <1>9 DEF SettlerStep, SettleBet

LEMMA ResetExposure ==
  ASSUME ProposalInv, NEW x \in Resetters, ResetStep(x)
  PROVE  ProposalsSerialised' /\ OneBetPerProposal' /\ ExposureChecked'
  <1>1. UNCHANGED <<req, proposals, proposalLock, bet, settler>>
    BY DEF ResetStep, ReadForReset, CreateForReset, WriteReset, books, locks
  <1>2. account # Nobody => Repeated \/ Within(account.exposure)
    BY DEF ProposalInv, ExposureChecked, RowExposureWithinLimit, Within, Repeated
  <1>3. account' # Nobody => Repeated \/ Within(account'.exposure)
    <2>1. CASE WriteReset(x)
      <3>1. account # Nobody \/ CreatesAccount(x)
        BY <2>1 DEF WriteReset, ProposalInv, OnceInv, TypeInv, ResettersKnowAccount, HasAccount, CreatesAccount
      <3>2. account'.exposure \in {account.exposure, NewAccount.exposure, 0}
            /\ (CreatesAccount(x) => account'.exposure \in {NewAccount.exposure, 0})
        BY <2>1 DEF WriteReset, Row
      <3> QED BY <1>2, <3>1, <3>2, NewAccountWithin
    <2>2. CASE ~WriteReset(x)
      BY <1>2, <2>2 DEF ResetStep, ReadForReset, CreateForReset, books
    <2> QED BY <2>1, <2>2
  <1>4. ExposureChecked'
    BY <1>1, <1>3, ExposureFrame DEF ProposalInv, ExposureChecked
  <1> QED BY <1>1, <1>4, ProposalsFrame DEF ProposalInv

LEMMA StepProposalInv == ProposalInv /\ [Next]_vars => ProposalInv'
  <1> SUFFICES ASSUME ProposalInv, [Next]_vars PROVE ProposalInv'
    OBVIOUS
  <1>1. OnceInv'
    BY StepOnceInv DEF ProposalInv
  <1>2. ASSUME NEW r \in Requests, RequestStep(r)
        PROVE  ProposalsSerialised' /\ OneBetPerProposal' /\ ExposureChecked'
    BY <1>2, RequestSerialised, RequestExposure DEF ProposalInv
  <1>3. ASSUME NEW s \in Settlers, SettlerStep(s)
        PROVE  ProposalsSerialised' /\ OneBetPerProposal' /\ ExposureChecked'
    BY <1>3, SettlerLeavesRequests, ProposalsFrame, SettlerExposure DEF ProposalInv
  <1>4. ASSUME UNCHANGED vars PROVE ProposalsSerialised' /\ OneBetPerProposal' /\ ExposureChecked'
    <2>1. UNCHANGED <<req, proposals, proposalLock, bet, settler, account>>
      BY <1>4 DEF vars, books, locks
    <2>2. account # Nobody => Repeated \/ Within(account.exposure)
      BY DEF ProposalInv, ExposureChecked, RowExposureWithinLimit, Within, Repeated
    <2>3. \A s \in Settlers : settler[s].row # Nobody => Repeated \/ Within(settler[s].row.exposure)
      BY DEF ProposalInv, ExposureChecked
    <2> QED BY <2>1, <2>2, <2>3, ProposalsFrame, ExposureFrame DEF ProposalInv
  <1> QED BY <1>1, <1>2, <1>3, <1>4, ResetExposure DEF Next, ProposalInv

LEMMA InitialProposalInv == Init => ProposalInv
  <1> SUFFICES ASSUME Init PROVE ProposalInv
    OBVIOUS
  <1>1. OnceInv
    BY InitialOnceInv
  <1>2. /\ \A r \in Requests : bet[r] = "NONE" /\ req[r].at = "start"
        /\ \A p \in Proposals : proposalLock[p] = Nobody
        /\ proposals = {}
        /\ \A s \in Settlers : settler[s].row = Nobody
    BY DEF Init, IdleRequest, IdleSettler, Ended
  <1>3. ProposalsSerialised /\ OneBetPerProposal
    BY <1>2 DEF ProposalsSerialised, OneBetPerProposal, At
  <1>4. account = Nobody \/ account = NewAccount
    BY DEF Init
  <1>5. RowExposureWithinLimit
    BY <1>4, NewAccountWithin DEF RowExposureWithinLimit, Within
  <1>6. ExposureChecked
    BY <1>2, <1>5 DEF ExposureChecked, At
  <1> QED BY <1>1, <1>3, <1>6 DEF ProposalInv

\* What concurrent requests of one proposal know of each other at every
\* statement of process_proposal.
THEOREM ProposalInvariant == Spec => []ProposalInv
  BY InitialProposalInv, StepProposalInv, PTL DEF Spec

\* A proposal repeated concurrently gets one bet at most, unless one of its
\* requests was rejected: the insert of the bet_proposals row serialises them.
THEOREM OneBetEach == Spec => []OneBetPerProposal
  <1>1. ProposalInv => OneBetPerProposal
    BY DEF ProposalInv
  <1> QED BY <1>1, ProposalInvariant, PTL

\* The exposure column stays within the limit of the exposure gate, though the
\* gate reads it without a lock, unless a proposal was repeated after a rejection.
THEOREM ExposureLimited == Spec => []RowExposureWithinLimit
  <1>1. ProposalInv => RowExposureWithinLimit
    BY DEF ProposalInv, ExposureChecked
  <1> QED BY <1>1, ProposalInvariant, PTL

-------------------------------------------------------------------------------
(***************************************************************************)
(* The account row and the ledger.  RowIsLedgerTail says nothing of what a *)
(* settlement transaction holds back until its commit: the row it will     *)
(* write shows the balance of the last outcome it will write.              *)
(***************************************************************************)
RowOfWork(s) ==
  IF Work(s) = <<>> THEN settler[s].row = Nobody
  ELSE settler[s].row # Nobody /\ Last(Work(s)).after = settler[s].row.balance

TailInv == OnceInv /\ (\A s \in Settlers : RowOfWork(s)) /\ RowIsLedgerTail

LEMMA LastAppended ==
  ASSUME NEW S, NEW q \in Seq(S), NEW e \in S
  PROVE  Append(q, e) # <<>> /\ Last(Append(q, e)) = e
  <1>1. Len(Append(q, e)) = Len(q) + 1 /\ Append(q, e)[Len(q) + 1] = e /\ Len(q) \in Nat
    BY AppendProperties, LenProperties
  <1>2. Append(q, e) # <<>>
    BY <1>1
  <1> QED BY <1>1, <1>2 DEF Last

LEMMA LastOfConcat ==
  ASSUME NEW S, NEW q \in Seq(S), NEW t \in Seq(S), t # <<>>
  PROVE  q \o t # <<>> /\ Last(q \o t) = Last(t)
  <1>1. /\ Len(q \o t) = Len(q) + Len(t) /\ Len(q) \in Nat /\ Len(t) \in Nat
        /\ \A i \in 1..Len(q) + Len(t) : (q \o t)[i] = IF i <= Len(q) THEN q[i] ELSE t[i - Len(q)]
    BY ConcatProperties, LenProperties
  <1>2. Len(t) > 0
    BY <1>1, EmptySeq
  <1>3. (q \o t)[Len(q) + Len(t)] = t[Len(t)]
    <2>1. Len(q) + Len(t) \in 1..Len(q) + Len(t) /\ ~(Len(q) + Len(t) <= Len(q))
      BY <1>1, <1>2
    <2>2. (Len(q) + Len(t)) - Len(q) = Len(t)
      BY <1>1
    <2> QED BY <1>1, <2>1, <2>2
  <1>4. q \o t # <<>>
    BY <1>1, <1>2
  <1> QED BY <1>1, <1>3, <1>4 DEF Last

LEMMA RequestTail ==
  ASSUME TailInv, NEW r \in Requests, RequestStep(r)
  PROVE  RowIsLedgerTail' /\ UNCHANGED settler
  <1>1. TypeInv /\ TypeOK /\ UNCHANGED settler
    BY RequestMoves DEF TailInv, OnceInv, TypeInv
  <1>2. LedgerOf(r) \in Seq(Entries)
    BY <1>1, LedgerOfType
  <1>3. CASE CommitWithoutBet(r)
    <2>1. CASE CreatesAccount(r)
      <3>1. ledger' = Append(<<>>, DepositEntry) /\ account' = NewAccount
        BY <1>3, <2>1 DEF CommitWithoutBet, LedgerOf, CreatesAccount, TailInv, RowIsLedgerTail
      <3>2. DepositEntry \in Entries /\ <<>> \in Seq(Entries) /\ DepositEntry.after = NewAccount.balance
        BY Limits DEF DepositEntry, Entry, Entries, EntryTypes, NewAccount, Row
      <3>3. NewAccount # Nobody
        BY Limits, TransactionsDistinct DEF NewAccount, Row
      <3>4. ledger' # <<>> /\ Last(ledger') = DepositEntry
        BY <3>1, <3>2, LastAppended
      <3> QED BY <1>1, <3>1, <3>2, <3>3, <3>4 DEF RowIsLedgerTail
    <2>2. CASE ~CreatesAccount(r)
      BY <1>1, <1>3, <2>2 DEF CommitWithoutBet, LedgerOf, TailInv, RowIsLedgerTail, Last
    <2> QED BY <2>1, <2>2
  <1>4. CASE PlaceBet(r) /\ ~Rollback(r, "failed")
    <2> DEFINE snap == req[r].snap
               e == Entry("BET_PLACED", r, -Stake[r], snap.balance - Stake[r])
    <2>1. /\ ~(Stake[r] > snap.balance) /\ ledger' = Append(LedgerOf(r), e)
          /\ account'.balance = snap.balance - Stake[r]
          /\ account' = Row(snap.balance - Stake[r], snap.exposure + Stake[r])
      BY <1>4 DEF PlaceBet, Row
    <2>2. snap \in Rows /\ Stake[r] \in Nat
      BY <1>1, <1>4, BetData DEF PlaceBet, At, TypeInv, RequestsKnowAccount, Running, TypeOK, RequestStates
    <2>3. e \in Entries /\ e.after = account'.balance
      BY <2>1, <2>2 DEF Entry, Entries, EntryTypes, Rows
    <2>4. account' # Nobody
      BY <2>1, <2>2, TransactionsDistinct DEF Row, Rows
    <2> HIDE DEF e
    <2>5. ledger' # <<>> /\ Last(ledger') = e
      BY <1>2, <2>1, <2>3, LastAppended
    <2> QED BY <1>1, <2>3, <2>4, <2>5 DEF RowIsLedgerTail
  <1>5. CASE UNCHANGED books
    BY <1>1, <1>5 DEF books, TailInv, RowIsLedgerTail, Last
  <1> QED BY <1>3, <1>4, <1>5
       DEF RequestStep, LoadAccount, CreateAccount, Validate, AnswerDuplicate, FindProposal,
           InsertProposal, EnterPlaceBet, PlaceBet, AbortRequest, Rollback

LEMMA SettlerTail ==
  ASSUME TailInv, NEW s \in Settlers, SettlerStep(s)
  PROVE  (\A t \in Settlers : RowOfWork(t)') /\ RowIsLedgerTail'
  <1>1. /\ OnceInv /\ TypeInv /\ TypeOK /\ settler[s] \in SettlerStates
        /\ RowIsLedgerTail /\ \A t \in Settlers : RowOfWork(t)
        /\ \A t \in Settlers : AfterRound(t).row = Nobody /\ AfterRound(t).work = <<>>
    BY DEF TailInv, OnceInv, TypeInv, TypeOK, AfterRound, IdleSettler, Ended
  <1>2. UNCHANGED books => RowIsLedgerTail'
    BY <1>1 DEF books, RowIsLedgerTail, Last
  <1>3. ASSUME NEW t \in Settlers,
               \/ settler'[t].row = settler[t].row /\ settler'[t].work = settler[t].work
               \/ settler'[t].row = Nobody /\ settler'[t].work = <<>>
        PROVE  RowOfWork(t)'
    BY <1>1, <1>3 DEF RowOfWork, Work
  <1>4. CASE BeginSettlement(s) \/ MatchEvent(s) \/ CompleteEvent(s) \/ LoadBets(s) \/ NextBet(s) \/ LockBet(s)
    <2>1. UNCHANGED books
      BY <1>4 DEF BeginSettlement, MatchEvent, CompleteEvent, LoadBets, NextBet, LockBet
    <2>2. \A t \in Settlers : settler'[t].row = settler[t].row /\ settler'[t].work = settler[t].work
      <3>1. CASE BeginSettlement(s)
        BY <1>1, <3>1 DEF BeginSettlement, TypeOK, SettlerStates
      <3>2. CASE MatchEvent(s)
        BY <1>1, <3>2 DEF MatchEvent, TypeOK, SettlerStates
      <3>3. CASE CompleteEvent(s)
        BY <1>1, <3>3 DEF CompleteEvent, TypeOK, SettlerStates
      <3>4. CASE LoadBets(s)
        BY <1>1, <3>4 DEF LoadBets, TypeOK, SettlerStates
      <3>5. CASE NextBet(s)
        BY <1>1, <3>5 DEF NextBet, TypeOK, SettlerStates
      <3>6. CASE LockBet(s)
        BY <1>1, <3>6 DEF LockBet, TypeOK, SettlerStates
      <3> QED BY <1>4, <3>1, <3>2, <3>3, <3>4, <3>5, <3>6
    <2> QED BY <1>2, <1>3, <2>1, <2>2
  <1>5. CASE RollbackSettlement(s)
    <2>1. \A t \in Settlers :
            \/ settler'[t].row = settler[t].row /\ settler'[t].work = settler[t].work
            \/ settler'[t].row = Nobody /\ settler'[t].work = <<>>
      BY <1>1, <1>5 DEF RollbackSettlement, EndSettlement, TypeOK
    <2> QED BY <1>2, <1>3, <1>5, <2>1 DEF RollbackSettlement
  <1>6. CASE SettleBet(s) /\ ~RollbackSettlement(s)
    <2> DEFINE r == settler[s].current
               verdict == Verdict(r, settler[s].result[Event[r]])
               row == SettledRow(LockedRow(s), r, verdict)
               item == [bet |-> r, status |-> verdict, after |-> row.balance]
    <2>1. /\ UNCHANGED books /\ \A t \in Settlers \ {s} : settler'[t] = settler[t]
          /\ settler'[s].row = row /\ settler'[s].work = Append(Work(s), item)
      BY <1>1, <1>6 DEF SettleBet, TypeOK, SettlerStates, Work
    <2>2. /\ r \in Requests /\ account # Nobody /\ Event[r] \in Events
          /\ settler[s].result \in [Events -> Results] /\ verdict # "SKIP"
      BY <1>1, <1>6 DEF SettleBet, TypeInv, SettlersKnowBets, KnowsBets, Settleable, AccountFirst,
                        Events, SettlerStates
    <2>3. LockedRow(s) \in Rows /\ verdict \in Closed
      <3>1. LockedRow(s) \in Rows
        BY <1>1, <2>2 DEF LockedRow, TypeOK, SettlerStates
      <3>2. verdict \in Closed \cup {"SKIP"}
        BY <2>2, VerdictType
      <3> QED BY <2>2, <3>1, <3>2
    <2> HIDE DEF verdict
    <2>4. row \in Rows
      BY <2>2, <2>3, SettledRowType
    <2>5. item \in WorkItems /\ item.after = row.balance /\ row # Nobody
      BY <2>2, <2>3, <2>4, TransactionsDistinct DEF WorkItems, Rows
    <2> HIDE DEF row, item
    <2>6. Work(s)' # <<>> /\ Last(Work(s)') = item
      BY <1>1, <2>1, <2>5, WorkType, LastAppended DEF Work
    <2>7. RowOfWork(s)'
      BY <2>1, <2>5, <2>6 DEF RowOfWork
    <2> QED BY <1>2, <1>3, <2>1, <2>7
  <1>7. CASE CommitSettlement(s)
    <2> DEFINE entries == [i \in DOMAIN Work(s) |-> OutcomeEntry(Work(s)[i])]
    <2>1. /\ account' = LockedRow(s) /\ ledger' = ledger \o entries
          /\ settler' = [settler EXCEPT ![s] = AfterRound(s)]
      BY <1>7 DEF CommitSettlement, EndSettlement, Work
    <2>2. Work(s) \in Seq(WorkItems) /\ \A i \in DOMAIN Work(s) : Work(s)[i] \in WorkItems
      BY <1>1, WorkType
    <2>3. /\ Len(Work(s)) \in Nat /\ DOMAIN Work(s) = 1..Len(Work(s)) /\ ledger \in Seq(Entries)
      BY <1>1, <2>2, LenProperties DEF TypeOK
    <2>4. \A i \in 1..Len(Work(s)) : /\ OutcomeEntry(Work(s)[i]) \in Entries
                                     /\ OutcomeEntry(Work(s)[i]).after = Work(s)[i].after
      BY <2>2, <2>3, BetData DEF OutcomeEntry, Entry, EntryType, Entries, EntryTypes, Credit, WorkItems, Closed
    <2>5. entries \in Seq(Entries) /\ Len(entries) = Len(Work(s))
          /\ \A i \in 1..Len(Work(s)) : entries[i] = OutcomeEntry(Work(s)[i])
      <3>1. entries \in [1..Len(Work(s)) -> Entries]
        BY <2>3, <2>4
      <3> QED BY <2>3, <3>1, SeqDef
    <2> HIDE DEF entries
    <2>6. RowIsLedgerTail'
      <3>1. CASE Work(s) = <<>>
        <4>1. LockedRow(s) = account
          BY <1>1, <3>1 DEF RowOfWork, LockedRow
        <4>2. entries = <<>>
          BY <2>5, <3>1, EmptySeq
        <4>3. ledger' = ledger
          BY <2>1, <2>3, <4>2, ConcatEmptySeq
        <4> QED BY <1>1, <2>1, <4>1, <4>3 DEF RowIsLedgerTail, Last
      <3>2. CASE Work(s) # <<>>
        <4>1. /\ settler[s].row # Nobody /\ account' = settler[s].row
              /\ Last(Work(s)).after = account'.balance
          BY <1>1, <2>1, <3>2 DEF RowOfWork, LockedRow
        <4>2. Len(Work(s)) > 0 /\ entries # <<>>
          BY <2>2, <2>3, <2>5, <3>2, EmptySeq
        <4>3. Last(entries).after = Last(Work(s)).after
          BY <2>3, <2>4, <2>5, <4>2 DEF Last
        <4>4. ledger' # <<>> /\ Last(ledger') = Last(entries)
          BY <2>1, <2>3, <2>5, <4>2, LastOfConcat
        <4> QED BY <4>1, <4>3, <4>4 DEF RowIsLedgerTail
      <3> QED BY <3>1, <3>2
    <2>7. \A t \in Settlers :
            \/ settler'[t].row = settler[t].row /\ settler'[t].work = settler[t].work
            \/ settler'[t].row = Nobody /\ settler'[t].work = <<>>
      BY <1>1, <2>1 DEF TypeOK
    <2> QED BY <1>3, <2>6, <2>7
  <1>8. CASE BreakDeadlock(s)
    <2>1. PICK o \in Settlers \ {s} :
            /\ settler' = [settler EXCEPT ![s] = AfterRound(s),
                             ![o].at = IF @ = "complete" THEN "load" ELSE "settleBet"]
            /\ UNCHANGED books
      BY <1>8 DEF BreakDeadlock
    <2>2. \A t \in Settlers :
            \/ settler'[t].row = settler[t].row /\ settler'[t].work = settler[t].work
            \/ settler'[t].row = Nobody /\ settler'[t].work = <<>>
      BY <1>1, <2>1 DEF TypeOK, SettlerStates
    <2> QED BY <1>2, <1>3, <2>1, <2>2
  <1> QED BY <1>4, <1>5, <1>6, <1>7, <1>8 DEF SettlerStep, SettleBet

\* Without resets the account row shows the balance_after of the newest entry
\* of the ledger, although requests overwrite it from stale values: place_bet
\* and settle_bet write the row and the entry together, whoever holds its lock.
THEOREM RowShowsLedger ==
  ASSUME Resetters = {}
  PROVE  Spec => []RowIsLedgerTail
  <1>1. Init => TailInv
    <2> SUFFICES ASSUME Init PROVE TailInv
      OBVIOUS
    <2>1. \A s \in Settlers : RowOfWork(s)
      BY DEF Init, RowOfWork, Work, IdleSettler, Ended
    <2>2. RowIsLedgerTail
      <3>1. NewAccount # Nobody /\ DepositEntry.after = NewAccount.balance
        BY Limits, TransactionsDistinct DEF NewAccount, Row, DepositEntry, Entry
      <3>2. <<DepositEntry>> # <<>> /\ Last(<<DepositEntry>>) = DepositEntry
        BY DEF Last
      <3> QED BY <3>1, <3>2 DEF Init, RowIsLedgerTail
    <2> QED BY <2>1, <2>2, InitialOnceInv DEF TailInv
  <1>2. TailInv /\ [Next]_vars => TailInv'
    <2> SUFFICES ASSUME TailInv, [Next]_vars PROVE TailInv'
      OBVIOUS
    <2>1. OnceInv'
      BY StepOnceInv DEF TailInv
    <2>2. CASE UNCHANGED vars
      BY <2>1, <2>2 DEF vars, books, TailInv, RowOfWork, Work, RowIsLedgerTail, Last
    <2>3. ASSUME NEW r \in Requests, RequestStep(r) PROVE TailInv'
      BY <2>1, <2>3, RequestTail DEF TailInv, RowOfWork, Work, Last
    <2>4. ASSUME NEW s \in Settlers, SettlerStep(s) PROVE TailInv'
      BY <2>1, <2>4, SettlerTail DEF TailInv
    <2> QED BY <2>2, <2>3, <2>4 DEF Next
  <1>3. TailInv => RowIsLedgerTail
    BY DEF TailInv
  <1> QED BY <1>1, <1>2, <1>3, PTL DEF Spec

-------------------------------------------------------------------------------
(***************************************************************************)
(* The books implement BetJournal: the entries of the ledger, without the  *)
(* amounts, tell the story of every bet.                                   *)
(***************************************************************************)
Noted(e) == <<e.type, IF e.bet = Nobody THEN "NONE" ELSE e.bet>>
JournalOf(l) == [i \in DOMAIN l |-> Noted(l[i])]
Notes == EntryTypes \X (Requests \cup {Nobody, "NONE"})

\* A settlement transaction has a row of the account once it has an outcome.
RowWithWork(s) == Work(s) = <<>> <=> settler[s].row = Nobody

JournalInv ==
  /\ OnceInv
  /\ \A s \in Settlers : RowWithWork(s)
  /\ account = Nobody <=> ledger = <<>>

LEMMA NotedType ==
  ASSUME NEW e \in Entries
  PROVE  Noted(e) \in Notes
  BY DEF Noted, Notes, Entries

LEMMA JournalOfIs ==
  ASSUME NEW l \in Seq(Entries)
  PROVE  /\ JournalOf(l) \in Seq(Notes) /\ Len(JournalOf(l)) = Len(l) /\ Len(l) \in Nat
         /\ \A i \in 1..Len(l) : JournalOf(l)[i] = Noted(l[i])
         /\ JournalOf(l) = <<>> <=> l = <<>>
  <1>1. DOMAIN l = 1..Len(l) /\ Len(l) \in Nat /\ \A i \in 1..Len(l) : l[i] \in Entries
    BY LenProperties, ElementOfSeq
  <1>2. JournalOf(l) \in [1..Len(l) -> Notes]
    BY <1>1, NotedType DEF JournalOf
  <1>3. JournalOf(l) \in Seq(Notes) /\ Len(JournalOf(l)) = Len(l)
    BY <1>1, <1>2, SeqDef
  <1> QED BY <1>1, <1>3, EmptySeq DEF JournalOf

LEMMA JournalOfAppend ==
  ASSUME NEW l \in Seq(Entries), NEW e \in Entries
  PROVE  JournalOf(Append(l, e)) = Append(JournalOf(l), Noted(e))
  <1> DEFINE a == Append(l, e)
             j == Append(JournalOf(l), Noted(e))
  <1>1. /\ a \in Seq(Entries) /\ Len(a) = Len(l) + 1 /\ a[Len(l) + 1] = e
        /\ \A i \in 1..Len(l) : a[i] = l[i]
    BY AppendProperties
  <1>2. /\ JournalOf(l) \in Seq(Notes) /\ Len(JournalOf(l)) = Len(l) /\ Len(l) \in Nat
        /\ \A i \in 1..Len(l) : JournalOf(l)[i] = Noted(l[i])
    BY JournalOfIs
  <1>3. /\ j \in Seq(Notes) /\ Len(j) = Len(l) + 1 /\ j[Len(l) + 1] = Noted(e)
        /\ \A i \in 1..Len(l) : j[i] = Noted(l[i])
    BY <1>2, NotedType, AppendProperties
  <1> HIDE DEF a, j
  <1>4. /\ JournalOf(a) \in Seq(Notes) /\ Len(JournalOf(a)) = Len(a)
        /\ \A i \in 1..Len(a) : JournalOf(a)[i] = Noted(a[i])
    BY <1>1, JournalOfIs
  <1>5. \A i \in 1..Len(l) + 1 : JournalOf(a)[i] = j[i]
    <2>1. \A i \in 1..Len(l) + 1 : i \in 1..Len(l) \/ i = Len(l) + 1
      BY <1>2
    <2> QED BY <1>1, <1>3, <1>4, <2>1
  <1>6. JournalOf(a) = j
    BY <1>1, <1>3, <1>4, <1>5, SeqEqual
  <1> QED BY <1>6 DEF a, j

LEMMA JournalOfConcat ==
  ASSUME NEW l \in Seq(Entries), NEW m \in Seq(Entries)
  PROVE  JournalOf(l \o m) = JournalOf(l) \o JournalOf(m)
  <1> DEFINE a == l \o m
             j == JournalOf(l) \o JournalOf(m)
  <1>1. /\ a \in Seq(Entries) /\ Len(a) = Len(l) + Len(m)
        /\ \A i \in 1..Len(l) + Len(m) : a[i] = IF i <= Len(l) THEN l[i] ELSE m[i - Len(l)]
    BY ConcatProperties
  <1>2. /\ JournalOf(l) \in Seq(Notes) /\ Len(JournalOf(l)) = Len(l) /\ Len(l) \in Nat
        /\ \A i \in 1..Len(l) : JournalOf(l)[i] = Noted(l[i])
        /\ JournalOf(m) \in Seq(Notes) /\ Len(JournalOf(m)) = Len(m) /\ Len(m) \in Nat
        /\ \A i \in 1..Len(m) : JournalOf(m)[i] = Noted(m[i])
    BY JournalOfIs
  <1>3. /\ j \in Seq(Notes) /\ Len(j) = Len(JournalOf(l)) + Len(JournalOf(m))
        /\ \A i \in 1..Len(JournalOf(l)) + Len(JournalOf(m)) :
             j[i] = IF i <= Len(JournalOf(l)) THEN JournalOf(l)[i]
                    ELSE JournalOf(m)[i - Len(JournalOf(l))]
    <2> DEFINE u == JournalOf(l)
               w == JournalOf(m)
    <2>1. u \in Seq(Notes) /\ w \in Seq(Notes)
      BY <1>2
    <2> HIDE DEF u, w
    <2>2. /\ u \o w \in Seq(Notes) /\ Len(u \o w) = Len(u) + Len(w)
          /\ \A i \in 1..Len(u) + Len(w) : (u \o w)[i] = IF i <= Len(u) THEN u[i] ELSE w[i - Len(u)]
      BY <2>1, ConcatProperties
    <2> QED BY <2>2 DEF u, w
  <1> HIDE DEF a, j
  <1>4. /\ JournalOf(a) \in Seq(Notes) /\ Len(JournalOf(a)) = Len(a)
        /\ \A i \in 1..Len(a) : JournalOf(a)[i] = Noted(a[i])
    BY <1>1, JournalOfIs
  <1>5. ASSUME NEW i \in 1..Len(l) + Len(m) PROVE JournalOf(a)[i] = j[i]
    <2>1. CASE i <= Len(l)
      <3>1. i \in 1..Len(l) /\ a[i] = l[i]
        BY <1>1, <1>2, <2>1
      <3>2. j[i] = JournalOf(l)[i]
        BY <1>2, <1>3, <2>1
      <3> QED BY <1>1, <1>2, <1>4, <3>1, <3>2
    <2>2. CASE i > Len(l)
      <3>1. i - Len(l) \in 1..Len(m) /\ ~(i <= Len(l))
        BY <1>2, <2>2
      <3>2. j[i] = JournalOf(m)[i - Len(l)]
        BY <1>2, <1>3, <3>1
      <3> QED BY <1>1, <1>2, <1>4, <3>1, <3>2
    <2>3. i <= Len(l) \/ i > Len(l)
      BY <1>2
    <2> QED BY <2>1, <2>2, <2>3
  <1>6. JournalOf(a) = j
    BY <1>1, <1>2, <1>3, <1>4, <1>5, SeqEqual
  <1> QED BY <1>6 DEF a, j

\* The journal as BetJournal reads it.
LEMMA JournalIs ==
  [i \in DOMAIN ledger |-> <<ledger[i].type, IF ledger[i].bet = Nobody THEN "NONE" ELSE ledger[i].bet>>]
    = JournalOf(ledger)
  BY DEF JournalOf, Noted

\* An entry of another type, with the deposit before the first one.
LEMMA LedgerOfIs ==
  ASSUME JournalInv, NEW t, HasAccount(t)
  PROVE  /\ LedgerOf(t) \in Seq(Entries)
         /\ JournalOf(LedgerOf(t)) = Journal!Deposit(JournalOf(ledger))
  <1>1. TypeOK /\ ledger \in Seq(Entries)
    BY DEF JournalInv, OnceInv, TypeInv, TypeOK
  <1>2. DepositEntry \in Entries /\ Noted(DepositEntry) = <<"INITIAL_DEPOSIT", "NONE">>
    BY Limits DEF DepositEntry, Entry, Entries, EntryTypes, Noted
  <1>3. JournalOf(ledger) = <<>> <=> ledger = <<>>
    BY <1>1, JournalOfIs
  <1>4. CASE account = Nobody
    <2>1. ledger = <<>> /\ LedgerOf(t) = Append(ledger, DepositEntry) /\ JournalOf(ledger) = <<>>
      BY <1>3, <1>4 DEF JournalInv, LedgerOf, CreatesAccount, HasAccount
    <2>2. JournalOf(LedgerOf(t)) = Append(<<>>, <<"INITIAL_DEPOSIT", "NONE">>)
      BY <1>1, <1>2, <2>1, JournalOfAppend
    <2>3. Append(<<>>, <<"INITIAL_DEPOSIT", "NONE">>) = <<<<"INITIAL_DEPOSIT", "NONE">>>>
      OBVIOUS
    <2> QED BY <1>1, <1>2, <2>1, <2>2, <2>3, LedgerOfType DEF Journal!Deposit, Journal!Unplaced
  <1>5. CASE account # Nobody
    <2>1. LedgerOf(t) = ledger /\ JournalOf(ledger) # <<>>
      BY <1>3, <1>5 DEF JournalInv, LedgerOf, CreatesAccount
    <2> QED BY <1>1, <2>1 DEF Journal!Deposit
  <1> QED BY <1>4, <1>5

\* A step of the books is one of BetJournal, or leaves it alone.
JournalStep ==
  /\ account' = Nobody <=> ledger' = <<>>
  /\ Journal!JNext \/ UNCHANGED <<bet, JournalOf(ledger)>>

\* An entry that is appended to the ledger, behind the deposit if there is none.
LEMMA JournalGrows ==
  ASSUME JournalInv, NEW t, HasAccount(t), NEW e \in Entries, ledger' = Append(LedgerOf(t), e)
  PROVE  /\ JournalOf(ledger)' = Append(Journal!Deposit(JournalOf(ledger)), Noted(e))
         /\ ledger' # <<>>
  <1>1. LedgerOf(t) \in Seq(Entries) /\ JournalOf(LedgerOf(t)) = Journal!Deposit(JournalOf(ledger))
    BY LedgerOfIs
  <1>2. JournalOf(ledger') = Append(JournalOf(LedgerOf(t)), Noted(e)) /\ ledger' # <<>>
    BY <1>1, JournalOfAppend, AppendProperties
  <1>3. JournalOf(ledger)' = JournalOf(ledger')
    BY DEF JournalOf, Noted
  <1> QED BY <1>1, <1>2, <1>3

LEMMA RequestJournal ==
  ASSUME JournalInv, NEW r \in Requests, RequestStep(r)
  PROVE  JournalStep
  <1>1. OnceInv /\ TypeInv /\ TypeOK /\ ledger \in Seq(Entries)
    BY DEF JournalInv, OnceInv, TypeInv, TypeOK
  <1>2. NewAccount # Nobody
    BY Limits, TransactionsDistinct DEF NewAccount, Row
  <1>3. CASE UNCHANGED books
    BY <1>3 DEF books, JournalStep, JournalInv, JournalOf, Noted
  <1>4. CASE CommitWithoutBet(r)
    <2>1. HasAccount(r)
      BY <1>1, <1>4 DEF CommitWithoutBet, At, TypeInv, RequestsKnowAccount, Running
    <2>2. /\ LedgerOf(r) \in Seq(Entries) /\ ledger' = LedgerOf(r) /\ UNCHANGED bet
          /\ JournalOf(LedgerOf(r)) = Journal!Deposit(JournalOf(ledger))
      BY <1>4, <2>1, LedgerOfIs DEF CommitWithoutBet
    <2>3. JournalOf(ledger)' = Journal!Deposit(JournalOf(ledger))
      BY <2>2 DEF JournalOf, Noted
    <2>4. JournalOf(ledger) = <<>> <=> ledger = <<>>
      BY <1>1, JournalOfIs
    <2>5. CASE account = Nobody
      <3>1. account' = NewAccount /\ ledger = <<>> /\ ledger' = Append(ledger, DepositEntry)
        BY <1>4, <2>1, <2>5 DEF CommitWithoutBet, CreatesAccount, HasAccount, LedgerOf, JournalInv
      <3>2. ledger' # <<>>
        BY <3>1
      <3>3. Journal!OpenAccount
        BY <2>2, <2>3, <2>4, <3>1, JournalIs DEF Journal!OpenAccount, JournalOf, Noted
      <3> QED BY <1>2, <3>1, <3>2, <3>3 DEF JournalStep, Journal!JNext
    <2>6. CASE account # Nobody
      <3>1. account' = account /\ ledger' = ledger
        BY <1>4, <2>6 DEF CommitWithoutBet, CreatesAccount, LedgerOf
      <3> QED BY <2>2, <3>1 DEF JournalStep, JournalInv, JournalOf, Noted
    <2> QED BY <2>5, <2>6
  <1>5. CASE PlaceBet(r) /\ ~Rollback(r, "failed")
    <2> DEFINE snap == req[r].snap
               e == Entry("BET_PLACED", r, -Stake[r], snap.balance - Stake[r])
    <2>1. /\ ~(Stake[r] > snap.balance) /\ ledger' = Append(LedgerOf(r), e)
          /\ account' = Row(snap.balance - Stake[r], snap.exposure + Stake[r])
          /\ bet' = [bet EXCEPT ![r] = "PENDING"]
      BY <1>5 DEF PlaceBet, Row
    <2>2. snap \in Rows /\ Stake[r] \in Nat /\ HasAccount(r) /\ bet[r] = "NONE"
      BY <1>1, <1>5, BetData DEF PlaceBet, At, TypeInv, RequestsKnowAccount, Running, TypeOK,
                                 RequestStates, OnceInv, BetsOfPlaced
    <2>3. e \in Entries /\ Noted(e) = <<"BET_PLACED", r>>
      BY <2>1, <2>2, TransactionsDistinct DEF Entry, Entries, EntryTypes, Rows, Noted
    <2>4. account' # Nobody
      BY <2>1, <2>2, TransactionsDistinct DEF Row, Rows
    <2> HIDE DEF e
    <2>5. /\ JournalOf(ledger)' = Append(Journal!Deposit(JournalOf(ledger)), <<"BET_PLACED", r>>)
          /\ ledger' # <<>>
      BY <2>1, <2>2, <2>3, JournalGrows
    <2>6. Journal!Place(r)
      BY <2>1, <2>2, <2>5, JournalIs
      DEF Journal!Place, Journal!Unplaced, Journal!Open, JournalOf, Noted
    <2> QED BY <2>4, <2>5, <2>6 DEF JournalStep, Journal!JNext
  <1> QED BY <1>3, <1>4, <1>5
       DEF RequestStep, LoadAccount, CreateAccount, Validate, AnswerDuplicate, FindProposal,
           InsertProposal, EnterPlaceBet, PlaceBet, AbortRequest, Rollback

LEMMA ResetJournal ==
  ASSUME JournalInv, NEW x \in Resetters, ResetStep(x)
  PROVE  JournalStep
  <1>1. TypeInv /\ TypeOK
    BY DEF JournalInv, OnceInv, TypeInv
  <1>2. CASE UNCHANGED books
    BY <1>2 DEF books, JournalStep, JournalInv, JournalOf, Noted
  <1>3. CASE WriteReset(x)
    <2> DEFINE snap == resetter[x].snap
               e == Entry("SIMULATION_RESET", Nobody, InitialBalance - snap.balance, InitialBalance)
    <2>1. snap \in Rows /\ HasAccount(x)
      BY <1>1, <1>3 DEF WriteReset, TypeInv, ResettersKnowAccount, TypeOK, ResetterStates
    <2>2. e \in Entries /\ Noted(e) = <<"SIMULATION_RESET", "NONE">>
      BY <2>1, Limits DEF Entry, Entries, EntryTypes, Rows, Noted
    <2>3. ledger' = Append(LedgerOf(x), e) /\ UNCHANGED bet
      BY <1>3 DEF WriteReset
    <2>4. account' # Nobody
      <3>1. account' \in Rows
        <4>1. CASE CreatesAccount(x)
          BY <1>3, <4>1, Limits DEF WriteReset, Row, Rows, NewAccount
        <4>2. CASE ~CreatesAccount(x)
          <5>1. account \in Rows
            BY <1>1, <2>1, <4>2 DEF TypeOK, HasAccount, CreatesAccount
          <5> QED BY <1>3, <4>2, <5>1, Limits DEF WriteReset, Row, Rows
        <4> QED BY <4>1, <4>2
      <3> QED BY <3>1, TransactionsDistinct DEF Rows
    <2> HIDE DEF e
    <2>5. /\ JournalOf(ledger)' = Append(Journal!Deposit(JournalOf(ledger)), <<"SIMULATION_RESET", "NONE">>)
          /\ ledger' # <<>>
      BY <2>1, <2>2, <2>3, JournalGrows
    <2>6. Journal!Reset
      BY <2>3, <2>5, JournalIs DEF Journal!Reset, Journal!Unplaced, JournalOf, Noted
    <2> QED BY <2>4, <2>5, <2>6 DEF JournalStep, Journal!JNext
  <1> QED BY <1>2, <1>3 DEF ResetStep, ReadForReset, CreateForReset

\* The bets of a sequence of outcomes, each once, are an order of their set.
LEMMA OrderOfWork ==
  ASSUME NEW w \in Seq(WorkItems), \A i, j \in DOMAIN w : i # j => w[i].bet # w[j].bet
  PROVE  [i \in DOMAIN w |-> w[i].bet] \in Journal!SetToSeqs({w[i].bet : i \in DOMAIN w})
  <1> DEFINE order == [i \in DOMAIN w |-> w[i].bet]
             closing == {w[i].bet : i \in DOMAIN w}
             n == Len(w)
  <1>1. n \in Nat /\ DOMAIN w = 1..n
    BY LenProperties
  <1>2. order \in [1..n -> closing] /\ \A i, j \in 1..n : i # j => order[i] # order[j]
    BY <1>1
  <1>3. \A b \in closing : \E i \in 1..n : order[i] = b
    BY <1>1
  <1> HIDE DEF order, closing
  <1>4. order \in Bijection(1..n, closing)
    BY <1>2, <1>3 DEF Bijection, Injection, Surjection, IsInjective
  <1>5. Cardinality(closing) = n
    BY <1>1, <1>4, FS_CountingElements DEF ExistsBijection
  <1>6. Journal!Cardinality(closing) = Cardinality(closing)
    BY DEF Cardinality, Journal!Cardinality
  <1>7. order \in Journal!SetToSeqs(closing)
    BY <1>2, <1>5, <1>6 DEF Journal!SetToSeqs
  <1> QED BY <1>7 DEF order, closing

LEMMA CommitJournal ==
  ASSUME JournalInv, NEW s \in Settlers, CommitSettlement(s)
  PROVE  JournalStep
  <1> DEFINE w == Work(s)
             n == Len(w)
             entries == [i \in DOMAIN w |-> OutcomeEntry(w[i])]
             order == [i \in DOMAIN w |-> w[i].bet]
             closing == {w[i].bet : i \in DOMAIN w}
             verdict == [b \in closing |-> w[CHOOSE i \in DOMAIN w : w[i].bet = b].status]
  <1>1. /\ OnceInv /\ TypeInv /\ TypeOK /\ HoldsWork(s) /\ ledger \in Seq(Entries)
        /\ settler[s] \in SettlerStates
    BY DEF JournalInv, OnceInv, TypeInv, TypeOK
  <1>2. /\ w \in Seq(WorkItems) /\ n \in Nat /\ DOMAIN w = 1..n
        /\ \A i \in 1..n : w[i] \in WorkItems
    BY <1>1, WorkType, LenProperties
  <1>3. /\ \A i \in 1..n : bet[w[i].bet] = "PENDING"
        /\ \A i, j \in 1..n : i # j => w[i].bet # w[j].bet
    BY <1>1, <1>2 DEF HoldsWork
  <1>4. /\ ledger' = ledger \o entries
        /\ account' = LockedRow(s)
        /\ bet' = [r \in Requests |-> LET d == {i \in DOMAIN w : w[i].bet = r}
                                      IN  IF d = {} THEN bet[r] ELSE w[CHOOSE i \in d : TRUE].status]
    BY DEF CommitSettlement, Work
  <1>5. \A i \in 1..n : /\ OutcomeEntry(w[i]) \in Entries
                        /\ Noted(OutcomeEntry(w[i])) = <<Journal!EntryOf[w[i].status], w[i].bet>>
    <2> SUFFICES ASSUME NEW i \in 1..n
                 PROVE  /\ OutcomeEntry(w[i]) \in Entries
                        /\ Noted(OutcomeEntry(w[i])) = <<Journal!EntryOf[w[i].status], w[i].bet>>
      OBVIOUS
    <2>1. /\ w[i].bet \in Requests /\ w[i].bet # Nobody /\ w[i].status \in Closed /\ w[i].after \in Nat
          /\ Credit(w[i].bet, w[i].status) \in Nat
      BY <1>2, BetData, TransactionsDistinct DEF WorkItems, Credit, Closed
    <2>2. EntryType[w[i].status] = Journal!EntryOf[w[i].status] /\ EntryType[w[i].status] \in EntryTypes
      BY <2>1 DEF EntryType, Journal!EntryOf, Closed, EntryTypes
    <2> HIDE DEF w
    <2> QED BY <2>1, <2>2 DEF OutcomeEntry, Entry, Entries, Noted
  <1>6. /\ entries \in Seq(Entries) /\ Len(entries) = n
        /\ \A i \in 1..n : entries[i] = OutcomeEntry(w[i])
    <2>1. entries \in [1..n -> Entries]
      BY <1>2, <1>5
    <2> QED BY <1>2, <2>1, SeqDef
  <1>7. CASE w = <<>>
    <2>1. LockedRow(s) = account
      BY <1>7 DEF LockedRow, JournalInv, RowWithWork
    <2>2. n = 0 /\ entries = <<>>
      BY <1>2, <1>6, <1>7, EmptySeq
    <2>3. ledger' = ledger
      BY <1>1, <1>4, <2>2, ConcatEmptySeq
    <2>4. bet' = bet
      <3>1. \A r \in Requests : {i \in DOMAIN w : w[i].bet = r} = {}
        BY <1>2, <2>2
      <3>2. bet' = [r \in Requests |-> bet[r]]
        BY <1>4, <3>1
      <3> QED BY <1>1, <3>2 DEF TypeOK
    <2> QED BY <1>4, <2>1, <2>3, <2>4 DEF JournalStep, JournalInv, JournalOf, Noted
  <1>8. CASE w # <<>>
    <2>1. n > 0
      BY <1>2, <1>8, EmptySeq
    <2>2. account' # Nobody
      <3>1. settler[s].row # Nobody
        BY <1>8 DEF JournalInv, RowWithWork
      <3> QED BY <1>4, <3>1 DEF LockedRow
    <2>3. ledger' # <<>>
      <3> HIDE DEF entries
      <3>1. entries # <<>>
        BY <1>6, <2>1, EmptySeq
      <3> QED BY <1>1, <1>4, <1>6, <3>1, LastOfConcat
    <2>4. /\ closing \in SUBSET Requests /\ closing # {}
          /\ \A b \in closing : bet[b] = "PENDING"
      <3>1. \A i \in 1..n : w[i].bet \in Requests
        BY <1>2 DEF WorkItems
      <3>2. 1 \in 1..n
        BY <1>2, <2>1
      <3> QED BY <1>2, <1>3, <3>1, <3>2
    <2>5. \A i \in 1..n : verdict[w[i].bet] = w[i].status
      <3> SUFFICES ASSUME NEW i \in 1..n PROVE verdict[w[i].bet] = w[i].status
        OBVIOUS
      <3> DEFINE k == CHOOSE j \in DOMAIN w : w[j].bet = w[i].bet
      <3>1. k \in 1..n /\ w[k].bet = w[i].bet
        BY <1>2
      <3> HIDE DEF k
      <3>2. k = i
        BY <1>3, <3>1
      <3> QED BY <1>2, <3>2 DEF k
    <2>6. verdict \in [closing -> Journal!Closed]
      <3>1. \A b \in closing : \E i \in 1..n : b = w[i].bet
        BY <1>2
      <3>2. \A b \in closing : verdict[b] \in Closed
        BY <1>2, <2>5, <3>1 DEF WorkItems
      <3> QED BY <3>2 DEF Closed, Journal!Closed
    <2>7. bet' = [b \in Requests |-> IF b \in closing THEN verdict[b] ELSE bet[b]]
      <3> DEFINE d(r) == {i \in DOMAIN w : w[i].bet = r}
      <3>1. ASSUME NEW r \in Requests
            PROVE  (IF d(r) = {} THEN bet[r] ELSE w[CHOOSE i \in d(r) : TRUE].status)
                   = (IF r \in closing THEN verdict[r] ELSE bet[r])
        <4>1. CASE d(r) = {}
          BY <4>1
        <4>2. CASE d(r) # {}
          <5> DEFINE k == CHOOSE i \in d(r) : TRUE
          <5>1. k \in d(r)
            BY <4>2
          <5> HIDE DEF k
          <5>2. k \in 1..n /\ w[k].bet = r /\ r \in closing
            BY <1>2, <5>1
          <5>3. verdict[r] = w[k].status
            BY <2>5, <5>2
          <5> QED BY <4>2, <5>2, <5>3 DEF k
        <4> QED BY <4>1, <4>2
      <3> QED BY <1>4, <3>1
    <2>8. order \in Journal!SetToSeqs(closing)
      BY <1>2, <1>3, OrderOfWork
    <2>9. Len(order) = n /\ \A i \in 1..n : order[i] = w[i].bet
      BY <1>2
    <2>10. JournalOf(entries) = [i \in 1 .. Len(order) |-> <<Journal!EntryOf[verdict[order[i]]], order[i]>>]
      <3>1. DOMAIN entries = 1..n
        BY <1>2
      <3> HIDE DEF entries, order, verdict, closing
      <3>2. \A i \in 1..n : Noted(entries[i]) = <<Journal!EntryOf[verdict[order[i]]], order[i]>>
        BY <1>5, <1>6, <2>5, <2>9
      <3> QED BY <2>9, <3>1, <3>2 DEF JournalOf
    <2>11. JournalOf(ledger)' = JournalOf(ledger) \o JournalOf(entries)
      <3> HIDE DEF entries
      <3>1. JournalOf(ledger') = JournalOf(ledger) \o JournalOf(entries)
        BY <1>1, <1>4, <1>6, JournalOfConcat
      <3> QED BY <3>1 DEF JournalOf, Noted
    <2> HIDE DEF entries, order, closing, verdict
    <2>12. PICK c, v : c = closing /\ v = verdict
      OBVIOUS
    <2>13. \E o \in Journal!SetToSeqs(c) :
             JournalOf(ledger)' = JournalOf(ledger) \o
               [i \in 1 .. Len(o) |-> <<Journal!EntryOf[v[o[i]]], o[i]>>]
      BY <2>8, <2>10, <2>11, <2>12
    <2>14. /\ c \in SUBSET Requests /\ c # {} /\ v \in [c -> Journal!Closed]
           /\ \A b \in c : bet[b] = "PENDING"
           /\ bet' = [b \in Requests |-> IF b \in c THEN v[b] ELSE bet[b]]
      BY <2>4, <2>6, <2>7, <2>12
    <2>15. Journal!Settle(c, v)
      <3>1. JournalOf(ledger)' =
              [i \in DOMAIN ledger' |-> <<ledger'[i].type, IF ledger'[i].bet = Nobody THEN "NONE"
                                                           ELSE ledger'[i].bet>>]
        BY DEF JournalOf, Noted
      <3>2. \E o \in Journal!SetToSeqs(c) :
              [i \in DOMAIN ledger' |-> <<ledger'[i].type, IF ledger'[i].bet = Nobody THEN "NONE"
                                                           ELSE ledger'[i].bet>>]
              = [i \in DOMAIN ledger |-> <<ledger[i].type, IF ledger[i].bet = Nobody THEN "NONE"
                                                           ELSE ledger[i].bet>>]
                \o [i \in 1 .. Len(o) |-> <<Journal!EntryOf[v[o[i]]], o[i]>>]
        BY <2>13, <3>1, JournalIs, Zenon
      <3> QED BY <2>14, <3>2 DEF Journal!Settle, Journal!Open
    <2> QED BY <2>2, <2>3, <2>14, <2>15 DEF JournalStep, Journal!JNext
  <1> QED BY <1>7, <1>8

\* The other steps of a settlement leave the books alone.
LEMMA SettlerJournal ==
  ASSUME JournalInv, NEW s \in Settlers, SettlerStep(s)
  PROVE  JournalStep
  <1>1. CASE UNCHANGED books
    BY <1>1 DEF books, JournalStep, JournalInv, JournalOf, Noted
  <1>2. CASE CommitSettlement(s)
    BY <1>2, CommitJournal
  <1>3. CASE BreakDeadlock(s)
    <2>1. UNCHANGED books
      BY <1>3 DEF BreakDeadlock
    <2> QED BY <1>1, <2>1
  <1> QED BY <1>1, <1>2, <1>3
       DEF SettlerStep, BeginSettlement, MatchEvent, CompleteEvent, LoadBets, NextBet, LockBet,
           SettleBet, RollbackSettlement

LEMMA SettlerRow ==
  ASSUME JournalInv, NEW s \in Settlers, SettlerStep(s), NEW t \in Settlers
  PROVE  RowWithWork(t)'
  <1>1. /\ OnceInv /\ TypeInv /\ TypeOK /\ settler[s] \in SettlerStates
        /\ \A u \in Settlers : RowWithWork(u)
        /\ \A u \in Settlers : AfterRound(u).row = Nobody /\ AfterRound(u).work = <<>>
    BY DEF JournalInv, OnceInv, TypeInv, TypeOK, AfterRound, IdleSettler, Ended
  <1>2. CASE \/ settler'[t].row = settler[t].row /\ settler'[t].work = settler[t].work
             \/ settler'[t].row = Nobody /\ settler'[t].work = <<>>
    BY <1>1, <1>2 DEF RowWithWork, Work
  <1>3. CASE SettleBet(s) /\ ~RollbackSettlement(s)
    <2> DEFINE r == settler[s].current
               verdict == Verdict(r, settler[s].result[Event[r]])
               row == SettledRow(LockedRow(s), r, verdict)
               item == [bet |-> r, status |-> verdict, after |-> row.balance]
    <2>1. /\ \A u \in Settlers \ {s} : settler'[u] = settler[u]
          /\ settler'[s].row = row /\ settler'[s].work = Append(Work(s), item)
      BY <1>1, <1>3 DEF SettleBet, TypeOK, SettlerStates, Work
    <2>2. /\ r \in Requests /\ account # Nobody /\ Event[r] \in Events
          /\ settler[s].result \in [Events -> Results] /\ verdict # "SKIP"
      BY <1>1, <1>3 DEF SettleBet, TypeInv, SettlersKnowBets, KnowsBets, Settleable, AccountFirst,
                        Events, SettlerStates
    <2>3. LockedRow(s) \in Rows /\ verdict \in Closed
      <3>1. LockedRow(s) \in Rows
        BY <1>1, <2>2 DEF LockedRow, TypeOK, SettlerStates
      <3>2. verdict \in Closed \cup {"SKIP"}
        BY <2>2, VerdictType
      <3> QED BY <2>2, <3>1, <3>2
    <2> HIDE DEF verdict
    <2>4. row \in Rows
      BY <2>2, <2>3, SettledRowType
    <2>5. item \in WorkItems /\ row # Nobody
      BY <2>2, <2>3, <2>4, TransactionsDistinct DEF WorkItems, Rows
    <2> HIDE DEF row, item
    <2>6. Append(Work(s), item) # <<>>
      BY <1>1, <2>5, WorkType, LastAppended
    <2>7. CASE t = s
      BY <2>1, <2>5, <2>6, <2>7 DEF RowWithWork, Work
    <2> QED BY <1>2, <2>1, <2>7
  <1>4. CASE CommitSettlement(s) \/ RollbackSettlement(s)
    BY <1>1, <1>2, <1>4 DEF CommitSettlement, RollbackSettlement, EndSettlement, TypeOK
  <1>5. CASE BreakDeadlock(s)
    <2>1. PICK o \in Settlers \ {s} :
            settler' = [settler EXCEPT ![s] = AfterRound(s),
                          ![o].at = IF @ = "complete" THEN "load" ELSE "settleBet"]
      BY <1>5 DEF BreakDeadlock
    <2> QED BY <1>1, <1>2, <2>1 DEF TypeOK, SettlerStates
  <1>6. CASE BeginSettlement(s)
    BY <1>1, <1>2, <1>6 DEF BeginSettlement, TypeOK, SettlerStates
  <1>7. CASE MatchEvent(s)
    BY <1>1, <1>2, <1>7 DEF MatchEvent, TypeOK, SettlerStates
  <1>8. CASE CompleteEvent(s)
    BY <1>1, <1>2, <1>8 DEF CompleteEvent, TypeOK, SettlerStates
  <1>9. CASE LoadBets(s)
    BY <1>1, <1>2, <1>9 DEF LoadBets, TypeOK, SettlerStates
  <1>10. CASE NextBet(s)
    BY <1>1, <1>2, <1>10 DEF NextBet, TypeOK, SettlerStates
  <1>11. CASE LockBet(s)
    BY <1>1, <1>2, <1>11 DEF LockBet, TypeOK, SettlerStates
  <1> QED BY <1>3, <1>4, <1>5, <1>6, <1>7, <1>8, <1>9, <1>10, <1>11 DEF SettlerStep, SettleBet

LEMMA StepJournal ==
  JournalInv /\ [Next]_vars => JournalInv' /\ (Journal!JNext \/ UNCHANGED Journal!jvars)
  <1> SUFFICES ASSUME JournalInv, [Next]_vars
               PROVE  JournalInv' /\ (Journal!JNext \/ UNCHANGED Journal!jvars)
    OBVIOUS
  <1>1. OnceInv' /\ TypeOK
    BY StepOnceInv DEF JournalInv, OnceInv, TypeInv
  <1>2. JournalStep /\ \A t \in Settlers : RowWithWork(t)'
    <2>1. CASE UNCHANGED vars
      BY <2>1 DEF vars, books, JournalStep, JournalInv, JournalOf, Noted, RowWithWork, Work
    <2>2. ASSUME NEW r \in Requests, RequestStep(r)
          PROVE  JournalStep /\ \A t \in Settlers : RowWithWork(t)'
      <3>1. UNCHANGED settler
        BY <1>1, <2>2, RequestMoves DEF JournalInv, OnceInv, TypeInv
      <3> QED BY <2>2, <3>1, RequestJournal DEF JournalInv, RowWithWork, Work
    <2>3. ASSUME NEW s \in Settlers, SettlerStep(s)
          PROVE  JournalStep /\ \A t \in Settlers : RowWithWork(t)'
      BY <2>3, SettlerJournal, SettlerRow
    <2>4. ASSUME NEW x \in Resetters, ResetStep(x)
          PROVE  JournalStep /\ \A t \in Settlers : RowWithWork(t)'
      <3>1. UNCHANGED settler
        BY <2>4 DEF ResetStep, ReadForReset, CreateForReset, WriteReset
      <3> QED BY <2>4, <3>1, ResetJournal DEF JournalInv, RowWithWork, Work
    <2> QED BY <2>1, <2>2, <2>3, <2>4 DEF Next
  <1>3. JournalInv'
    BY <1>1, <1>2 DEF JournalInv, JournalStep
  <1>4. Journal!JNext \/ UNCHANGED Journal!jvars
    BY <1>2 DEF JournalStep, Journal!jvars, JournalOf, Noted
  <1> QED BY <1>3, <1>4

LEMMA InitialJournal == Init => JournalInv /\ Journal!JInit
  <1> SUFFICES ASSUME Init PROVE JournalInv /\ Journal!JInit
    OBVIOUS
  <1>1. \A s \in Settlers : RowWithWork(s)
    BY DEF Init, RowWithWork, Work, IdleSettler, Ended
  <1>2. NewAccount # Nobody /\ <<DepositEntry>> # <<>>
    BY Limits, TransactionsDistinct DEF NewAccount, Row
  <1>3. account = Nobody <=> ledger = <<>>
    BY <1>2 DEF Init
  <1>4. JournalOf(ledger) \in {<<>>, Journal!Deposit(<<>>)}
    <2>1. CASE ledger = <<>>
      BY <2>1, JournalOfIs, EmptySeq
    <2>2. CASE ledger = <<DepositEntry>>
      <3>1. DOMAIN ledger = 1..1 /\ ledger[1] = DepositEntry
        BY <2>2
      <3>2. Noted(DepositEntry) = <<"INITIAL_DEPOSIT", "NONE">>
        BY DEF Noted, DepositEntry, Entry
      <3>3. JournalOf(ledger) = [i \in 1..1 |-> <<"INITIAL_DEPOSIT", "NONE">>]
        BY <3>1, <3>2 DEF JournalOf
      <3>4. Journal!Deposit(<<>>) = <<<<"INITIAL_DEPOSIT", "NONE">>>>
        BY DEF Journal!Deposit, Journal!Unplaced
      <3>5. <<<<"INITIAL_DEPOSIT", "NONE">>>> = [i \in 1..1 |-> <<"INITIAL_DEPOSIT", "NONE">>]
        OBVIOUS
      <3> QED BY <3>3, <3>4, <3>5
    <2> QED BY <2>1, <2>2 DEF Init
  <1>5. Journal!JInit
    BY <1>4, JournalIs DEF Init, Journal!JInit, Journal!Unplaced, JournalOf, Noted
  <1> QED BY <1>1, <1>3, <1>5, InitialOnceInv DEF JournalInv

\* The transactions of the requests, the settlements and the resets, in every
\* interleaving, implement the journal of bets: placed once, settled once, and
\* the ledger tells it in that order, behind one initial deposit.
THEOREM JournalImplemented == Spec => ImplementsJournal
  <1>1. Spec => Journal!JInit /\ [][Journal!JNext]_(Journal!jvars)
    BY InitialJournal, StepJournal, PTL DEF Spec
  <1> QED BY <1>1 DEF ImplementsJournal, Journal!JSpec
===============================================================================
