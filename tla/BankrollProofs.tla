---------------------------- MODULE BankrollProofs ----------------------------
(***************************************************************************)
(* Theorems about Bankroll, for every number of requests, settlement       *)
(* transactions and resets.                                                *)
(***************************************************************************)
EXTENDS Bankroll, SequenceTheorems, TLAPS

Running == {"validate", "propose", "insert", "decide", "place"}

\* The account a transaction works on exists, or the transaction has inserted it.
HasAccount(t) == account # Nobody \/ accountLock = t

\* What a request knows of the account at each of its statements.
RequestsKnowAccount ==
  \A r \in Requests :
    /\ req[r].at \in Running => HasAccount(r)
    /\ req[r].at \in Running \ {"decide"} => req[r].snap # Nobody
    /\ req[r].at = "decide" /\ req[r].snap = Nobody => account # Nobody

ResettersKnowAccount ==
  \A x \in Resetters :
    resetter[x].at = "write" => HasAccount(x) /\ resetter[x].snap # Nobody

\* Proposals and bets are committed together with, or after, the account.
AccountFirst ==
  /\ proposals # {} => account # Nobody
  /\ \A r \in Requests : bet[r] # "NONE" => account # Nobody

Settleable(s, r) ==
  /\ bet[r] # "NONE"
  /\ settler[s].result # Nobody
  /\ Verdict(r, settler[s].result[Event[r]]) # "SKIP"

\* A settlement transaction only takes up bets that exist and have a verdict,
\* and has read the account when it has settled one.
KnowsBets(s) ==
  /\ settler[s].at \notin {"idle", "ended"} => settler[s].result # Nobody
  /\ settler[s].at \in {"complete", "load"} => settler[s].event \in Events
  /\ settler[s].at \in {"idle", "ended"} => settler[s].todo = {}
  /\ settler[s].work # <<>> => settler[s].row # Nobody
  /\ \A r \in settler[s].todo : Settleable(s, r)
  /\ settler[s].at \in {"lockBet", "settleBet"} =>
       settler[s].current \in Requests /\ Settleable(s, settler[s].current)

SettlersKnowBets == \A s \in Settlers : KnowsBets(s)

TypeInv ==
  /\ TypeOK
  /\ RequestsKnowAccount
  /\ ResettersKnowAccount
  /\ AccountFirst
  /\ SettlersKnowBets
-------------------------------------------------------------------------------
\* The empty books satisfy it, with or without the account.
LEMMA InitialTypeInv == Init => TypeInv
  <1> SUFFICES ASSUME Init PROVE TypeInv
    OBVIOUS
  <1>1. DepositEntry \in Entries /\ NewAccount \in Rows
    BY Limits DEF DepositEntry, Entry, Entries, EntryTypes, NewAccount, Row, Rows
  <1>2. ledger \in Seq(Entries)
    <2>1. <<DepositEntry>> \in Seq(Entries)
      BY <1>1
    <2> QED BY <2>1, EmptySeq DEF Init
  <1>3. TypeOK
    <2>1. account \in Rows \cup {Nobody}
      BY <1>1 DEF Init
    <2>2. IdleRequest \in RequestStates
      BY DEF IdleRequest, RequestStates
    <2>3. IdleSettler \in SettlerStates
      BY EmptySeq DEF IdleSettler, Ended, SettlerStates
    <2>4. [at |-> "start", snap |-> Nobody] \in ResetterStates
      BY DEF ResetterStates
    <2> QED BY <1>2, <2>1, <2>2, <2>3, <2>4 DEF Init, TypeOK
  <1>4. RequestsKnowAccount /\ ResettersKnowAccount /\ AccountFirst
    BY DEF Init, RequestsKnowAccount, ResettersKnowAccount, AccountFirst, Running, IdleRequest
  <1>5. SettlersKnowBets
    BY DEF Init, SettlersKnowBets, KnowsBets, IdleSettler, Ended
  <1> QED BY <1>3, <1>4, <1>5 DEF TypeInv

\* An official result closes a bet or leaves it alone.
LEMMA VerdictType ==
  ASSUME NEW r \in Requests, NEW e \in Events, NEW result \in [Events -> Results]
  PROVE  Verdict(r, result[e]) \in Closed \cup {"SKIP"}
  BY OfficialResults DEF Verdict, Closed, Players

\* Settling a bet takes an account row to an account row.
LEMMA SettledRowType ==
  ASSUME NEW r \in Requests, NEW verdict \in Closed, NEW row \in Rows
  PROVE  SettledRow(row, r, verdict) \in Rows
  <1>1. Credit(r, verdict) \in Nat /\ Stake[r] \in Nat
    BY BetData DEF Credit, Closed
  <1>2. Released(row.exposure, Stake[r]) \in Nat
    BY <1>1 DEF Released, Rows
  <1> QED BY <1>1, <1>2 DEF SettledRow, Row, Rows

\* Ending a request releases its locks and keeps the shapes.
LEMMA FinishType ==
  ASSUME TypeOK, NEW r \in Requests,
         NEW place \in {"placed", "answered", "rejected", "failed"}, Finish(r, place)
  PROVE  /\ accountLock' \in Transactions \cup {Nobody}
         /\ proposalLock' \in [Proposals -> Requests \cup {Nobody}]
         /\ req' \in [Requests -> RequestStates]
  <1>1. accountLock' \in Transactions \cup {Nobody}
    BY DEF TypeOK, Finish
  <1>2. proposalLock' \in [Proposals -> Requests \cup {Nobody}]
    BY DEF TypeOK, Finish
  <1>3. req' \in [Requests -> RequestStates]
    <2>1. req \in [Requests -> RequestStates]
      BY DEF TypeOK
    <2> QED BY <2>1, ZenonT(60) DEF Finish, RequestStates
  <1> QED BY <1>1, <1>2, <1>3


\* The ledger with the deposit of an account created on the way.
LEMMA LedgerOfType ==
  ASSUME TypeOK, NEW t
  PROVE  LedgerOf(t) \in Seq(Entries)
  <1>1. DepositEntry \in Entries
    BY Limits DEF DepositEntry, Entry, Entries, EntryTypes
  <1> QED BY <1>1 DEF TypeOK, LedgerOf

\* Settlement transactions are not disturbed by a step that leaves them alone
\* and removes no bet.
LEMMA SettlersFrame ==
  ASSUME SettlersKnowBets, UNCHANGED settler,
         \A r \in Requests : bet[r] # "NONE" => bet'[r] # "NONE", TypeOK
  PROVE  SettlersKnowBets'
  BY DEF SettlersKnowBets, KnowsBets, Settleable, TypeOK, SettlerStates

\* A finished request has nothing left to know; the others keep what they know.
LEMMA FinishKnowledge ==
  ASSUME TypeInv, NEW r \in Requests,
         NEW place \in {"placed", "answered", "rejected", "failed"}, Finish(r, place),
         UNCHANGED resetter, account # Nobody => account' # Nobody
  PROVE  RequestsKnowAccount' /\ ResettersKnowAccount'
  <1>1. \A t \in Transactions \ {r} : HasAccount(t) => HasAccount(t)'
    BY DEF Finish, HasAccount, TypeInv
  <1>2. RequestsKnowAccount'
    BY <1>1 DEF Finish, TypeInv, TypeOK, RequestsKnowAccount, Running, Transactions, RequestStates
  <1>3. ResettersKnowAccount'
    BY <1>1, TransactionsDistinct DEF Finish, TypeInv, TypeOK, ResettersKnowAccount, Transactions
  <1> QED BY <1>2, <1>3

\* A request that rolls back disturbs nobody.
LEMMA RollbackPreservesTypeInv ==
  ASSUME TypeInv, NEW r \in Requests, NEW place \in {"answered", "failed"}, Rollback(r, place)
  PROVE  TypeInv'
  <1>1. TypeOK'
    BY FinishType DEF TypeInv, TypeOK, Rollback, books
  <1>2. RequestsKnowAccount' /\ ResettersKnowAccount'
    BY FinishKnowledge DEF TypeInv, Rollback, books, CreatesAccount, Finish
  <1>3. AccountFirst' /\ SettlersKnowBets'
    BY SettlersFrame DEF TypeInv, Rollback, books, AccountFirst
  <1> QED BY <1>1, <1>2, <1>3 DEF TypeInv

-------------------------------------------------------------------------------
\* Moving a request on keeps the shape of its state.
LEMMA RequestUpdate ==
  ASSUME req \in [Requests -> RequestStates], NEW r \in Requests,
         NEW place \in {"create", "validate", "propose", "decide", "place"},
         NEW snap \in Rows \cup {Nobody},
         NEW verdict \in {"ACCEPTED", "DUPLICATE", "REJECTED"}
  PROVE  /\ [req EXCEPT ![r].at = place, ![r].snap = snap] \in [Requests -> RequestStates]
         /\ [req EXCEPT ![r].at = place, ![r].verdict = verdict] \in [Requests -> RequestStates]
  BY ZenonT(60) DEF RequestStates

\* Every statement of process_proposal, one case per action.
LEMMA RequestStepTypeInv ==
  ASSUME TypeInv, NEW r \in Requests, RequestStep(r)
  PROVE  TypeInv'
  <1> USE DEF TypeInv
  <1>1. CASE LoadAccount(r)
    <2>1. TypeOK'
      <3>1. req' \in [Requests -> RequestStates]
        BY <1>1, RequestUpdate, ZenonT(60) DEF LoadAccount, TypeOK
      <3> QED BY <1>1, <3>1 DEF LoadAccount, TypeOK, books, locks
    <2>2. RequestsKnowAccount' /\ ResettersKnowAccount' /\ AccountFirst'
      BY <1>1 DEF LoadAccount, At, TypeOK, RequestStates, books, locks, HasAccount, Running,
                  RequestsKnowAccount, ResettersKnowAccount, AccountFirst
    <2> QED BY <1>1, <2>1, <2>2, SettlersFrame DEF LoadAccount, books
  <1>2. CASE CreateAccount(r)
    <2>1. CASE account # Nobody
      BY <1>2, <2>1, RollbackPreservesTypeInv DEF CreateAccount
    <2>2. CASE account = Nobody
      <3>1. NewAccount \in Rows /\ NewAccount # Nobody
        BY Limits, TransactionsDistinct DEF NewAccount, Row, Rows
      <3>2. TypeOK'
        <4>1. req' \in [Requests -> RequestStates]
          <5>1. req \in [Requests -> RequestStates]
            BY DEF TypeOK
          <5> QED BY <1>2, <2>2, <3>1, <5>1 DEF CreateAccount, At, RequestStates
        <4> QED BY <1>2, <2>2, <4>1 DEF CreateAccount, TypeOK, books, Transactions
      <3>3. RequestsKnowAccount' /\ ResettersKnowAccount' /\ AccountFirst'
        BY <1>2, <2>2, <3>1, TransactionsDistinct
        DEF CreateAccount, At, TypeOK, RequestStates, books, HasAccount, Running,
            RequestsKnowAccount, ResettersKnowAccount, AccountFirst
      <3> QED BY <1>2, <2>2, <3>2, <3>3, SettlersFrame DEF CreateAccount, books
    <2> QED BY <2>1, <2>2
  <1>3. CASE Validate(r)
    <2>1. TypeOK'
      <3>1. req' \in [Requests -> RequestStates]
        <4>1. PICK verdict \in {"ACCEPTED", "DUPLICATE", "REJECTED"} :
                req' = [req EXCEPT ![r].at = "propose", ![r].verdict = verdict]
          BY <1>3 DEF Validate
        <4> QED BY <4>1, RequestUpdate DEF TypeOK
      <3> QED BY <1>3, <3>1 DEF Validate, TypeOK, books, locks
    <2>2. RequestsKnowAccount' /\ ResettersKnowAccount' /\ AccountFirst'
      BY <1>3 DEF Validate, At, TypeOK, RequestStates, books, locks, HasAccount, Running,
                  RequestsKnowAccount, ResettersKnowAccount, AccountFirst
    <2> QED BY <1>3, <2>1, <2>2, SettlersFrame DEF Validate, books
  <1>4. CASE AnswerDuplicate(r)
    BY <1>4, RollbackPreservesTypeInv DEF AnswerDuplicate
  <1>5. CASE FindProposal(r)
    <2>1. TypeOK'
      BY <1>5 DEF FindProposal, Goto, At, TypeOK, RequestStates, books, locks
    <2>2. RequestsKnowAccount' /\ ResettersKnowAccount' /\ AccountFirst'
      BY <1>5 DEF FindProposal, Goto, At, TypeOK, RequestStates, books, locks, HasAccount, Running,
                  RequestsKnowAccount, ResettersKnowAccount, AccountFirst
    <2> QED BY <1>5, <2>1, <2>2, SettlersFrame DEF FindProposal, books
  <1>6. CASE InsertProposal(r)
    <2>1. TypeOK'
      <3>1. req' \in [Requests -> RequestStates]
        <4>1. CASE Proposal[r] \in proposals
          <5>1. req' = [req EXCEPT ![r].at = "decide", ![r].snap = Nobody]
            BY <1>6, <4>1 DEF InsertProposal
          <5> QED BY <5>1, RequestUpdate DEF TypeOK
        <4>2. CASE Proposal[r] \notin proposals
          <5>1. req' = [req EXCEPT ![r].at = "decide"]
            BY <1>6, <4>2 DEF InsertProposal, Goto
          <5> QED BY <5>1, ZenonT(60) DEF TypeOK, RequestStates
        <4> QED BY <4>1, <4>2
      <3>2. proposalLock' \in [Proposals -> Requests \cup {Nobody}]
        BY <1>6 DEF InsertProposal, TypeOK
      <3> QED BY <1>6, <3>1, <3>2 DEF InsertProposal, TypeOK, books
    <2>2. RequestsKnowAccount' /\ ResettersKnowAccount' /\ AccountFirst'
      BY <1>6 DEF InsertProposal, Goto, At, TypeOK, RequestStates, books, HasAccount, Running,
                  RequestsKnowAccount, ResettersKnowAccount, AccountFirst
    <2> QED BY <1>6, <2>1, <2>2, SettlersFrame DEF InsertProposal, books
  <1>7. CASE CommitWithoutBet(r)
    <2> DEFINE end == IF req[r].verdict = "ACCEPTED" THEN "answered" ELSE "rejected"
    <2>1. Finish(r, end) /\ end \in {"placed", "answered", "rejected", "failed"}
      BY <1>7 DEF CommitWithoutBet
    <2>2. NewAccount \in Rows /\ NewAccount # Nobody
      BY Limits, TransactionsDistinct DEF NewAccount, Row, Rows
    <2>3. account' \in Rows
      BY <1>7, <2>2 DEF CommitWithoutBet, CreatesAccount, At, RequestsKnowAccount, Running,
                        HasAccount, TypeOK
    <2>4. account' # Nobody
      BY <1>7, <2>2 DEF CommitWithoutBet, CreatesAccount, At, RequestsKnowAccount, Running, HasAccount
    <2>5. TypeOK'
      <3>1. proposals' \subseteq Proposals /\ ledger' \in Seq(Entries)
        BY <1>7, LedgerOfType DEF CommitWithoutBet, CommitProposal, TypeOK
      <3> QED BY <1>7, <2>1, <2>3, <3>1, FinishType DEF CommitWithoutBet, TypeOK
    <2>6. RequestsKnowAccount' /\ ResettersKnowAccount'
      BY <1>7, <2>1, <2>4, FinishKnowledge DEF CommitWithoutBet
    <2>7. AccountFirst'
      BY <2>4 DEF AccountFirst
    <2> QED BY <1>7, <2>5, <2>6, <2>7, SettlersFrame DEF CommitWithoutBet
  <1>8. CASE EnterPlaceBet(r)
    <2>1. TypeOK'
      <3>1. req' \in [Requests -> RequestStates]
        <4>1. req[r].snap \in Rows \cup {Nobody}
          BY DEF TypeOK, RequestStates
        <4> QED BY <1>8, <4>1, RequestUpdate DEF EnterPlaceBet, TypeOK
      <3> QED BY <1>8, <3>1 DEF EnterPlaceBet, TypeOK, books, locks
    <2>2. RequestsKnowAccount' /\ ResettersKnowAccount' /\ AccountFirst'
      BY <1>8 DEF EnterPlaceBet, At, TypeOK, RequestStates, books, locks, HasAccount, Running,
                  RequestsKnowAccount, ResettersKnowAccount, AccountFirst
    <2> QED BY <1>8, <2>1, <2>2, SettlersFrame DEF EnterPlaceBet, books
  <1>9. CASE PlaceBet(r)
    <2> DEFINE snap == req[r].snap
               row == Row(snap.balance - Stake[r], snap.exposure + Stake[r])
    <2>1. snap \in Rows
      BY <1>9 DEF PlaceBet, At, RequestsKnowAccount, Running, TypeOK, RequestStates
    <2>2. CASE Stake[r] > snap.balance
      BY <1>9, <2>2, RollbackPreservesTypeInv DEF PlaceBet
    <2>3. CASE ~(Stake[r] > snap.balance)
      <3>1. Stake[r] \in Nat
        BY BetData
      <3>2. row \in Rows /\ row.balance \in Nat
        BY <2>1, <2>3, <3>1 DEF Row, Rows
      <3>3. Entry("BET_PLACED", r, -Stake[r], row.balance) \in Entries
        BY <3>1, <3>2 DEF Entry, Entries, EntryTypes
      <3>4. ledger' \in Seq(Entries)
        BY <1>9, <2>3, <3>3, LedgerOfType DEF PlaceBet
      <3>5. Finish(r, "placed") /\ account' \in Rows
        BY <1>9, <2>3, <3>2 DEF PlaceBet
      <3>6. account' # Nobody
        BY <3>5, TransactionsDistinct DEF Rows
      <3>7. TypeOK'
        <4>1. proposals' \subseteq Proposals /\ bet' \in [Requests -> {"NONE", "PENDING"} \cup Closed]
          BY <1>9, <2>3 DEF PlaceBet, CommitProposal, TypeOK
        <4> QED BY <1>9, <2>3, <3>4, <3>5, <4>1, FinishType DEF PlaceBet, TypeOK
      <3>8. RequestsKnowAccount' /\ ResettersKnowAccount'
        BY <1>9, <2>3, <3>5, <3>6, FinishKnowledge DEF PlaceBet
      <3>9. AccountFirst'
        BY <3>6 DEF AccountFirst
      <3>10. \A d \in Requests : bet[d] # "NONE" => bet'[d] # "NONE"
        BY <1>9, <2>3 DEF PlaceBet, TypeOK
      <3> QED BY <1>9, <2>3, <3>7, <3>8, <3>9, <3>10, SettlersFrame DEF PlaceBet
    <2> QED BY <2>2, <2>3
  <1>10. CASE AbortRequest(r)
    BY <1>10, RollbackPreservesTypeInv DEF AbortRequest
  <1> QED BY <1>1, <1>2, <1>3, <1>4, <1>5, <1>6, <1>7, <1>8, <1>9, <1>10 DEF RequestStep

-------------------------------------------------------------------------------
\* Requests and resets are not disturbed by a settlement transaction: it takes
\* the account's lock only from another settlement transaction or from nobody.
LEMMA SettlementFrame ==
  ASSUME TypeInv, UNCHANGED <<req, resetter>>, account # Nobody => account' # Nobody,
         accountLock \in Requests \cup Resetters => accountLock' = accountLock
  PROVE  RequestsKnowAccount' /\ ResettersKnowAccount'
  BY DEF TypeInv, RequestsKnowAccount, ResettersKnowAccount, HasAccount

\* A settlement transaction starts its next round empty-handed.
LEMMA AfterRoundType ==
  ASSUME NEW s
  PROVE  /\ AfterRound(s) \in SettlerStates
         /\ AfterRound(s).todo = {} /\ AfterRound(s).work = <<>>
         /\ AfterRound(s).at \in {"idle", "ended"}
  BY EmptySeq DEF AfterRound, IdleSettler, Ended, SettlerStates

\* Ending a settlement transaction releases its locks and keeps the shapes.
LEMMA EndSettlementType ==
  ASSUME TypeOK, NEW s \in Settlers, EndSettlement(s)
  PROVE  /\ settler' \in [Settlers -> SettlerStates]
         /\ accountLock' \in Transactions \cup {Nobody}
         /\ betLock' \in [Requests -> Settlers \cup {Nobody}]
         /\ eventLock' \in [Events -> Settlers \cup {Nobody}]
  <1>1. settler' \in [Settlers -> SettlerStates]
    BY AfterRoundType DEF EndSettlement, TypeOK
  <1>2. accountLock' \in Transactions \cup {Nobody}
    BY DEF EndSettlement, TypeOK
  <1>3. /\ betLock' \in [Requests -> Settlers \cup {Nobody}]
        /\ eventLock' \in [Events -> Settlers \cup {Nobody}]
    BY DEF EndSettlement, TypeOK
  <1> QED BY <1>1, <1>2, <1>3

\* A settlement transaction that rolls back disturbs nobody.
LEMMA RollbackSettlementPreservesTypeInv ==
  ASSUME TypeInv, NEW s \in Settlers, RollbackSettlement(s)
  PROVE  TypeInv'
  <1> USE DEF TypeInv
  <1>1. TypeOK'
    <2> QED BY EndSettlementType DEF RollbackSettlement, EndSettlement, TypeOK, books
  <1>2. RequestsKnowAccount' /\ ResettersKnowAccount'
    BY SettlementFrame, TransactionsDistinct DEF RollbackSettlement, EndSettlement, books
  <1>3. AccountFirst'
    BY DEF RollbackSettlement, books, AccountFirst
  <1>4. SettlersKnowBets'
    BY AfterRoundType DEF RollbackSettlement, EndSettlement, books, SettlersKnowBets, KnowsBets,
       Settleable, TypeOK
  <1> QED BY <1>1, <1>2, <1>3, <1>4

\* Every statement of a settlement transaction, one case per action.
LEMMA SettlerStepTypeInv ==
  ASSUME TypeInv, NEW s \in Settlers, SettlerStep(s)
  PROVE  TypeInv'
  <1> USE DEF TypeInv
  <1> settler[s] \in SettlerStates
    BY DEF TypeOK
  <1>1. CASE BeginSettlement(s)
    <2>1. PICK result \in [Events -> Results], events \in SUBSET Events :
            settler' = [settler EXCEPT ![s].at = "next", ![s].result = result, ![s].events = events]
      BY <1>1 DEF BeginSettlement
    <2>2. TypeOK'
      <3>1. settler' \in [Settlers -> SettlerStates]
        BY <2>1 DEF TypeOK, SettlerStates
      <3> QED BY <1>1, <3>1 DEF BeginSettlement, TypeOK, books, locks
    <2>3. RequestsKnowAccount' /\ ResettersKnowAccount' /\ AccountFirst'
      BY <1>1, SettlementFrame DEF BeginSettlement, books, locks, AccountFirst
    <2>4. SettlersKnowBets'
      <3>1. result # Nobody /\ settler[s].todo = {} /\ UNCHANGED bet
        BY <1>1, OfficialResults DEF BeginSettlement, books, SettlersKnowBets, KnowsBets
      <3> QED BY <2>1, <3>1, ZenonT(60) DEF SettlersKnowBets, KnowsBets, Settleable, TypeOK, SettlerStates
    <2> QED BY <2>2, <2>3, <2>4
  <1>2. CASE LoadBets(s)
    <2> DEFINE e == settler[s].event
               todo == {r \in OpenBets : /\ Event[r] = e
                                         /\ Verdict(r, settler[s].result[e]) # "SKIP"}
    <2>1. settler' = [settler EXCEPT ![s].at = "next", ![s].todo = todo]
      BY <1>2 DEF LoadBets
    <2>2. TypeOK'
      <3>1. todo \in SUBSET Requests
        BY DEF OpenBets
      <3>2. settler' \in [Settlers -> SettlerStates]
        BY <2>1, <3>1 DEF TypeOK, SettlerStates
      <3> QED BY <1>2, <3>2 DEF LoadBets, TypeOK, books, locks
    <2>3. RequestsKnowAccount' /\ ResettersKnowAccount' /\ AccountFirst'
      BY <1>2, SettlementFrame DEF LoadBets, books, locks, AccountFirst
    <2>4. SettlersKnowBets'
      <3>1. settler[s].result # Nobody /\ UNCHANGED bet /\ settler[s].at = "load"
        BY <1>2 DEF LoadBets, books, SettlersKnowBets, KnowsBets
      <3>2. \A r \in todo : Settleable(s, r)
        BY <3>1 DEF OpenBets, Settleable
      <3> QED BY <2>1, <3>1, <3>2, ZenonT(60) DEF SettlersKnowBets, KnowsBets, Settleable, TypeOK, SettlerStates
    <2> QED BY <2>2, <2>3, <2>4
  <1>3. CASE NextBet(s)
    <2>1. PICK r \in settler[s].todo :
            settler' = [settler EXCEPT ![s].at = "lockBet", ![s].current = r, ![s].todo = @ \ {r}]
      BY <1>3 DEF NextBet
    <2>2. TypeOK'
      <3>1. settler' \in [Settlers -> SettlerStates]
        BY <2>1 DEF TypeOK, SettlerStates
      <3> QED BY <1>3, <3>1 DEF NextBet, TypeOK, books, locks
    <2>3. RequestsKnowAccount' /\ ResettersKnowAccount' /\ AccountFirst'
      BY <1>3, SettlementFrame DEF NextBet, books, locks, AccountFirst
    <2>4. SettlersKnowBets'
      <3>1. /\ UNCHANGED bet /\ settler[s].at = "next"
            /\ \A t \in Settlers \ {s} : settler'[t] = settler[t]
            /\ settler'[s].at = "lockBet" /\ settler'[s].current = r
            /\ settler'[s].todo = settler[s].todo \ {r} /\ settler'[s].work = settler[s].work
            /\ settler'[s].result = settler[s].result /\ settler'[s].row = settler[s].row
        BY <1>3, <2>1 DEF NextBet, books, TypeOK, SettlerStates
      <3>2. r \in Requests /\ KnowsBets(s)
        BY <2>1 DEF SettlersKnowBets, TypeOK, SettlerStates
      <3>3. KnowsBets(s)'
        BY <2>1, <3>1, <3>2 DEF KnowsBets, Settleable
      <3>4. \A t \in Settlers \ {s} : KnowsBets(t)'
        BY <3>1 DEF SettlersKnowBets, KnowsBets, Settleable
      <3> QED BY <3>3, <3>4 DEF SettlersKnowBets
    <2> QED BY <2>2, <2>3, <2>4
  <1>4. CASE LockBet(s)
    <2>1. TypeOK'
      <3>1. settler' \in [Settlers -> SettlerStates]
        BY <1>4 DEF LockBet, TypeOK, SettlerStates
      <3>2. betLock' \in [Requests -> Settlers \cup {Nobody}]
        BY <1>4 DEF LockBet, TypeOK
      <3> QED BY <1>4, <3>1, <3>2 DEF LockBet, TypeOK, books
    <2>2. RequestsKnowAccount' /\ ResettersKnowAccount' /\ AccountFirst'
      BY <1>4, SettlementFrame DEF LockBet, books, AccountFirst
    <2>3. SettlersKnowBets'
      BY <1>4 DEF LockBet, books, SettlersKnowBets, KnowsBets, Settleable, TypeOK, SettlerStates
    <2> QED BY <2>1, <2>2, <2>3
  <1>5. CASE SettleBet(s)
    <2> DEFINE r == settler[s].current
               verdict == Verdict(r, settler[s].result[Event[r]])
               row == SettledRow(LockedRow(s), r, verdict)
               item == [bet |-> r, status |-> verdict, after |-> row.balance]
    <2>1. CASE AlreadySettled(r)
      BY <1>5, <2>1, RollbackSettlementPreservesTypeInv DEF SettleBet
    <2>2. CASE ~AlreadySettled(r)
      <3>1. /\ r \in Requests /\ bet[r] # "NONE" /\ verdict # "SKIP"
            /\ settler[s].result \in [Events -> Results]
        BY <1>5 DEF SettleBet, SettlersKnowBets, KnowsBets, Settleable, TypeOK, SettlerStates
      <3>2. verdict \in Closed
        BY <3>1, VerdictType DEF Events
      <3>3. LockedRow(s) \in Rows
        BY <3>1 DEF LockedRow, AccountFirst, TypeOK, SettlerStates
      <3>4. row \in Rows
        BY <3>1, <3>2, <3>3, SettledRowType
      <3>5. item \in WorkItems
        BY <3>1, <3>2, <3>4 DEF WorkItems, Rows
      <3>6. Append(settler[s].work, item) \in Seq(WorkItems)
        BY <3>5 DEF SettlerStates
      <3> HIDE DEF row, item, verdict
      <3>7. /\ settler' = [settler EXCEPT ![s].at = "next", ![s].row = row,
                                          ![s].work = Append(@, item)]
            /\ accountLock' = s
            /\ UNCHANGED <<books, betLock, eventLock, proposalLock, req, resetter>>
            /\ AccountFree(s)
        BY <1>5, <2>2 DEF SettleBet, row, item, verdict
      <3>8. TypeOK'
        <4>1. settler' \in [Settlers -> SettlerStates]
          BY <3>4, <3>6, <3>7 DEF TypeOK, SettlerStates
        <4> QED BY <3>7, <4>1 DEF TypeOK, books, Transactions
      <3>9. RequestsKnowAccount' /\ ResettersKnowAccount' /\ AccountFirst'
        BY <3>7, SettlementFrame, TransactionsDistinct DEF books, AccountFirst, AccountFree
      <3>10. SettlersKnowBets'
        <4>1. UNCHANGED bet /\ settler \in [Settlers -> SettlerStates]
          BY <3>7 DEF books, TypeOK
        <4>2. \A t \in Settlers \ {s} : settler'[t] = settler[t]
          BY <3>7, <4>1
        <4>3. /\ settler'[s].at = "next" /\ settler'[s].row = row
              /\ settler'[s].result = settler[s].result /\ settler'[s].todo = settler[s].todo
          BY <3>7, <4>1 DEF SettlerStates
        <4>4. settler[s].result # Nobody /\ row # Nobody
          BY <1>5, <3>4, TransactionsDistinct DEF SettleBet, SettlersKnowBets, KnowsBets, Rows
        <4>5. KnowsBets(s)'
          BY <4>1, <4>3, <4>4 DEF SettlersKnowBets, KnowsBets, Settleable
        <4>6. \A t \in Settlers \ {s} : KnowsBets(t)'
          BY <4>1, <4>2 DEF SettlersKnowBets, KnowsBets, Settleable
        <4> QED BY <4>5, <4>6 DEF SettlersKnowBets
      <3> QED BY <3>8, <3>9, <3>10
    <2> QED BY <2>1, <2>2
  <1>6. CASE CommitSettlement(s)
    <2> DEFINE work == settler[s].work
               decided(r) == {i \in DOMAIN work : work[i].bet = r}
               entries == [i \in DOMAIN work |-> OutcomeEntry(work[i])]
    <2>1. work \in Seq(WorkItems) /\ \A i \in DOMAIN work : work[i] \in WorkItems
      BY DEF SettlerStates
    <2>2. account' \in Rows \cup {Nobody}
      BY <1>6 DEF CommitSettlement, LockedRow, TypeOK, SettlerStates
    <2>3. account # Nobody => account' # Nobody
      BY <1>6, TransactionsDistinct DEF CommitSettlement, LockedRow
    <2>4. \A i \in DOMAIN work : OutcomeEntry(work[i]) \in Entries
      BY <2>1, BetData, SMTT(60) DEF OutcomeEntry, Entry, EntryType, Entries, EntryTypes, Credit, WorkItems, Closed
    <2>5. entries \in Seq(Entries)
      <3>1. DOMAIN work = 1 .. Len(work) /\ Len(work) \in Nat
        BY <2>1
      <3>2. entries \in [1 .. Len(work) -> Entries]
        BY <2>4, <3>1
      <3> QED BY <3>1, <3>2, SeqDef
    <2>6. ledger' \in Seq(Entries)
      <3> HIDE DEF entries
      <3>1. ledger' = ledger \o entries
        BY <1>6 DEF CommitSettlement, entries
      <3> QED BY <2>5, <3>1, ConcatProperties DEF TypeOK
    <2>7. \A r \in Requests : IF decided(r) = {} THEN bet'[r] = bet[r]
                              ELSE \E i \in decided(r) : bet'[r] = work[i].status
      BY <1>6 DEF CommitSettlement
    <2>8. bet' \in [Requests -> {"NONE", "PENDING"} \cup Closed]
      <3>1. ASSUME NEW r \in Requests PROVE bet'[r] \in {"NONE", "PENDING"} \cup Closed
        <4>1. CASE decided(r) = {}
          BY <2>7, <4>1 DEF TypeOK
        <4>2. CASE decided(r) # {}
          <5>1. PICK i \in DOMAIN work : bet'[r] = work[i].status
            BY <2>7, <4>2
          <5>2. work[i] \in WorkItems
            BY <2>1
          <5> QED BY <5>1, <5>2 DEF WorkItems
        <4> QED BY <4>1, <4>2
      <3>2. bet' = [r \in Requests |-> bet'[r]]
        BY <1>6 DEF CommitSettlement
      <3> QED BY <3>1, <3>2
    <2>9. settlements' \subseteq [bet : Requests, status : Closed]
      BY <1>6, <2>1 DEF CommitSettlement, TypeOK, WorkItems
    <2>10. official' \in [Events -> Results \cup {Nobody}]
      <3>1. settler[s].result \in [Events -> Results]
        BY <1>6 DEF CommitSettlement, SettlersKnowBets, KnowsBets, SettlerStates
      <3> QED BY <1>6, <3>1 DEF CommitSettlement, TypeOK
    <2>11. TypeOK'
      BY <1>6, <2>2, <2>6, <2>8, <2>9, <2>10, EndSettlementType
      DEF CommitSettlement, EndSettlement, TypeOK
    <2>12. RequestsKnowAccount' /\ ResettersKnowAccount'
      BY <1>6, <2>3, SettlementFrame, TransactionsDistinct DEF CommitSettlement, EndSettlement
    <2>13. \A r \in Requests : bet[r] # "NONE" => bet'[r] # "NONE"
      BY <2>1, <2>7 DEF WorkItems, Closed
    <2>14. AccountFirst'
      <3>1. ASSUME NEW r \in Requests, bet'[r] # "NONE" PROVE account' # Nobody
        <4>1. CASE decided(r) = {}
          BY <2>3, <2>7, <3>1, <4>1 DEF AccountFirst
        <4>2. CASE decided(r) # {}
          BY <1>6, <2>1, <4>2 DEF CommitSettlement, SettlersKnowBets, KnowsBets, LockedRow
        <4> QED BY <4>1, <4>2
      <3> QED BY <1>6, <2>3, <3>1 DEF CommitSettlement, EndSettlement, AccountFirst
    <2>15. SettlersKnowBets'
      <3>1. settler' = [settler EXCEPT ![s] = AfterRound(s)]
        BY <1>6 DEF CommitSettlement, EndSettlement
      <3> QED BY <2>13, <3>1, AfterRoundType DEF SettlersKnowBets, KnowsBets, Settleable, TypeOK, SettlerStates
    <2> QED BY <2>11, <2>12, <2>14, <2>15
  <1>7. CASE BreakDeadlock(s)
    <2>1. PICK o \in Settlers \ {s} :
            /\ WaitsFor(o, s)
            /\ settler' = [settler EXCEPT ![s] = AfterRound(s),
                 ![o].at = IF @ = "complete" THEN "load" ELSE "settleBet"]
            /\ accountLock' = IF accountLock # s THEN accountLock
                              ELSE IF settler[o].at = "settleBet" THEN o ELSE Nobody
            /\ betLock' = [r \in Requests |->
                 IF betLock[r] # s THEN betLock[r]
                 ELSE IF settler[o].at = "lockBet" /\ settler[o].current = r THEN o ELSE Nobody]
            /\ eventLock' = [e \in Events |->
                 IF eventLock[e] # s THEN eventLock[e]
                 ELSE IF settler[o].at = "complete" /\ settler[o].event = e THEN o ELSE Nobody]
            /\ UNCHANGED <<books, proposalLock, req, resetter>>
      BY <1>7 DEF BreakDeadlock
    <2> DEFINE place == IF settler[o].at = "complete" THEN "load" ELSE "settleBet"
    <2>2. settler[o] \in SettlerStates /\ settler[o].at \in {"complete", "lockBet", "settleBet"}
      BY <2>1 DEF WaitsFor, TypeOK
    <2>3. TypeOK'
      <3>1. settler' \in [Settlers -> SettlerStates]
        BY <2>1, <2>2, AfterRoundType, ZenonT(60) DEF TypeOK, SettlerStates
      <3>2. /\ betLock' \in [Requests -> Settlers \cup {Nobody}]
            /\ eventLock' \in [Events -> Settlers \cup {Nobody}]
        BY <2>1 DEF TypeOK
      <3> QED BY <2>1, <3>1, <3>2 DEF TypeOK, books, Transactions
    <2>4. RequestsKnowAccount' /\ ResettersKnowAccount' /\ AccountFirst'
      BY <2>1, SettlementFrame, TransactionsDistinct DEF books, AccountFirst
    <2>5. SettlersKnowBets'
      <3>1. settler'[s] = AfterRound(s) /\ settler'[o] = [settler[o] EXCEPT !.at = place]
        BY <2>1 DEF TypeOK
      <3>2. \A t \in Settlers \ {s, o} : settler'[t] = settler[t]
        BY <2>1 DEF TypeOK
      <3>3. UNCHANGED bet
        BY <2>1 DEF books
      <3>4. /\ settler'[o].at = place
            /\ settler'[o].todo = settler[o].todo /\ settler'[o].current = settler[o].current
            /\ settler'[o].result = settler[o].result /\ settler'[o].event = settler[o].event
            /\ settler'[o].row = settler[o].row /\ settler'[o].work = settler[o].work
        BY <2>2, <3>1 DEF SettlerStates
      <3>5. KnowsBets(s)'
        BY <3>1, AfterRoundType DEF KnowsBets
      <3>6. KnowsBets(o)'
        BY <2>2, <3>3, <3>4 DEF SettlersKnowBets, KnowsBets, Settleable
      <3>7. \A t \in Settlers \ {s, o} : KnowsBets(t)'
        BY <3>2, <3>3 DEF SettlersKnowBets, KnowsBets, Settleable
      <3> QED BY <3>5, <3>6, <3>7 DEF SettlersKnowBets
    <2> QED BY <2>3, <2>4, <2>5
  <1>8. CASE MatchEvent(s)
    <2>1. PICK e \in settler[s].events :
            settler' = [settler EXCEPT
              ![s].events = @ \ {e}, ![s].event = e,
              ![s].at = IF Weaker(settler[s].result[e], official[e]) THEN "load" ELSE "complete"]
      BY <1>8 DEF MatchEvent
    <2>2. e \in Events
      BY DEF SettlerStates
    <2>3. TypeOK'
      <3>1. settler' \in [Settlers -> SettlerStates]
        BY <2>1, <2>2, ZenonT(60) DEF TypeOK, SettlerStates
      <3> QED BY <1>8, <3>1 DEF MatchEvent, TypeOK, books, locks
    <2>4. RequestsKnowAccount' /\ ResettersKnowAccount' /\ AccountFirst'
      BY <1>8, SettlementFrame DEF MatchEvent, books, locks, AccountFirst
    <2>5. SettlersKnowBets'
      <3>1. settler[s].result # Nobody /\ settler[s].todo = {} /\ UNCHANGED bet
        BY <1>8 DEF MatchEvent, books, SettlersKnowBets, KnowsBets
      <3>2. /\ settler'[s].at \in {"load", "complete"} /\ settler'[s].event = e
            /\ settler'[s].result = settler[s].result /\ settler'[s].todo = {}
            /\ settler'[s].row = settler[s].row /\ settler'[s].work = settler[s].work
        BY <2>1, <3>1 DEF TypeOK, SettlerStates
      <3>3. \A t \in Settlers \ {s} : settler'[t] = settler[t]
        BY <2>1 DEF TypeOK
      <3>4. KnowsBets(s)'
        BY <2>2, <3>1, <3>2 DEF SettlersKnowBets, KnowsBets
      <3>5. \A t \in Settlers \ {s} : KnowsBets(t)'
        BY <3>1, <3>3 DEF SettlersKnowBets, KnowsBets, Settleable
      <3> QED BY <3>4, <3>5 DEF SettlersKnowBets
    <2> QED BY <2>3, <2>4, <2>5
  <1>9. CASE CompleteEvent(s)
    <2>1. TypeOK'
      <3>1. settler' \in [Settlers -> SettlerStates]
        BY <1>9 DEF CompleteEvent, TypeOK, SettlerStates
      <3>2. eventLock' \in [Events -> Settlers \cup {Nobody}]
        BY <1>9 DEF CompleteEvent, TypeOK
      <3> QED BY <1>9, <3>1, <3>2 DEF CompleteEvent, TypeOK, books
    <2>2. RequestsKnowAccount' /\ ResettersKnowAccount' /\ AccountFirst'
      BY <1>9, SettlementFrame DEF CompleteEvent, books, AccountFirst
    <2>3. SettlersKnowBets'
      BY <1>9 DEF CompleteEvent, books, SettlersKnowBets, KnowsBets, Settleable, TypeOK, SettlerStates
    <2> QED BY <2>1, <2>2, <2>3
  <1> QED BY <1>1, <1>2, <1>3, <1>4, <1>5, <1>6, <1>7, <1>8, <1>9 DEF SettlerStep

-------------------------------------------------------------------------------
\* Every statement of reset_simulation, one case per action.
LEMMA ResetStepTypeInv ==
  ASSUME TypeInv, NEW x \in Resetters, ResetStep(x)
  PROVE  TypeInv'
  <1> USE DEF TypeInv
  <1> NewAccount \in Rows /\ NewAccount # Nobody
    BY Limits, TransactionsDistinct DEF NewAccount, Row, Rows
  <1>1. CASE ReadForReset(x)
    <2>1. TypeOK'
      <3>1. resetter' \in [Resetters -> ResetterStates]
        BY <1>1 DEF ReadForReset, TypeOK, ResetterStates
      <3> QED BY <1>1, <3>1 DEF ReadForReset, TypeOK, books, locks
    <2>2. RequestsKnowAccount' /\ ResettersKnowAccount' /\ AccountFirst'
      BY <1>1 DEF ReadForReset, TypeOK, books, locks, HasAccount,
                  RequestsKnowAccount, ResettersKnowAccount, AccountFirst
    <2> QED BY <1>1, <2>1, <2>2, SettlersFrame DEF ReadForReset, books
  <1>2. CASE CreateForReset(x)
    <2>1. TypeOK'
      <3>1. resetter' \in [Resetters -> ResetterStates] /\ accountLock' \in Transactions \cup {Nobody}
        BY <1>2 DEF CreateForReset, TypeOK, ResetterStates, Transactions
      <3> QED BY <1>2, <3>1 DEF CreateForReset, TypeOK, books
    <2>2. RequestsKnowAccount' /\ ResettersKnowAccount' /\ AccountFirst'
      BY <1>2, TransactionsDistinct
      DEF CreateForReset, TypeOK, books, HasAccount,
          RequestsKnowAccount, ResettersKnowAccount, AccountFirst
    <2> QED BY <1>2, <2>1, <2>2, SettlersFrame DEF CreateForReset, books
  <1>3. CASE WriteReset(x)
    <2> DEFINE snap == resetter[x].snap
               row == IF CreatesAccount(x) THEN NewAccount ELSE account
    <2>1. snap \in Rows /\ row \in Rows
      BY <1>3 DEF WriteReset, CreatesAccount, ResettersKnowAccount, HasAccount, TypeOK, ResetterStates
    <2>2. account' \in Rows /\ account' # Nobody
      BY <1>3, <2>1, Limits, TransactionsDistinct DEF WriteReset, Row, Rows
    <2>3. Entry("SIMULATION_RESET", Nobody, InitialBalance - snap.balance, InitialBalance) \in Entries
      BY <2>1, Limits DEF Entry, Entries, EntryTypes, Rows
    <2>4. ledger' \in Seq(Entries)
      BY <1>3, <2>3, LedgerOfType DEF WriteReset
    <2>5. TypeOK'
      <3>1. resetter' \in [Resetters -> ResetterStates]
        BY <1>3 DEF WriteReset, TypeOK, ResetterStates
      <3> QED BY <1>3, <2>2, <2>4, <3>1 DEF WriteReset, TypeOK
    <2>6. RequestsKnowAccount' /\ ResettersKnowAccount' /\ AccountFirst'
      BY <1>3, <2>2 DEF WriteReset, TypeOK, HasAccount,
                        RequestsKnowAccount, ResettersKnowAccount, AccountFirst
    <2> QED BY <1>3, <2>5, <2>6, SettlersFrame DEF WriteReset
  <1> QED BY <1>1, <1>2, <1>3 DEF ResetStep

\* The invariant is inductive.
LEMMA StepTypeInv == TypeInv /\ [Next]_vars => TypeInv'
  <1> SUFFICES ASSUME TypeInv, [Next]_vars PROVE TypeInv'
    OBVIOUS
  <1>1. CASE UNCHANGED vars
    BY <1>1 DEF vars, books, locks, TypeInv, TypeOK, RequestsKnowAccount, ResettersKnowAccount,
                AccountFirst, SettlersKnowBets, KnowsBets, HasAccount, Settleable
  <1>2. CASE Next
    BY <1>2, RequestStepTypeInv, SettlerStepTypeInv, ResetStepTypeInv DEF Next
  <1> QED BY <1>1, <1>2

\* The inductive invariant: what every transaction knows of the rows it works on.
THEOREM TypeInvariance == Spec => []TypeInv
  BY InitialTypeInv, StepTypeInv, PTL DEF Spec

\* Type correctness, whatever the numbers of transactions and the amounts.
THEOREM TypeCorrect == Spec => []TypeOK
  <1>1. TypeInv => TypeOK
    BY DEF TypeInv
  <1> QED BY <1>1, TypeInvariance, PTL

===============================================================================
