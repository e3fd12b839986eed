------------------------------- MODULE Bankroll -------------------------------
(***************************************************************************)
(* One virtual account, its ledger and its bets, written by concurrent     *)
(* database transactions: bet-manager requests                             *)
(* (services/bet-manager/app/executor.py, pipeline.py), settlement         *)
(* transactions (packages/bankroll/src/bankroll/settlement.py) and the     *)
(* simulation reset of the backend.                                        *)
(*                                                                         *)
(* A step is what one transaction does between two points where another    *)
(* one can be seen: PostgreSQL READ COMMITTED, row locks held to the end   *)
(* of the transaction, writes visible at commit.  An ORM session never     *)
(* refreshes a row object it still holds (SELECT ... FOR UPDATE without    *)
(* populate_existing), so a request writes the account from the values it  *)
(* loaded at its start: snap.                                              *)
(*                                                                         *)
(* Money is in units of the minimum stake.  Bets are named after the       *)
(* request that places them.                                               *)
(***************************************************************************)
EXTENDS Integers, Sequences, FiniteSets, SequencesExt

CONSTANTS
  Requests,        \* POST /api/proposals/evaluate calls
  Settlers,        \* writers of settlements: the backend's sync and the scripts
  Scripts,         \* runs of scripts/backfill_official_results.py: one transaction
                   \* over all events, never repeated
  Resetters,       \* POST /api/simulation/reset calls
  Nobody,          \* no transaction, no bet, no loaded row
  Proposal,        \* [Requests -> proposal id]; equal when a client retries
  Selection,       \* [Requests -> event/market/outcome key] of the duplicate gate
  Event,           \* [Requests -> event]
  Market,          \* [Requests -> {"match_winner", "set_winner"}]
  Outcome,         \* [Requests -> {"player_a", "player_b"}]
  Stake, Payout,   \* [Requests -> Nat], payout = round(stake * odds, 2)
  InitialBalance,
  MinStake,        \* config.min_stake
  StakeDivisor,    \* 1 / max_stake_fraction
  ExposureDivisor, \* 1 / max_exposure_fraction
  DailyLossLimit,  \* initial balance * daily_loss_limit_fraction
  Results          \* the definitive official results a feed may show for an event:
                   \* match is the winner, set what the event's set winners say of
                   \* the set bet on when the official ones are merged in, rank the
                   \* strength (sets played, then sets of the winner)

Players == {"player_a", "player_b"}
Closed == {"WON", "LOST", "VOID"}
Proposals == {Proposal[r] : r \in Requests}
Events == {Event[r] : r \in Requests}
EntryType == [WON |-> "BET_WIN", LOST |-> "BET_LOSS", VOID |-> "BET_VOID"]

ASSUME TransactionsDistinct ==
  /\ Requests \cap Settlers = {} /\ Requests \cap Resetters = {}
  /\ Settlers \cap Resetters = {} /\ Scripts \subseteq Settlers
  /\ Nobody \notin Requests \cup Settlers \cup Resetters
  /\ Nobody \notin [balance : Nat, exposure : Nat]

ASSUME BetData ==
  /\ Stake \in [Requests -> Nat \ {0}]
  /\ Payout \in [Requests -> Nat]
  /\ Market \in [Requests -> {"match_winner", "set_winner"}]
  /\ Outcome \in [Requests -> Players]

ASSUME Limits ==
  /\ InitialBalance \in Nat /\ MinStake \in Nat \ {0} /\ DailyLossLimit \in Nat
  /\ StakeDivisor \in Nat \ {0} /\ ExposureDivisor \in Nat \ {0}

ASSUME OfficialResults ==
  /\ Results \subseteq [match : Players \cup {"cancelled"},
                        set : Players \cup {"not_played", "unknown"}, rank : Nat]
  /\ Nobody \notin Results
  /\ Nobody \notin [Events -> Results]

VARIABLES
  account,      \* committed virtual_accounts row, Nobody before it is created
  ledger,       \* committed ledger_entries, in created_at order
  bet,          \* [Requests -> committed bets.status], "NONE" without a row
  settlements,  \* committed bet_settlements rows
  proposals,    \* committed bet_proposals ids
  official,     \* [Events -> committed fonbet_official_result of the event, or Nobody]
  accountLock,  \* transaction holding the account row (or its uncommitted insert)
  betLock,      \* [Requests -> transaction holding the bet row]
  eventLock,    \* [Events -> settlement transaction holding the event row]
  proposalLock, \* [Proposals -> request with an uncommitted insert of the id]
  req,          \* [Requests -> state of the request's transaction]
  settler,      \* [Settlers -> state of the settlement transaction]
  resetter      \* [Resetters -> state of the reset transaction]

books == <<account, ledger, bet, settlements, proposals, official>>
locks == <<accountLock, betLock, eventLock, proposalLock>>
vars == <<books, locks, req, settler, resetter>>

Row(b, e) == [balance |-> b, exposure |-> e]
NewAccount == Row(InitialBalance, 0)
Entry(t, b, a, after) == [type |-> t, bet |-> b, amount |-> a, after |-> after]
DepositEntry == Entry("INITIAL_DEPOSIT", Nobody, InitialBalance, InitialBalance)

IdleRequest == [at |-> "start", snap |-> Nobody, verdict |-> "NONE"]
Ended == [at |-> "ended", events |-> {}, event |-> Nobody, todo |-> {}, current |-> Nobody,
          result |-> Nobody, row |-> Nobody, work |-> <<>>]
IdleSettler == [Ended EXCEPT !.at = "idle"]

\* The account may exist already: any endpoint of the backend creates it.
Init ==
  /\ \/ account = Nobody /\ ledger = <<>>
     \/ account = NewAccount /\ ledger = <<DepositEntry>>
  /\ bet = [r \in Requests |-> "NONE"]
  /\ settlements = {}
  /\ proposals = {}
  /\ official = [e \in Events |-> Nobody]
  /\ accountLock = Nobody
  /\ betLock = [r \in Requests |-> Nobody]
  /\ eventLock = [e \in Events |-> Nobody]
  /\ proposalLock = [p \in Proposals |-> Nobody]
  /\ req = [r \in Requests |-> IdleRequest]
  /\ settler = [s \in Settlers |-> IdleSettler]
  /\ resetter = [x \in Resetters |-> [at |-> "start", snap |-> Nobody]]

\* SELECT ... FOR UPDATE and UPDATE wait until no other transaction holds the row.
UnlockedRead(t) == TRUE
AccountFree(t) == accountLock \in {Nobody, t}

-------------------------------------------------------------------------------
(***************************************************************************)
(* The validation gates of pipeline.py that read shared state.  The other  *)
(* gates (schema, prediction, LLM, event, market, odds, edge) pass or fail *)
(* on data no transaction of this module writes: OtherGates is either.     *)
(***************************************************************************)
OpenBets == {r \in Requests : bet[r] = "PENDING"}

IsDuplicate(r) == \E d \in OpenBets : Selection[d] = Selection[r]

StakeGate(r, row) ==
  /\ Stake[r] >= MinStake
  /\ Stake[r] * StakeDivisor <= row.balance

BankrollGate(r, row) == Stake[r] <= row.balance

ExposureWithoutStake(r, row) == row.exposure * ExposureDivisor <= InitialBalance
ExposureGate(r, row) == (row.exposure + Stake[r]) * ExposureDivisor <= InitialBalance

LossEntries == {i \in DOMAIN ledger : ledger[i].type = "BET_LOSS" /\ ledger[i].amount < 0}
LossesToday == MapThenSumSet(LAMBDA i : -ledger[i].amount, LossEntries)
DailyLossGate == LossesToday < DailyLossLimit

Accepts(r, row) ==
  /\ StakeGate(r, row)
  /\ BankrollGate(r, row)
  /\ ExposureGate(r, row)
  /\ DailyLossGate

-------------------------------------------------------------------------------
(***************************************************************************)
(* bet-manager: process_proposal, one transaction per request.             *)
(***************************************************************************)
At(r, place) == req[r].at = place
Goto(r, place) == req' = [req EXCEPT ![r].at = place]

\* Everything but the request's own state and what it committed.
Finish(r, place) ==
  /\ req' = [req EXCEPT ![r].at = place, ![r].snap = Nobody]
  /\ accountLock' = IF accountLock = r THEN Nobody ELSE accountLock
  /\ proposalLock' = [p \in Proposals |-> IF proposalLock[p] = r THEN Nobody ELSE proposalLock[p]]

Rollback(r, place) ==
  /\ Finish(r, place)
  /\ UNCHANGED <<books, betLock, eventLock, settler, resetter>>

\* The account row the transaction has inserted itself is committed with it.
CreatesAccount(r) == account = Nobody /\ accountLock = r
WithoutDeposit(r) == ledger
LedgerOf(r) == IF CreatesAccount(r) THEN Append(ledger, DepositEntry) ELSE ledger
CommitProposal(r) ==
  proposals' = proposals \cup {p \in Proposals : proposalLock[p] = r}

LoadAccount(r) ==
  /\ At(r, "start")
  /\ req' = [req EXCEPT ![r].at = IF account = Nobody THEN "create" ELSE "validate",
                        ![r].snap = account]
  /\ UNCHANGED <<books, locks, settler, resetter>>

\* virtual_accounts.name is unique: the insert waits for another uncommitted
\* one, then fails or goes through.
CreateAccount(r) ==
  /\ At(r, "create")
  /\ accountLock = Nobody
  /\ IF account = Nobody
     THEN /\ accountLock' = r
          /\ req' = [req EXCEPT ![r].at = "validate", ![r].snap = NewAccount]
          /\ UNCHANGED <<books, betLock, eventLock, proposalLock, settler, resetter>>
     ELSE Rollback(r, "failed")

Validate(r) ==
  /\ At(r, "validate")
  /\ \E otherGates \in BOOLEAN :
       req' = [req EXCEPT ![r].at = "propose",
                 ![r].verdict = IF ~otherGates THEN "REJECTED"
                                ELSE IF IsDuplicate(r) THEN "DUPLICATE"
                                ELSE IF Accepts(r, req[r].snap) THEN "ACCEPTED"
                                ELSE "REJECTED"]
  /\ UNCHANGED <<books, locks, settler, resetter>>

\* A duplicate of the client's own open bet is answered with that bet.
AnswerDuplicate(r) ==
  /\ At(r, "propose")
  /\ req[r].verdict = "DUPLICATE"
  /\ \E d \in OpenBets : Selection[d] = Selection[r] /\ Proposal[d] = Proposal[r]
  /\ Rollback(r, "answered")

\* session.get(DBBetProposal, id): sees committed rows only.
FindProposal(r) ==
  /\ At(r, "propose")
  /\ req[r].verdict = "DUPLICATE" =>
       \/ \A d \in OpenBets : Selection[d] # Selection[r]
       \/ \E d \in OpenBets : Selection[d] = Selection[r] /\ Proposal[d] # Proposal[r]
  /\ Goto(r, IF Proposal[r] \in proposals THEN "decide" ELSE "insert")
  /\ UNCHANGED <<books, locks, settler, resetter>>

\* The insert waits for an uncommitted row with the same id.  A conflict rolls
\* the transaction back and expires the loaded account (snap).
InsertProposal(r) ==
  /\ At(r, "insert")
  /\ proposalLock[Proposal[r]] = Nobody
  /\ IF Proposal[r] \in proposals
     THEN /\ req' = [req EXCEPT ![r].at = "decide", ![r].snap = Nobody]
          /\ UNCHANGED proposalLock
     ELSE /\ proposalLock' = [proposalLock EXCEPT ![Proposal[r]] = r]
          /\ Goto(r, "decide")
  /\ UNCHANGED <<books, accountLock, betLock, eventLock, settler, resetter>>

\* Reject, or find the bet an earlier request of this proposal has placed:
\* commit the proposal and its validation result, and an account created here.
NoBetLookup(p) == FALSE
HasBet(p) == \E d \in Requests : Proposal[d] = p /\ bet[d] # "NONE"

CommitWithoutBet(r) ==
  /\ At(r, "decide")
  /\ req[r].verdict # "ACCEPTED" \/ HasBet(Proposal[r])
  /\ account' = IF CreatesAccount(r) THEN NewAccount ELSE account
  /\ ledger' = LedgerOf(r)
  /\ CommitProposal(r)
  /\ Finish(r, IF req[r].verdict = "ACCEPTED" THEN "answered" ELSE "rejected")
  /\ UNCHANGED <<bet, settlements, official, betLock, eventLock, settler, resetter>>

\* Accepted, no bet yet: place_bet is entered.  An expired account is loaded
\* again when its id is read.
EnterPlaceBet(r) ==
  /\ At(r, "decide")
  /\ req[r].verdict = "ACCEPTED" /\ ~HasBet(Proposal[r])
  /\ req' = [req EXCEPT ![r].at = "place",
                        ![r].snap = IF @ = Nobody THEN account ELSE @]
  /\ UNCHANGED <<books, locks, settler, resetter>>

\* SELECT ... FOR UPDATE waits for the row, but the values used are snap's.
PlaceBet(r) ==
  LET snap == req[r].snap
      row == Row(snap.balance - Stake[r], snap.exposure + Stake[r])
  IN
  /\ At(r, "place")
  /\ AccountFree(r)
  /\ IF Stake[r] > snap.balance
     THEN Rollback(r, "failed")
     ELSE /\ bet' = [bet EXCEPT ![r] = "PENDING"]
          /\ ledger' = Append(LedgerOf(r), Entry("BET_PLACED", r, -Stake[r], row.balance))
          /\ account' = row
          /\ CommitProposal(r)
          /\ Finish(r, "placed")
          /\ UNCHANGED <<settlements, official, betLock, eventLock, settler, resetter>>

\* A database error or the end of the process: nothing of the transaction stays.
AbortRequest(r) ==
  /\ req[r].at \in {"create", "validate", "propose", "insert", "decide", "place"}
  /\ Rollback(r, "failed")

-------------------------------------------------------------------------------
(***************************************************************************)
(* settle_event_bets: a transaction per event and round of the sync, one   *)
(* for all events of a script.                                             *)
(***************************************************************************)

\* What the official result makes of a bet; "SKIP" leaves it open.
Verdict(r, result) ==
  IF Market[r] = "set_winner"
  THEN CASE result.set \in Players -> IF Outcome[r] = result.set THEN "WON" ELSE "LOST"
         [] result.set = "not_played" -> "VOID"
         [] OTHER -> "SKIP"
  ELSE CASE result.match = "cancelled" -> "VOID"
         [] OTHER -> IF Outcome[r] = result.match THEN "WON" ELSE "LOST"

BeginSettlement(s) ==
  /\ settler[s].at = "idle"
  /\ \E result \in [Events -> Results], e \in Events :
       settler' = [settler EXCEPT ![s].at = "next", ![s].result = result,
                                  ![s].events = IF s \in Scripts THEN Events ELSE {e}]
  /\ UNCHANGED <<books, locks, req, resetter>>

\* match_and_complete_event: a result weaker than the stored one leaves the
\* event row alone (the sets it knows are stored already), the bets are settled
\* all the same.
Weaker(incoming, stored) == stored # Nobody /\ incoming.rank < stored.rank

MatchEvent(s) ==
  /\ settler[s].at = "next" /\ settler[s].todo = {}
  /\ \E e \in settler[s].events :
       settler' = [settler EXCEPT
         ![s].events = @ \ {e}, ![s].event = e,
         ![s].at = IF Weaker(settler[s].result[e], official[e]) THEN "load" ELSE "complete"]
  /\ UNCHANGED <<books, locks, req, resetter>>

\* The UPDATE of the event row (finished_at is always new) waits for its holder.
CompleteEvent(s) ==
  /\ settler[s].at = "complete"
  /\ eventLock[settler[s].event] = Nobody
  /\ eventLock' = [eventLock EXCEPT ![settler[s].event] = s]
  /\ settler' = [settler EXCEPT ![s].at = "load"]
  /\ UNCHANGED <<books, accountLock, betLock, proposalLock, req, resetter>>

\* settle_event_bets loads the bets of the event without a lock; those seen open
\* are settled in turn, in the unspecified order of the SELECT.
LoadBets(s) ==
  LET e == settler[s].event IN
  /\ settler[s].at = "load"
  /\ settler' = [settler EXCEPT
       ![s].at = "next",
       ![s].todo = {r \in OpenBets : /\ Event[r] = e
                                     /\ Verdict(r, settler[s].result[e]) # "SKIP"}]
  /\ UNCHANGED <<books, locks, req, resetter>>

NextBet(s) ==
  /\ settler[s].at = "next"
  /\ \E r \in settler[s].todo :
       settler' = [settler EXCEPT ![s].at = "lockBet", ![s].current = r,
                                  ![s].todo = @ \ {r}]
  /\ UNCHANGED <<books, locks, req, resetter>>

LockBet(s) ==
  /\ settler[s].at = "lockBet"
  /\ betLock[settler[s].current] = Nobody
  /\ betLock' = [betLock EXCEPT ![settler[s].current] = s]
  /\ settler' = [settler EXCEPT ![s].at = "settleBet"]
  /\ UNCHANGED <<books, accountLock, eventLock, proposalLock, req, resetter>>

\* The worker calls the sync again; a script ends with its transaction.
AfterRound(s) == IF s \in Scripts THEN Ended ELSE IdleSettler

EndSettlement(s) ==
  /\ settler' = [settler EXCEPT ![s] = AfterRound(s)]
  /\ accountLock' = IF accountLock = s THEN Nobody ELSE accountLock
  /\ betLock' = [r \in Requests |-> IF betLock[r] = s THEN Nobody ELSE betLock[r]]
  /\ eventLock' = [e \in Events |-> IF eventLock[e] = s THEN Nobody ELSE eventLock[e]]
  /\ UNCHANGED <<proposals, proposalLock, req, resetter>>

RollbackSettlement(s) == EndSettlement(s) /\ UNCHANGED books

\* settle_bet after the bet row is locked.  The status check sees the bet as
\* loaded (open); the unique index of bet_settlements.bet_id does not.
NoUniqueBetId(r) == FALSE
AlreadySettled(r) == \E x \in settlements : x.bet = r

Credit(r, verdict) ==
  CASE verdict = "WON" -> Payout[r] [] verdict = "VOID" -> Stake[r] [] OTHER -> 0

Unclamped(exposure, stake) == exposure - stake
Released(exposure, stake) == IF exposure > stake THEN exposure - stake ELSE 0

SettledRow(row, r, verdict) ==
  Row(row.balance + Credit(r, verdict), Released(row.exposure, Stake[r]))

\* The account row as the holder of its lock reads it.
AlwaysReread(s) == account
LockedRow(s) == IF settler[s].row = Nobody THEN account ELSE settler[s].row

SettleBet(s) ==
  LET r == settler[s].current
      verdict == Verdict(r, settler[s].result[Event[r]])
      row == SettledRow(LockedRow(s), r, verdict)
  IN
  /\ settler[s].at = "settleBet"
  /\ AccountFree(s)
  /\ IF AlreadySettled(r)
     THEN RollbackSettlement(s)
     ELSE /\ accountLock' = s
          /\ settler' = [settler EXCEPT ![s].at = "next", ![s].row = row,
               ![s].work = Append(@, [bet |-> r, status |-> verdict, after |-> row.balance])]
          /\ UNCHANGED <<books, betLock, eventLock, proposalLock, req, resetter>>

VoidAsLoss(w) ==
  Entry(IF w.status = "WON" THEN "BET_WIN" ELSE "BET_LOSS", w.bet, Credit(w.bet, w.status), w.after)
OutcomeEntry(w) ==
  Entry(EntryType[w.status], w.bet, Credit(w.bet, w.status), w.after)

CommitSettlement(s) ==
  LET work == settler[s].work
      decided(r) == {i \in DOMAIN work : work[i].bet = r}
  IN
  /\ settler[s].at = "next" /\ settler[s].todo = {} /\ settler[s].events = {}
  /\ account' = LockedRow(s)
  /\ ledger' = ledger \o [i \in DOMAIN work |-> OutcomeEntry(work[i])]
  /\ bet' = [r \in Requests |-> IF decided(r) = {} THEN bet[r]
                                ELSE work[CHOOSE i \in decided(r) : TRUE].status]
  /\ settlements' = settlements \cup
                      {[bet |-> work[i].bet, status |-> work[i].status] : i \in DOMAIN work}
  /\ official' = [e \in Events |-> IF eventLock[e] = s THEN settler[s].result[e] ELSE official[e]]
  /\ EndSettlement(s)

\* The transaction s waits for, by the lock of the row its statement needs.
WaitsFor(s, t) ==
  \/ settler[s].at = "complete" /\ eventLock[settler[s].event] = t
  \/ settler[s].at = "lockBet" /\ betLock[settler[s].current] = t
  \/ settler[s].at = "settleBet" /\ accountLock = t

\* Transactions that wait for each other in a cycle: the server aborts one, v, and
\* the one that waits for v gets the row at once, being first in its queue.
Deadlocked(S) ==
  \A t \in S : /\ \E u \in S \ {t} : WaitsFor(t, u)
               /\ \E u \in S \ {t} : WaitsFor(u, t)

NoDeadlockDetection(v) == FALSE
BreakDeadlock(v) ==
  \E S \in SUBSET Settlers, o \in Settlers \ {v} :
    /\ {v, o} \subseteq S /\ Deadlocked(S) /\ WaitsFor(o, v)
    /\ settler' = [settler EXCEPT ![v] = AfterRound(v),
         ![o].at = IF @ = "complete" THEN "load" ELSE "settleBet"]
    /\ accountLock' = IF accountLock # v THEN accountLock
                      ELSE IF settler[o].at = "settleBet" THEN o ELSE Nobody
    /\ betLock' = [r \in Requests |->
         IF betLock[r] # v THEN betLock[r]
         ELSE IF settler[o].at = "lockBet" /\ settler[o].current = r THEN o ELSE Nobody]
    /\ eventLock' = [e \in Events |->
         IF eventLock[e] # v THEN eventLock[e]
         ELSE IF settler[o].at = "complete" /\ settler[o].event = e THEN o ELSE Nobody]
    /\ UNCHANGED <<books, proposalLock, req, resetter>>

-------------------------------------------------------------------------------
(***************************************************************************)
(* reset_simulation: the account is read without a lock and written at     *)
(* commit.  The ORM leaves a column out of the UPDATE when the value       *)
(* assigned equals the value loaded.                                       *)
(***************************************************************************)
ReadForReset(x) ==
  /\ resetter[x].at = "start"
  /\ resetter' = [resetter EXCEPT ![x] = [at |-> IF account = Nobody THEN "create" ELSE "write",
                                          snap |-> account]]
  /\ UNCHANGED <<books, locks, req, settler>>

CreateForReset(x) ==
  /\ resetter[x].at = "create"
  /\ accountLock = Nobody
  /\ IF account = Nobody
     THEN /\ accountLock' = x
          /\ resetter' = [resetter EXCEPT ![x] = [at |-> "write", snap |-> NewAccount]]
     ELSE /\ resetter' = [resetter EXCEPT ![x] = [at |-> "failed", snap |-> Nobody]]
          /\ UNCHANGED accountLock
  /\ UNCHANGED <<books, betLock, eventLock, proposalLock, req, settler>>

WriteReset(x) ==
  LET snap == resetter[x].snap
      row == IF CreatesAccount(x) THEN NewAccount ELSE account
  IN
  /\ resetter[x].at = "write"
  /\ AccountFree(x)
  /\ account' = Row(IF snap.balance = InitialBalance THEN row.balance ELSE InitialBalance,
                    IF snap.exposure = 0 THEN row.exposure ELSE 0)
  /\ ledger' = Append(LedgerOf(x), Entry("SIMULATION_RESET", Nobody,
                                         InitialBalance - snap.balance, InitialBalance))
  /\ resetter' = [resetter EXCEPT ![x] = [at |-> "done", snap |-> Nobody]]
  /\ accountLock' = Nobody
  /\ UNCHANGED <<bet, settlements, proposals, official, betLock, eventLock, proposalLock,
                 req, settler>>

-------------------------------------------------------------------------------
RequestStep(r) ==
  \/ LoadAccount(r) \/ CreateAccount(r) \/ Validate(r) \/ AnswerDuplicate(r)
  \/ FindProposal(r) \/ InsertProposal(r) \/ CommitWithoutBet(r) \/ EnterPlaceBet(r)
  \/ PlaceBet(r) \/ AbortRequest(r)

SettlerStep(s) ==
  \/ BeginSettlement(s) \/ MatchEvent(s) \/ CompleteEvent(s) \/ LoadBets(s) \/ NextBet(s) \/ LockBet(s) \/ SettleBet(s)
  \/ CommitSettlement(s) \/ BreakDeadlock(s)

ResetStep(x) == ReadForReset(x) \/ CreateForReset(x) \/ WriteReset(x)

Next ==
  \/ \E r \in Requests : RequestStep(r)
  \/ \E s \in Settlers : SettlerStep(s)
  \/ \E x \in Resetters : ResetStep(x)

Spec == Init /\ [][Next]_vars

\* The worker asks for a settlement round every 30 seconds, so rounds and the
\* statements of a round go on, and so does a request that holds a lock.
Fairness ==
  /\ \A s \in Settlers : WF_vars(SettlerStep(s))
  /\ \A r \in Requests : WF_vars(RequestStep(r))

FairSpec == Spec /\ Fairness
-------------------------------------------------------------------------------
(***************************************************************************)
(* Properties.                                                             *)
(***************************************************************************)
Rows == [balance : Nat, exposure : Nat]
EntryTypes == {"INITIAL_DEPOSIT", "BET_PLACED", "BET_WIN", "BET_LOSS", "BET_VOID",
               "SIMULATION_RESET"}
Entries == [type : EntryTypes, bet : Requests \cup {Nobody}, amount : Int, after : Nat]
Transactions == Requests \cup Settlers \cup Resetters
RequestStates ==
  [at : {"start", "create", "validate", "propose", "insert", "decide", "place",
         "placed", "answered", "rejected", "failed"},
   snap : Rows \cup {Nobody},
   verdict : {"NONE", "ACCEPTED", "DUPLICATE", "REJECTED"}]
WorkItems == [bet : Requests, status : Closed, after : Nat]
SettlerStates ==
  [at : {"idle", "next", "complete", "load", "lockBet", "settleBet", "ended"},
   events : SUBSET Events, event : Events \cup {Nobody}, todo : SUBSET Requests, current : Requests \cup {Nobody},
   result : [Events -> Results] \cup {Nobody}, row : Rows \cup {Nobody},
   work : Seq(WorkItems)]
ResetterStates ==
  [at : {"start", "create", "write", "done", "failed"}, snap : Rows \cup {Nobody}]

\* Every row and every transaction's state has the shape the tables and the
\* sessions give it; in particular neither column of the account goes negative,
\* although requests write it from stale values.
TypeOK ==
  /\ account \in Rows \cup {Nobody}
  /\ ledger \in Seq(Entries)
  /\ bet \in [Requests -> {"NONE", "PENDING"} \cup Closed]
  /\ settlements \subseteq [bet : Requests, status : Closed]
  /\ proposals \subseteq Proposals
  /\ accountLock \in Transactions \cup {Nobody}
  /\ official \in [Events -> Results \cup {Nobody}]
  /\ betLock \in [Requests -> Settlers \cup {Nobody}]
  /\ eventLock \in [Events -> Settlers \cup {Nobody}]
  /\ proposalLock \in [Proposals -> Requests \cup {Nobody}]
  /\ req \in [Requests -> RequestStates]
  /\ settler \in [Settlers -> SettlerStates]
  /\ resetter \in [Resetters -> ResetterStates]

OutcomeEntries(r) == {i \in DOMAIN ledger : /\ ledger[i].type \in {"BET_WIN", "BET_LOSS", "BET_VOID"}
                                            /\ ledger[i].bet = r}

\* "No bet is settled twice" (settlement.py): however settlement rounds
\* overlap, a closed bet has one settlement row and one outcome entry in the
\* ledger, both of its final status, and an open bet has none.
SettledOnce ==
  \A r \in Requests :
    IF bet[r] \in Closed
    THEN /\ \E i \in DOMAIN ledger : /\ OutcomeEntries(r) = {i}
                                     /\ ledger[i].type = EntryType[bet[r]]
         /\ {x \in settlements : x.bet = r} = {[bet |-> r, status |-> bet[r]]}
    ELSE /\ OutcomeEntries(r) = {}
         /\ {x \in settlements : x.bet = r} = {}

\* A request of the proposal was rejected, and another one of it went on.
RepeatedAfterRejection(p) ==
  \E q, r \in Requests :
    q # r /\ Proposal[q] = p /\ Proposal[r] = p /\ At(q, "rejected")

\* A client that repeats a proposal concurrently (the id is in the payload)
\* gets at most one bet for it, the insert of the proposal row serialising the
\* requests -- unless one of them was rejected: it has committed the row, and
\* later requests that find it are serialised by nothing.
OneBetPerProposal ==
  \A r, d \in Requests :
    /\ r # d /\ Proposal[r] = Proposal[d]
    /\ bet[r] # "NONE" /\ bet[d] # "NONE"
    => RepeatedAfterRejection(Proposal[r])

\* The account row shows the balance_after of the newest ledger entry, also when
\* a stale request has overwritten the balance: whoever holds the row lock last
\* writes both.  (Not with the reset: see README.)
RowIsLedgerTail ==
  IF account = Nobody THEN ledger = <<>>
  ELSE ledger # <<>> /\ Last(ledger).after = account.balance

\* The exposure column never passes the limit, although the gate reads it
\* without a lock: the request that writes it writes from the value it checked.
\* Not so after a rejected request of the same proposal: the repetition finds
\* the committed proposal row when it inserts its own, rolls back, and writes
\* from an account row it loads anew and never checked.
RowExposureWithinLimit ==
  account # Nobody /\ ~(\E r \in Requests : RepeatedAfterRejection(Proposal[r]))
  => account.exposure * ExposureDivisor <= InitialBalance

\* A settlement round moves the account by exactly what the bets it closes are
\* worth, whatever commits between its statements: no payout is lost or doubled.
ClosedNow == {r \in Requests : bet[r] = "PENDING" /\ bet'[r] \in Closed}
SettlementMovesExactly ==
  [][ClosedNow # {} =>
       /\ account'.balance = account.balance
            + MapThenSumSet(LAMBDA r : Credit(r, bet'[r]), ClosedNow)
       /\ account'.exposure = Released(account.exposure, MapThenSumSet(LAMBDA r : Stake[r], ClosedNow))
    ]_vars

\* Rounds that abort each other (deadlock, unique index) do not keep a bet open
\* for ever: every match-winner bet is settled in the end.
EventuallySettled ==
  \A r \in Requests :
    Market[r] = "match_winner" /\ bet[r] = "PENDING" ~> bet[r] \in Closed

\* The books with the amounts left out implement BetJournal.
Journal == INSTANCE BetJournal WITH
  Bets <- Requests, status <- bet,
  journal <- [i \in DOMAIN ledger |->
                <<ledger[i].type, IF ledger[i].bet = Nobody THEN "NONE" ELSE ledger[i].bet>>]
ImplementsJournal == Journal!JSpec

(***************************************************************************)
(* What the documents of the repository say and the code does not keep.    *)
(***************************************************************************)

\* 01-ARCHITECTURE.md, section 24: balance = initial_balance + sum(amounts).
BalanceFromLedger ==
  account # Nobody =>
    account.balance = MapThenSumSet(LAMBDA i : ledger[i].amount, DOMAIN ledger)

\* 01-ARCHITECTURE.md, section 23, gate 12: the stakes at risk stay within the
\* exposure limit.
OpenStakes == MapThenSumSet(LAMBDA r : Stake[r], OpenBets)
OpenStakesWithinLimit == OpenStakes * ExposureDivisor <= InitialBalance

\* 01-ARCHITECTURE.md, section 23, gate 10: no two open bets on one selection.
NoDuplicateOpenBet ==
  \A r, d \in OpenBets : r # d => Selection[r] # Selection[d]

\* 01-ARCHITECTURE.md, section 23, gate 14: no proposal is accepted on a day
\* whose lost stakes have reached the limit.
LostStakes == MapThenSumSet(LAMBDA r : Stake[r], {r \in Requests : bet[r] = "LOST"})
DailyLossStops ==
  [][\A r \in Requests : req[r].verdict = "NONE" /\ req'[r].verdict = "ACCEPTED"
                         => LostStakes < DailyLossLimit]_vars

\* reconciliation.py, reconcile_account: locked exposure matches the sum of the
\* pending bets.
ExposureIsOpenStakes == account # Nobody => account.exposure = OpenStakes
===============================================================================
