------------------------------ MODULE BetJournal ------------------------------
(***************************************************************************)
(* What the virtual bankroll promises its readers, whatever the number of  *)
(* services writing to it: a bet is placed once, is settled once, and the  *)
(* journal (ledger_entries without the amounts) tells exactly that story.  *)
(* Bankroll.tla shows the transactions of the code implement it.           *)
(***************************************************************************)
EXTENDS Sequences, FiniteSets, SequencesExt

CONSTANT Bets            \* the bets that may ever be placed

Open == "PENDING"
Unplaced == "NONE"
Closed == {"WON", "LOST", "VOID"}
EntryOf == [WON |-> "BET_WIN", LOST |-> "BET_LOSS", VOID |-> "BET_VOID"]

VARIABLES status,        \* bets.status, Unplaced before the row exists
          journal        \* <<entry type, bet>> in the order of creation

jvars == <<status, journal>>

\* The first INITIAL_DEPOSIT entry is written together with the first entry
\* after it, or alone by a rejected proposal.
Deposit(j) == IF j = <<>> THEN <<<<"INITIAL_DEPOSIT", Unplaced>>>> ELSE j

JInit ==
  /\ status = [b \in Bets |-> Unplaced]
  /\ journal \in {<<>>, Deposit(<<>>)}

OpenAccount ==
  /\ journal = <<>>
  /\ journal' = Deposit(journal)
  /\ UNCHANGED status

Place(b) ==
  /\ status[b] = Unplaced
  /\ status' = [status EXCEPT ![b] = Open]
  /\ journal' = Append(Deposit(journal), <<"BET_PLACED", b>>)

\* One transaction closes a set of open bets of an event, in some order.
Settle(closing, verdict) ==
  /\ closing # {}
  /\ \A b \in closing : status[b] = Open
  /\ status' = [b \in Bets |-> IF b \in closing THEN verdict[b] ELSE status[b]]
  /\ \E order \in SetToSeqs(closing) :
       journal' = journal \o [i \in 1 .. Len(order) |->
                                <<EntryOf[verdict[order[i]]], order[i]>>]

Reset ==
  /\ journal' = Append(Deposit(journal), <<"SIMULATION_RESET", Unplaced>>)
  /\ UNCHANGED status

JNext ==
  \/ OpenAccount
  \/ \E b \in Bets : Place(b)
  \/ \E closing \in SUBSET Bets : \E verdict \in [closing -> Closed] : Settle(closing, verdict)
  \/ Reset

JSpec == JInit /\ [][JNext]_jvars
===============================================================================
