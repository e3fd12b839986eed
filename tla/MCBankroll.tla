------------------------------ MODULE MCBankroll ------------------------------
(***************************************************************************)
(* Values for the constants of Bankroll.  One unit of money is the minimum *)
(* stake, 50 RUB: the account starts with 20 units (1000 RUB), one bet may *)
(* take a fifth of the balance, all open bets a fifth of 20 (4 units), the *)
(* daily loss limit is 15 % (3 units), as in bet-manager's config.py.      *)
(***************************************************************************)
EXTENDS Bankroll, TLC

\* Requests are numbered, so a function of requests is a tuple.
TwoThenOne == [r \in Requests |-> IF r = 3 THEN 2 ELSE 1]
DistinctProposals == [r \in Requests |-> r]
DistinctSelections == [r \in Requests |-> r]
MatchMarkets == [r \in Requests |-> "match_winner"]
MixedMarkets == [r \in Requests |-> IF r = 2 THEN "set_winner" ELSE "match_winner"]
OneEvent == [r \in Requests |-> "e"]
AllOnA == [r \in Requests |-> "player_a"]
OneEach == [r \in Requests |-> IF r = 1 THEN "player_a" ELSE "player_b"]
StakesThreeOne == [r \in Requests |-> IF r = 1 THEN 3 ELSE 1]
StakesThree == [r \in Requests |-> 3]
StakesTwoTwoThree == [r \in Requests |-> IF r = 3 THEN 3 ELSE 2]
PayoutDouble == [r \in Requests |-> 2 * Stake[r]]

WonByA == {[match |-> "player_a", set |-> "player_b", rank |-> 2]}
WonByB == {[match |-> "player_b", set |-> "player_b", rank |-> 2]}
\* The feed shows the match cancelled and completed; a cancelled one, having no
\* score, is the weaker.
AOrCancelled == WonByA \cup {[match |-> "cancelled", set |-> "not_played", rank |-> 0]}
\* Two feeds disagree: one has A the winner and tells nothing of the set bet on,
\* the other, with more sets, has B the winner and that set not played.
TwoFeeds == {[match |-> "player_a", set |-> "unknown", rank |-> 2],
             [match |-> "player_b", set |-> "not_played", rank |-> 3]}
===============================================================================
