--------------------------- MODULE MultipleChoice ---------------------------
(***************************************************************************)
(* The pure part of a multiple choice proposal:                            *)
(* packages/dao-voting/src/multiple_choice.rs and                          *)
(* contracts/proposal/dao-proposal-multiple/src/proposal.rs.  Choices are  *)
(* numbered from zero as in the code; vote_weights is the function from a  *)
(* choice to its votes.  Clock, veto and expirations are those of          *)
(* SingleChoiceProposal.                                                   *)
(***************************************************************************)
EXTENDS Integers, Sequences, FiniteSets, Functions

CONSTANTS PrecisionFactor, DecimalOne

V == INSTANCE SingleChoiceProposal

MAX_NUM_CHOICES == 20

\* MultipleChoiceVotes
zero(num_choices) == [i \in 0 .. num_choices - 1 |-> 0]
add_vote(votes, vote, weight) == [votes EXCEPT ![vote] = @ + weight]
remove_vote(votes, vote, weight) == [votes EXCEPT ![vote] = @ - weight]
total(votes) == FoldFunction(LAMBDA a, b : a + b, 0, votes)

\* The condition on which into_checked returns no error.
valid_options(options) == Len(options) \in 2 .. MAX_NUM_CHOICES

\* The options' message lists in order, and then "none of the above" with none.
into_checked(options) ==
    [i \in 0 .. Len(options) |->
        IF i < Len(options) THEN [option_type |-> "standard", msgs |-> options[i + 1]]
        ELSE [option_type |-> "none", msgs |-> <<>>]]

----------------------------------------------------------------------------
\* The choices with the most votes: one is the winner, several are a tie.
calculate_vote_result(p) ==
    {i \in DOMAIN p.votes : \A j \in DOMAIN p.votes : p.votes[j] <= p.votes[i]}

\* The votes not yet cast cannot make another choice overtake the winner.  If
\* the winner is "none of the above" a tie does as well: it fails the proposal.
is_choice_unbeatable(p, winner) ==
    \A second \in DOMAIN p.votes \ {winner} :
        LET reachable == p.votes[second] + (p.total_power - total(p.votes)) IN
        \/ p.votes[winner] > reachable
        \/ p.choices[winner].option_type = "none" /\ p.votes[winner] = reachable

quorum_met(p) == V!does_vote_count_pass(total(p.votes), p.total_power, p.quorum)

is_passed(p, now) ==
    /\ p.allow_revoting => V!is_expired(p.expiration, now)
    /\ V!is_expired(p.min_voting_period, now)
    /\ quorum_met(p)
    /\ \E winner \in calculate_vote_result(p) :
           /\ calculate_vote_result(p) = {winner}
           /\ p.choices[winner].option_type # "none"
           /\ V!is_expired(p.expiration, now) \/ is_choice_unbeatable(p, winner)

is_rejected(p, now) ==
    LET leaders == calculate_vote_result(p)
        expired == V!is_expired(p.expiration, now)
    IN  /\ p.allow_revoting => expired
        /\ IF Cardinality(leaders) > 1 THEN expired \/ p.total_power = total(p.votes)
           ELSE \E winner \in leaders :
                  LET none_wins == p.choices[winner].option_type = "none" IN
                  IF expired THEN quorum_met(p) => none_wins
                  ELSE none_wins /\ is_choice_unbeatable(p, winner)

current_status(p, now) ==
    CASE p.status = "open" /\ is_passed(p, now) ->
             IF p.veto.kind = "veto" /\ ~V!is_expired(V!timelock_expiration(p), now)
             THEN "veto_timelock" ELSE "passed"
      [] p.status = "open" /\ ~is_passed(p, now) ->
             IF V!is_expired(p.expiration, now) \/ is_rejected(p, now) THEN "rejected" ELSE "open"
      [] p.status = "veto_timelock" ->
             IF V!is_expired(V!timelock_expiration(p), now) THEN "passed" ELSE "veto_timelock"
      [] OTHER -> p.status

update_status(p, now) == [p EXCEPT !.status = current_status(p, now)]
=============================================================================
