----------------------------- MODULE Threshold -----------------------------
(***************************************************************************)
(* Vote counting shared by the proposal modules: packages/dao-voting,      *)
(* voting.rs and threshold.rs.                                             *)
(*                                                                         *)
(* A Decimal is the integer number of its atomics.  DecimalOne stands for  *)
(* the 10^18 atomics of Decimal::one() and PrecisionFactor for             *)
(* PRECISION_FACTOR (10^9).  Both are parameters: TLC gives them small     *)
(* values that keep the two roundings of the code (the Decimal itself, and *)
(* the floor of multiply_ratio), the theorems hold for every value.        *)
(* The products are Uint256 in the code and cannot overflow.               *)
(***************************************************************************)
EXTENDS Integers

CONSTANTS PrecisionFactor,   \* PRECISION_FACTOR
          DecimalOne         \* atomics of Decimal::one()

ASSUME PrecisionAssumption ==
    /\ PrecisionFactor \in Nat \ {0}
    /\ DecimalOne \in Nat \ {0}

----------------------------------------------------------------------------
(* Types *)

\* enum PercentageThreshold
PercentageThreshold ==
    [kind : {"majority"}] \cup [kind : {"percent"}, atomics : Nat]

\* enum Threshold
Threshold ==
         [kind : {"absolute_percentage"}, percentage : PercentageThreshold]
    \cup [kind : {"threshold_quorum"}, threshold : PercentageThreshold,
                                       quorum : PercentageThreshold]
    \cup [kind : {"absolute_count"}, threshold : Nat]

\* enum Vote
Vote == {"yes", "no", "abstain"}

\* struct Votes
Votes == [Vote -> Nat]

Percent(n) == [kind |-> "percent", atomics |-> n]
Majority == [kind |-> "majority"]

----------------------------------------------------------------------------
(* Votes *)

\* Votes::zero
zero == [v \in Vote |-> 0]

\* Votes::add_vote
add_vote(votes, vote, power) == [votes EXCEPT ![vote] = @ + power]

\* Votes::remove_vote
remove_vote(votes, vote, power) == [votes EXCEPT ![vote] = @ - power]

\* Votes::total
total(votes) == votes["yes"] + votes["no"] + votes["abstain"]

----------------------------------------------------------------------------
(* Comparison of a count with a percentage of the voting power *)

\* The right-hand side of the comparison in compare_vote_count, rounded down.
scaled_threshold(total_power, pct) ==
    (total_power * PrecisionFactor * pct) \div DecimalOne

compare_vote_count(votes, cmp, total_power, pct) ==
    CASE cmp = "Greater" -> votes * PrecisionFactor > scaled_threshold(total_power, pct)
      [] cmp = "Geq"     -> votes * PrecisionFactor >= scaled_threshold(total_power, pct)

\* Nothing can pass when there is no option left (all votes are abstain).
does_vote_count_pass(vote_weights, options, percent) ==
    /\ options # 0
    /\ IF percent.kind = "majority"
       THEN vote_weights * 2 > options
       ELSE compare_vote_count(vote_weights, "Geq", options, percent.atomics)

does_vote_count_fail(no_votes, options, percent) ==
    \/ options = 0
    \/ IF percent.kind = "majority"
       THEN no_votes * 2 >= options
       ELSE compare_vote_count(no_votes, "Greater", options, DecimalOne - percent.atomics)

----------------------------------------------------------------------------
(* Validation *)

\* 0 < percent <= 1
validate_percentage(percent) ==
    percent.kind = "percent" => percent.atomics # 0 /\ percent.atomics <= DecimalOne

\* quorum <= 1; a quorum may be zero.
validate_quorum(quorum) ==
    quorum.kind = "percent" => quorum.atomics <= DecimalOne

\* Threshold::validate
validate(t) ==
    CASE t.kind = "absolute_percentage" -> validate_percentage(t.percentage)
      [] t.kind = "threshold_quorum"    -> validate_percentage(t.threshold)
                                           /\ validate_quorum(t.quorum)
      [] t.kind = "absolute_count"      -> t.threshold # 0

\* validate_voting_period: the minimum may not exceed the maximum.  Both are
\* in the clock's one unit, so the units cannot conflict; a minimum of zero
\* stands for None, which is_passed treats alike.
validate_voting_period(min, max) == min <= max
=============================================================================
