----------------------------- MODULE Condorcet ------------------------------
(***************************************************************************)
(* The pure part of a ranked choice proposal: cell.rs, m.rs, vote.rs,      *)
(* tally.rs and proposal.rs of                                             *)
(* contracts/proposal/dao-proposal-condorcet/src.  Candidates and the      *)
(* cells of M are numbered from zero as in the code.                       *)
(***************************************************************************)
EXTENDS Integers, Sequences, FiniteSetsExt, Functions

CONSTANTS PrecisionFactor, DecimalOne

V == INSTANCE SingleChoiceProposal

----------------------------------------------------------------------------
(* Cell: a Uint128 with a sign.  Zero has no magnitude. *)

Zero == [sign |-> "zero", n |-> 0]
Positive(n) == [sign |-> "positive", n |-> n]
Negative(n) == [sign |-> "negative", n |-> n]

invert(cell) ==
    CASE cell.sign = "positive" -> Negative(cell.n)
      [] cell.sign = "zero" -> Zero
      [] cell.sign = "negative" -> Positive(cell.n)

cell_increment(cell, amount) ==
    CASE cell.sign = "positive" -> Positive(cell.n + amount)
      [] cell.sign = "zero" -> Positive(amount)
      [] cell.sign = "negative" ->
             IF amount = cell.n THEN Zero
             ELSE IF amount > cell.n THEN Positive(amount - cell.n)
             ELSE Negative(cell.n - amount)

cell_decrement(cell, amount) ==
    CASE cell.sign = "positive" ->
             IF amount = cell.n THEN Zero
             ELSE IF amount > cell.n THEN Negative(amount - cell.n)
             ELSE Positive(cell.n - amount)
      [] cell.sign = "zero" -> Negative(amount)
      [] cell.sign = "negative" -> Negative(cell.n + amount)

----------------------------------------------------------------------------
(* M: an antisymmetric n by n matrix of which the upper diagonal is stored. *)

NewM(n) == [n |-> n, cells |-> [i \in 0 .. (n * (n - 1)) \div 2 - 1 |-> Zero]]

\* The place of (x, y), where x > y, in the cells.
index(m, x, y) == y * m.n - ((y + 1) * y) \div 2 + (x - (y + 1))

get(m, x, y) ==
    IF x < y THEN invert(m.cells[index(m, y, x)]) ELSE m.cells[index(m, x, y)]

decrement(m, x, y, amount) ==
    IF x < y THEN [m EXCEPT !.cells[index(m, y, x)] = cell_increment(@, amount)]
    ELSE [m EXCEPT !.cells[index(m, x, y)] = cell_decrement(@, amount)]

Candidates(m) == 0 .. m.n - 1

Column(m, col) == {get(m, col, row) : row \in Candidates(m) \ {col}}

Magnitudes(cells, sign) == {c.n : c \in {d \in cells : d.sign = sign}}

\* What the cells of a column lack to be positive, by row.
Lacks(m, col) ==
    [row \in Candidates(m) \ {col} |->
        LET cell == get(m, col, row) IN IF cell.sign = "positive" THEN 0 ELSE cell.n + 1]

distance_from_positivity(m, col) ==
    MapThenSumSet(LAMBDA row : Lacks(m, col)[row], DOMAIN Lacks(m, col))

\* Mutant: forgets that a voter lifts all cells of a column at once.
winnable_one_cell(m, col, power_outstanding) ==
    distance_from_positivity(m, col) <= power_outstanding

\* Neither claim of the proof of early rejection holds for the column.
winnable(m, col, power_outstanding) ==
    /\ distance_from_positivity(m, col) <= power_outstanding * (m.n - 1)
    /\ \A v \in Magnitudes(Column(m, col), "negative") : v < power_outstanding
    /\ 0 < power_outstanding

PositiveColumns(m) == {col \in Candidates(m) : distance_from_positivity(m, col) = 0}

----------------------------------------------------------------------------
(* Votes and their tally *)

\* Vote::new: a ranking of all candidates.
ValidVote(vote, candidates) ==
    /\ Len(vote) = candidates
    /\ \A i \in DOMAIN vote : vote[i] < candidates
    /\ IsInjective(vote)

\* Winner, from the first positive column that stats finds, if any.
winner(tally) ==
    LET positive == PositiveColumns(tally.m)
        first == CHOOSE col \in positive : \A other \in positive : col <= other
        undisputed == \A margin \in Magnitudes(Column(tally.m, first), "positive") :
                          margin > tally.power_outstanding
    IN  IF positive # {}
        THEN [kind |-> IF undisputed THEN "undisputed" ELSE "some", candidate |-> first]
        ELSE [kind |-> IF \E col \in Candidates(tally.m) :
                             winnable(tally.m, col, tally.power_outstanding)
                       THEN "none" ELSE "never"]

Counted(tally) == [tally EXCEPT !.winner = winner(tally)]

NewTally(candidates, total_power, start_height, expiration) ==
    Counted([m |-> NewM(candidates), power_outstanding |-> total_power,
             winner |-> [kind |-> "none"], start_height |-> start_height,
             expiration |-> expiration])

\* Every candidate is defeated by those before it in the vote.
add_vote(tally, vote, power) ==
    LET defeats == {d \in (DOMAIN vote) \X (DOMAIN vote) : d[1] < d[2]}
    IN  Counted([tally EXCEPT
            !.m = FoldSet(LAMBDA d, m : decrement(m, vote[d[2]], vote[d[1]], power), @, defeats),
            !.power_outstanding = @ - power])

----------------------------------------------------------------------------
(* The proposal's status; a passed one carries its winner. *)

Open == [kind |-> "open"]
Rejected == [kind |-> "rejected"]
Passed(candidate) == [kind |-> "passed", winner |-> candidate]

status(p, tally, now) ==
    LET expired == V!is_expired(tally.expiration, now)
        quorum == V!does_vote_count_pass(p.total_power - tally.power_outstanding,
                                         p.total_power, p.quorum)
        w == tally.winner
    IN  IF p.last_status # Open \/ ~V!is_expired(p.min_voting_period, now) THEN p.last_status
        ELSE IF (expired /\ ~quorum) \/ w.kind = "never" THEN Rejected
        ELSE CASE w.kind = "none" -> IF expired THEN Rejected ELSE Open
               [] w.kind = "some" -> IF expired THEN Passed(w.candidate) ELSE Open
               [] w.kind = "undisputed" -> IF quorum THEN Passed(w.candidate) ELSE Open

update_status(p, tally, now) == [p EXCEPT !.last_status = status(p, tally, now)]
=============================================================================
