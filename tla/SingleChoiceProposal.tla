------------------------- MODULE SingleChoiceProposal ------------------------
(***************************************************************************)
(* The pure part of a single choice proposal:                              *)
(* contracts/proposal/dao-proposal-single/src/proposal.rs.                 *)
(*                                                                         *)
(* Time is a single block clock: Duration and Expiration may be heights or *)
(* times in the code, but validate_voting_period and VetoConfig::validate  *)
(* force one unit per configuration.  Expiration::is_expired is            *)
(* now >= expiration.  A min_voting_period of None is an expiration that   *)
(* has already passed.  The expiration carried by Status::VetoTimelock is  *)
(* always expiration + timelock_duration of the same (immutable) fields,   *)
(* so it is computed, not stored.                                          *)
(***************************************************************************)
EXTENDS Threshold

Status == {"open", "passed", "rejected", "executed", "closed",
           "execution_failed", "veto_timelock", "vetoed"}

is_expired(expiration, now) == now >= expiration

NoVeto == [kind |-> "none"]

\* Some(VetoConfig)
VetoConfig(Addr) ==
    [kind : {"veto"}, timelock_duration : Nat, vetoer : Addr,
     early_execute : BOOLEAN, veto_before_passed : BOOLEAN]

\* struct SingleChoiceProposal over a set of addresses and of message lists
Proposal(Addr, Msgs) ==
    [start_height : Nat, min_voting_period : Nat, expiration : Nat,
     threshold : Threshold, total_power : Nat, msgs : Msgs, status : Status,
     votes : Votes, allow_revoting : BOOLEAN,
     veto : {NoVeto} \cup VetoConfig(Addr)]

----------------------------------------------------------------------------
\* Does the tally reach the proposal's threshold?  (The match at the end of
\* is_passed.)
tally_passes(p, now) ==
    LET t == p.threshold
        all_options == p.total_power - p.votes["abstain"]
        cast_options == total(p.votes) - p.votes["abstain"]
    IN  CASE t.kind = "absolute_percentage" ->
                 does_vote_count_pass(p.votes["yes"], all_options, t.percentage)
          [] t.kind = "threshold_quorum" ->
                 /\ does_vote_count_pass(total(p.votes), p.total_power, t.quorum)
                 /\ does_vote_count_pass(
                        p.votes["yes"],
                        IF is_expired(p.expiration, now) THEN cast_options ELSE all_options,
                        t.threshold)
          [] t.kind = "absolute_count" -> p.votes["yes"] >= t.threshold

\* Mutant: decides early although votes can still be changed.
is_passed_ignoring_revotes(p, now) ==
    is_expired(p.min_voting_period, now) /\ tally_passes(p, now)

\* Nothing is decided before the end if votes may be changed, and nothing
\* passes before the minimum voting period is over.
is_passed(p, now) ==
    /\ p.allow_revoting => is_expired(p.expiration, now)
    /\ is_expired(p.min_voting_period, now)
    /\ tally_passes(p, now)

\* Do the no votes make percentage unreachable?  A 100% threshold is decided
\* by a single no vote.
no_votes_reject(no_votes, options, percentage) ==
    IF percentage = Percent(DecimalOne)
    THEN options = 0 \/ no_votes >= 1
    ELSE does_vote_count_fail(no_votes, options, percentage)

\* The match at the end of is_rejected.
tally_rejects(p, now) ==
    LET t == p.threshold
        all_options == p.total_power - p.votes["abstain"]
        cast_options == total(p.votes) - p.votes["abstain"]
        quorum_met == does_vote_count_pass(total(p.votes), p.total_power, t.quorum)
    IN  CASE t.kind = "absolute_percentage" ->
                 no_votes_reject(p.votes["no"], all_options, t.percentage)
          [] t.kind = "threshold_quorum" ->
                 IF is_expired(p.expiration, now)
                 THEN \/ ~quorum_met
                      \/ no_votes_reject(p.votes["no"], cast_options, t.threshold)
                 ELSE no_votes_reject(p.votes["no"], all_options, t.threshold)
          [] t.kind = "absolute_count" ->
                 p.votes["yes"] + (p.total_power - total(p.votes)) < t.threshold

\* Mutant: forgets that votes can still be changed.
is_rejected_ignoring_revotes(p, now) == tally_rejects(p, now)

is_rejected(p, now) ==
    /\ p.allow_revoting => is_expired(p.expiration, now)
    /\ tally_rejects(p, now)

----------------------------------------------------------------------------
\* The end of the veto timelock: it is counted from the proposal's expiration,
\* however early the proposal passed.
timelock_expiration(p) == p.expiration + p.veto.timelock_duration

\* Mutant: no timelock between passing and execution.
current_status_without_timelock(p, now) ==
    CASE p.status = "open" /\ is_passed(p, now) -> "passed"
      [] p.status = "open" /\ ~is_passed(p, now) ->
             IF is_expired(p.expiration, now) \/ is_rejected(p, now)
             THEN "rejected" ELSE "open"
      [] OTHER -> p.status

\* Mutant: an undecided proposal is not rejected when it expires.
current_status_never_expires(p, now) ==
    CASE p.status = "open" /\ is_passed(p, now) -> "passed"
      [] p.status = "open" /\ ~is_passed(p, now) ->
             IF is_rejected(p, now) THEN "rejected" ELSE "open"
      [] OTHER -> p.status

current_status(p, now) ==
    CASE p.status = "open" /\ is_passed(p, now) ->
             IF p.veto.kind = "veto" /\ ~is_expired(timelock_expiration(p), now)
             THEN "veto_timelock" ELSE "passed"
      [] p.status = "open" /\ ~is_passed(p, now) ->
             IF is_expired(p.expiration, now) \/ is_rejected(p, now)
             THEN "rejected" ELSE "open"
      [] p.status = "veto_timelock" ->
             IF is_expired(timelock_expiration(p), now)
             THEN "passed" ELSE "veto_timelock"
      [] OTHER -> p.status

update_status(p, now) == [p EXCEPT !.status = current_status(p, now)]
=============================================================================
