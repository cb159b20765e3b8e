-------------------------- MODULE ProposalCondorcet --------------------------
(***************************************************************************)
(* The ranked choice proposal module:                                      *)
(* contracts/proposal/dao-proposal-condorcet/src/contract.rs.  Handlers    *)
(* are sets of storages as in ProposalMultiple; there are no hooks, and    *)
(* the status of a proposal is only saved when it is executed or closed.   *)
(***************************************************************************)
EXTENDS Integers, SequencesExt

CONSTANTS PrecisionFactor, DecimalOne,
          Addr,      \* accounts and contracts
          Faulty,    \* contracts that may return an error when called
          PowerAt    \* voting power of an address at a height

CD == INSTANCE Condorcet

total_power(h) == FoldFunction(LAMBDA a, b : a + b, 0, PowerAt[h])

\* struct Config
Config ==
    [quorum : CD!V!PercentageThreshold, min_voting_period : Nat, voting_period : Nat,
     close_proposals_on_execution_failure : BOOLEAN]

\* The calls the DAO makes.
Call == [kind : {"external"}, to : Addr] \cup [kind : {"update_config"}, config : Config]

\* UncheckedConfig::into_checked
ValidConfig(c) ==
    /\ CD!V!validate_quorum(c.quorum)
    /\ CD!V!validate_voting_period(c.min_voting_period, c.voting_period)

\* ran lists, for each proposal, the choices whose messages have taken effect.
instantiate(config) ==
    IF ValidConfig(config)
    THEN {[kind |-> "condorcet", config |-> config, proposals |-> <<>>, tallies |-> <<>>,
           votes |-> <<>>, ran |-> <<>>]}
    ELSE {}

\* Only the DAO may call it.
execute_set_config(s, config) == IF ValidConfig(config) THEN {[s EXCEPT !.config = config]} ELSE {}

NewProposal(s, now, choices) ==
    [last_status |-> CD!Open, quorum |-> s.config.quorum,
     min_voting_period |-> now + s.config.min_voting_period,
     close_on_execution_failure |-> s.config.close_proposals_on_execution_failure,
     total_power |-> total_power(now), choices |-> choices]

\* "None of the above" is the last choice.
execute_propose(s, now, sender, choices) ==
    LET tally == CD!NewTally(Len(choices) + 1, total_power(now), now, now + s.config.voting_period)
        p == NewProposal(s, now, Append(choices, <<>>))
    IN  IF PowerAt[now][sender] # 0 /\ choices # <<>>
        THEN {[s EXCEPT !.proposals = Append(@, CD!update_status(p, tally, now)),
                        !.tallies = Append(@, tally),
                        !.votes = Append(@, [a \in Addr |-> <<>>]),
                        !.ran = Append(@, <<>>)]}
        ELSE {}

MayVote(s, now, sender, id) ==
    /\ PowerAt[s.tallies[id].start_height][sender] # 0
    /\ s.votes[id][sender] = <<>>
    /\ ~CD!V!is_expired(s.tallies[id].expiration, now)

execute_vote(s, now, sender, id, vote) ==
    LET tally == s.tallies[id] IN
    IF MayVote(s, now, sender, id) /\ CD!ValidVote(vote, tally.m.n)
    THEN {[s EXCEPT !.votes[id][sender] = vote,
                    !.tallies[id] = CD!add_vote(tally, vote, PowerAt[tally.start_height][sender])]}
    ELSE {}

\* A message of the DAO: to this contract, or to another ("external").
DaoCall(s, call) ==
    IF call.kind = "update_config" THEN execute_set_config(s, call.config) ELSE {s}

\* The DAO runs the messages of the winning choice, in order and all or none.
Executed(s, id, winner) ==
    FoldLeft(LAMBDA results, m : UNION {DaoCall(t, m) : t \in results},
             {[s EXCEPT !.ran[id] = Append(@, winner)]}, s.proposals[id].choices[winner + 1])

MayFail(s, id, winner) ==
    \/ Executed(s, id, winner) = {}
    \/ \E i \in DOMAIN s.proposals[id].choices[winner + 1] :
           LET m == s.proposals[id].choices[winner + 1][i] IN m.kind = "external" /\ m.to \in Faulty

\* The reply to a failed execution.
reply(s, id) == {[s EXCEPT !.proposals[id].last_status = [kind |-> "execution_failed"]]}

execute_execute(s, now, sender, id) ==
    LET tally == s.tallies[id]
        p == CD!update_status(s.proposals[id], tally, now)
        saved == [s EXCEPT !.proposals[id] = [p EXCEPT !.last_status = [kind |-> "executed"]]]
        winner == p.last_status.winner
    IN  IF PowerAt[tally.start_height][sender] # 0 /\ p.last_status.kind = "passed"
        THEN Executed(saved, id, winner)
             \cup (IF MayFail(saved, id, winner) /\ p.close_on_execution_failure
                   THEN reply(saved, id) ELSE {})
        ELSE {}

execute_close(s, now, id) ==
    LET p == CD!update_status(s.proposals[id], s.tallies[id], now) IN
    IF p.last_status.kind = "rejected"
    THEN {[s EXCEPT !.proposals[id] = [p EXCEPT !.last_status = [kind |-> "closed"]]]}
    ELSE {}
=============================================================================
