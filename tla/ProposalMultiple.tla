-------------------------- MODULE ProposalMultiple ---------------------------
(***************************************************************************)
(* The multiple choice proposal module:                                    *)
(* contracts/proposal/dao-proposal-multiple/src/contract.rs.               *)
(*                                                                         *)
(* A handler is the set of storages its transaction may leave, {} if it    *)
(* returns an error: its own writes and then, message by message, those of *)
(* the messages it returns and of reply.  What a receiver is told does not *)
(* matter here, only whether it fails; receivers that call back into a     *)
(* proposal module are the subject of ProposalSingle.                      *)
(***************************************************************************)
EXTENDS CosmWasm, FiniteSets, Hooks, ReplyId

CONSTANTS PrecisionFactor, DecimalOne,
          Addr,      \* accounts and contracts
          Dao,       \* the DAO's core contract
          Faulty,    \* contracts that may return an error when called
          PowerAt    \* voting power of an address at a height

MC == INSTANCE MultipleChoice

total_power(h) == MC!total(PowerAt[h])

Anyone == [kind |-> "anyone"]
Module(addr) == [kind |-> "module", addr |-> addr]

Policy == {Anyone} \cup {Module(addr) : addr \in Addr}

\* struct Config
Config ==
    [quorum : MC!V!PercentageThreshold, min_voting_period : Nat, max_voting_period : Nat,
     allow_revoting : BOOLEAN, close_proposal_on_execution_failure : BOOLEAN,
     only_members_execute : BOOLEAN, veto : {MC!V!NoVeto} \cup MC!V!VetoConfig(Addr)]

\* The calls the DAO makes: to other contracts, and the ones only it may make here.
Call ==
         [kind : {"external"}, to : Addr]
    \cup [kind : {"update_config"}, config : Config]
    \cup [kind : {"update_pre_propose_info"}, policy : Policy]
    \cup [kind : {"add_proposal_hook", "remove_proposal_hook", "add_vote_hook", "remove_vote_hook"},
          addr : Addr]

\* VotingStrategy::validate and the other checks on a configuration.  The vetoer is
\* an address and all durations are in one unit, so veto_config.validate succeeds.
ValidConfig(c) ==
    /\ MC!V!validate_quorum(c.quorum)
    /\ MC!V!validate_voting_period(c.min_voting_period, c.max_voting_period)

NoBallot == [vote |-> -1, power |-> 0, rationale |-> "none"]

\* The storage after instantiation; ran lists, for each proposal, the choices
\* whose messages have taken effect.
instantiate(config, policy) ==
    IF ValidConfig(config)
    THEN {[kind |-> "multiple", config |-> config, policy |-> policy,
           proposals |-> <<>>, ballots |-> <<>>, proposal_hooks |-> <<>>,
           vote_hooks |-> <<>>, ran |-> <<>>]}
    ELSE {}

----------------------------------------------------------------------------
(* Handlers only the DAO may call; a new pre-propose module is installed when
   its instantiation succeeds *)

execute_update_config(s, config) == IF ValidConfig(config) THEN {[s EXCEPT !.config = config]} ELSE {}

execute_update_proposal_creation_policy(s, policy) == {[s EXCEPT !.policy = policy]}

execute_add_proposal_hook(s, addr) ==
    IF can_add_hook(s.proposal_hooks, addr)
    THEN {[s EXCEPT !.proposal_hooks = add_hook(@, addr)]} ELSE {}

execute_remove_proposal_hook(s, addr) ==
    IF can_remove_hook(s.proposal_hooks, addr)
    THEN {[s EXCEPT !.proposal_hooks = remove_hook(@, addr)]} ELSE {}

execute_add_vote_hook(s, addr) ==
    IF can_add_hook(s.vote_hooks, addr)
    THEN {[s EXCEPT !.vote_hooks = add_hook(@, addr)]} ELSE {}

execute_remove_vote_hook(s, addr) ==
    IF can_remove_hook(s.vote_hooks, addr)
    THEN {[s EXCEPT !.vote_hooks = remove_hook(@, addr)]} ELSE {}

\* A message of the DAO: to this contract, or to another ("external").
DaoCall(s, call) ==
    CASE call.kind = "external" -> {s}
      [] call.kind = "update_config" -> execute_update_config(s, call.config)
      [] call.kind = "update_pre_propose_info" ->
             execute_update_proposal_creation_policy(s, call.policy)
      [] call.kind = "add_proposal_hook" -> execute_add_proposal_hook(s, call.addr)
      [] call.kind = "remove_proposal_hook" -> execute_remove_proposal_hook(s, call.addr)
      [] call.kind = "add_vote_hook" -> execute_add_vote_hook(s, call.addr)
      [] call.kind = "remove_vote_hook" -> execute_remove_vote_hook(s, call.addr)

----------------------------------------------------------------------------
(* Messages and replies *)

ProposalHookMsgs(s) ==
    [i \in DOMAIN s.proposal_hooks |->
        MsgReplyOnError(s.proposal_hooks[i], <<>>, mask_proposal_hook_index(i - 1))]

proposal_status_changed_hooks(s, old_status, new_status) ==
    IF old_status = new_status THEN <<>> ELSE ProposalHookMsgs(s)

proposal_completed_hooks(s) ==
    IF s.policy.kind = "anyone" THEN <<>>
    ELSE <<MsgReplyOnError(s.policy.addr, <<>>, FAILED_PRE_PROPOSE_MODULE_HOOK_ID)>>

new_vote_hooks(s) ==
    [i \in DOMAIN s.vote_hooks |->
        MsgReplyOnError(s.vote_hooks[i], <<>>, mask_vote_hook_index(i - 1))]

\* Mutant: a failed execution leaves the proposal as it is.
reply_ignored(s, reply_id) == {s}

reply(s, reply_id) ==
    LET value == id_after_shift(reply_id)
        type == reply_type(reply_id)
    IN  CASE type = FAILED_PROPOSAL_EXECUTION_MASK ->
                 {[s EXCEPT !.proposals[value].status = "execution_failed"]}
          [] type = FAILED_PROPOSAL_HOOK_MASK ->
                 IF can_remove_hook_by_index(s.proposal_hooks, value)
                 THEN {[s EXCEPT !.proposal_hooks = remove_hook_by_index(@, value)]} ELSE {}
          [] type = FAILED_VOTE_HOOK_MASK ->
                 IF can_remove_hook_by_index(s.vote_hooks, value)
                 THEN {[s EXCEPT !.vote_hooks = remove_hook_by_index(@, value)]} ELSE {}
          [] type = FAILED_PRE_PROPOSE_MODULE_HOOK_ID ->
                 IF s.policy.kind = "module" THEN {[s EXCEPT !.policy = Anyone]} ELSE {}

\* The DAO runs the messages of a winning choice, in order and all or none.
Executed(s, body) ==
    FoldLeft(LAMBDA results, m : UNION {DaoCall(t, m) : t \in results},
             {[s EXCEPT !.ran[body.id] = Append(@, body.choice)]}, body.msgs)

\* Message m succeeds or, where it may fail, leaves the rest to reply.  A DAO that
\* is paused or has disabled this module fails it as a faulty contract does.
Delivered(s, m) ==
    LET done == IF m.to = Dao THEN Executed(s, m.body) ELSE {s}
        may_fail == \/ done = {} \/ m.to \in Faulty
                    \/ /\ m.to = Dao
                       /\ \E i \in DOMAIN m.body.msgs :
                              m.body.msgs[i].kind = "external" /\ m.body.msgs[i].to \in Faulty
    IN  done \cup (IF may_fail /\ m.reply_on = "error" THEN reply(s, m.reply_id) ELSE {})

Transaction(s, msgs) ==
    FoldLeft(LAMBDA results, m : UNION {Delivered(t, m) : t \in results}, {s}, msgs)

----------------------------------------------------------------------------
(* Voting *)

CanVote(s, now, sender, id, vote) ==
    LET p == s.proposals[id] ballot == s.ballots[id][sender] IN
    /\ vote \in DOMAIN p.choices
    /\ ~MC!V!is_expired(p.expiration, now)
    /\ PowerAt[p.start_height][sender] # 0
    /\ ballot # NoBallot => p.allow_revoting /\ ballot.vote # vote

\* Mutant: the old vote stays in the tally when a vote is changed.
WithVote_twice(s, now, sender, id, vote) ==
    LET p == s.proposals[id] IN
    MC!update_status([p EXCEPT !.votes = MC!add_vote(@, vote, PowerAt[p.start_height][sender])], now)

WithVote(s, now, sender, id, vote) ==
    LET p == s.proposals[id] ballot == s.ballots[id][sender] IN
    MC!update_status(
        [p EXCEPT !.votes =
            MC!add_vote(IF ballot = NoBallot THEN @ ELSE MC!remove_vote(@, ballot.vote, ballot.power),
                        vote, PowerAt[p.start_height][sender])],
        now)

\* The storage execute_vote saves, and the messages it returns.
AfterVote(s, now, sender, id, vote, rationale) ==
    [s EXCEPT !.proposals[id] = WithVote(s, now, sender, id, vote),
              !.ballots[id][sender] = [vote |-> vote, rationale |-> rationale,
                                       power |-> PowerAt[s.proposals[id].start_height][sender]]]

VoteMsgs(s, now, sender, id, vote) ==
    proposal_status_changed_hooks(s, s.proposals[id].status,
                                  WithVote(s, now, sender, id, vote).status)
    \o new_vote_hooks(s)

execute_vote(s, now, sender, id, vote, rationale) ==
    IF CanVote(s, now, sender, id, vote)
    THEN Transaction(AfterVote(s, now, sender, id, vote, rationale),
                     VoteMsgs(s, now, sender, id, vote))
    ELSE {}

execute_update_rationale(s, sender, id, rationale) ==
    IF s.ballots[id][sender] = NoBallot THEN {}
    ELSE {[s EXCEPT !.ballots[id][sender].rationale = rationale]}

----------------------------------------------------------------------------
(* Proposing *)

NewProposal(s, now, options) ==
    MC!update_status(
        [start_height |-> now, min_voting_period |-> now + s.config.min_voting_period,
         expiration |-> now + s.config.max_voting_period, quorum |-> s.config.quorum,
         total_power |-> total_power(now), status |-> "open",
         votes |-> MC!zero(Len(options) + 1), allow_revoting |-> s.config.allow_revoting,
         choices |-> MC!into_checked(options), veto |-> s.config.veto],
        now)

\* votes is the proposer's own vote, as a set of at most one.
execute_propose(s, now, sender, proposer, options, votes) ==
    LET id == Len(s.proposals) + 1
        saved == [s EXCEPT !.proposals = Append(@, NewProposal(s, now, options)),
                           !.ballots = Append(@, [a \in Addr |-> NoBallot]),
                           !.ran = Append(@, <<>>)]
    IN  IF /\ MC!valid_options(options)
           /\ IF s.policy.kind = "anyone" THEN proposer = sender ELSE sender = s.policy.addr
           /\ \A vote \in votes : CanVote(saved, now, proposer, id, vote)
        THEN IF votes = {} THEN Transaction(saved, ProposalHookMsgs(s))
             ELSE UNION {Transaction(AfterVote(saved, now, proposer, id, vote, "none"),
                                     ProposalHookMsgs(s) \o VoteMsgs(saved, now, proposer, id, vote)) :
                         vote \in votes}
        ELSE {}

----------------------------------------------------------------------------
(* Completing a proposal *)

\* The proposal ends with a status, after msgs the hooks are told.
Completed(s, id, p, new_status, msgs) ==
    Transaction([s EXCEPT !.proposals[id] = [p EXCEPT !.status = new_status]],
                msgs \o proposal_status_changed_hooks(s, p.status, new_status)
                     \o proposal_completed_hooks(s))

execute_veto(s, now, sender, id) ==
    LET p == MC!update_status(s.proposals[id], now) IN
    IF /\ p.veto.kind = "veto"
       /\ p.veto.vetoer = sender
       /\ \/ p.status = "open" /\ p.veto.veto_before_passed
          \/ p.status = "veto_timelock" /\ ~MC!V!is_expired(MC!V!timelock_expiration(p), now)
    THEN Completed(s, id, p, "vetoed", <<>>)
    ELSE {}

ExecutionMsgs(s, id, p) ==
    LET winner == CHOOSE w \in MC!calculate_vote_result(p) : TRUE
        body == [id |-> id, choice |-> winner, msgs |-> p.choices[winner].msgs]
    IN  IF body.msgs = <<>> THEN <<>>
        ELSE IF s.config.close_proposal_on_execution_failure
        THEN <<MsgReplyOnError(Dao, body, mask_proposal_execution_proposal_id(id))>>
        ELSE <<Msg(Dao, body)>>

execute_execute(s, now, sender, id) ==
    LET p == MC!update_status(s.proposals[id], now)
        sender_can_execute == s.config.only_members_execute => PowerAt[p.start_height][sender] # 0
    IN  IF /\ \/ p.status = "passed" /\ sender_can_execute
              \/ /\ p.status = "veto_timelock"
                 /\ p.veto.vetoer = sender /\ p.veto.early_execute
           /\ Cardinality(MC!calculate_vote_result(p)) = 1
        THEN Completed(s, id, p, "executed", ExecutionMsgs(s, id, p))
        ELSE {}

execute_close(s, now, id) ==
    LET p == MC!update_status(s.proposals[id], now) IN
    IF p.status = "rejected" THEN Completed(s, id, p, "closed", <<>>) ELSE {}
=============================================================================
