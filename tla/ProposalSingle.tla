--------------------------- MODULE ProposalSingle ---------------------------
(***************************************************************************)
(* The single choice proposal module:                                      *)
(* contracts/proposal/dao-proposal-single/src/contract.rs, with the hook   *)
(* and policy code of packages/dao-hooks and packages/dao-voting it calls. *)
(*                                                                         *)
(* store is the contract's storage (plus one ghost, see Store); height is  *)
(* the block clock; stack is the transaction that is running.  A handler   *)
(* is a single step that updates store and leaves its messages in a frame; *)
(* the transaction then runs message by message (Dispatch, Return, Raise)  *)
(* and no other transaction starts before it has ended.                    *)
(*                                                                         *)
(* The DAO's voting module answers the power queries: PowerAt[h][S] is the *)
(* power of the addresses S at height h and TotalPowerAt[h] the total.     *)
(* The dao field of Config is the constant Dao.  Whether the DAO is active *)
(* and the size limit of a proposal are inputs that only make Propose      *)
(* fail, which is no step at all.                                          *)
(***************************************************************************)
EXTENDS SingleChoiceProposal, ReplyId, Hooks, CosmWasm

CONSTANTS
    Addr,          \* addresses: members, receivers, pre-propose modules
    Dao,           \* the DAO's core contract
    Self,          \* this contract
    Modules,       \* pre-propose modules that may be instantiated
    Faulty,        \* contracts that may return an error when called
    Reentrant,     \* contracts that may call this one while being called
    Configs,       \* configurations to start from
    Rationales,    \* rationales given with votes
    DaoCalls,      \* calls the DAO makes on its own (from other modules)
    MsgLists,      \* the message lists proposals carry
    PowerAt,       \* voting power of a set of addresses at a height
    TotalPowerAt,  \* total voting power at a height
    MaxHeight,     \* bound: last block
    LastStart,     \* bound: last block in which a proposal is made
    MaxProposals,  \* bound: number of proposals
    MaxDepth       \* bound: depth of nested calls

VARIABLES store, height, stack

vars == <<store, height, stack>>

Heights == 0 .. MaxHeight

\* Everybody who talks to this contract.
Peer == Addr \ {Self}

ASSUME AddrAssumption ==
    /\ Self \in Addr /\ Dao \in Peer /\ Modules \subseteq Peer
    /\ Faulty \subseteq Peer
    /\ Reentrant \subseteq Peer \ {Dao}

ASSUME BoundAssumption ==
    /\ MaxHeight \in Nat /\ LastStart \in Heights
    /\ MaxProposals \in Nat /\ MaxDepth \in Nat

\* A voting module gives a set of addresses the sum of its members' powers and
\* reports a total that is not below it.
ASSUME PowerAssumption ==
    /\ PowerAt \in [Heights -> [SUBSET Addr -> Nat]]
    /\ TotalPowerAt \in [Heights -> Nat]
    /\ \A h \in Heights : PowerAt[h][Addr] <= TotalPowerAt[h]
    /\ \A h \in Heights : \A S, T \in SUBSET Addr :
           S \cap T = {} => PowerAt[h][S \cup T] = PowerAt[h][S] + PowerAt[h][T]

voting_power(addr, h) == PowerAt[h][{addr}]

----------------------------------------------------------------------------
(* Types *)

\* struct Config, without dao
Config ==
    [threshold : Threshold, max_voting_period : Nat, min_voting_period : Nat,
     only_members_execute : BOOLEAN, allow_revoting : BOOLEAN,
     close_proposal_on_execution_failure : BOOLEAN,
     veto : {NoVeto} \cup VetoConfig(Addr)]

\* The checks instantiate and execute_update_config make on a configuration.
ValidConfig(c) ==
    /\ validate(c.threshold)
    /\ validate_voting_period(c.min_voting_period, c.max_voting_period)

ASSUME ConfigAssumption ==
    \A c \in Configs : c \in Config /\ ValidConfig(c)

\* struct Ballot; vote "none" stands for the absence of an entry.
Ballot == [vote : Vote \cup {"none"}, power : Nat, rationale : Rationales \cup {"none"}]

NoBallot == [vote |-> "none", power |-> 0, rationale |-> "none"]

\* enum ProposalCreationPolicy
Anyone == [kind |-> "anyone"]
Module(addr) == [kind |-> "module", addr |-> addr]
Policy == {Anyone} \cup [kind : {"module"}, addr : Peer]

\* Messages the DAO can be asked to send: to this contract, or elsewhere.
DaoMsg ==
         [kind : {"external"}, to : Peer]
    \cup [kind : {"update_config"}, config : Config]
    \cup [kind : {"update_pre_propose_info"}, policy : Policy]
    \cup [kind : {"add_proposal_hook", "remove_proposal_hook",
                  "add_vote_hook", "remove_vote_hook"}, addr : Peer]

\* The ones this contract handles.
DaoRequest == {m \in DaoMsg : m.kind # "external"}

ASSUME MsgAssumption ==
    /\ MsgLists \subseteq Seq(DaoMsg)
    /\ DaoCalls \subseteq DaoRequest

\* What a message of the running transaction asks of its target.
Body ==
         [kind : {"tx", "new_vote", "instantiate"}]
    \cup [kind : {"new_proposal"}, id : Nat]
    \cup [kind : {"status_changed", "completed"}, id : Nat, status : Status]
    \cup [kind : {"execute_proposal_hook"}, id : Nat, msgs : MsgLists]
    \cup DaoMsg

SubMsg ==
    {m \in [to : Addr, body : Body, reply_on : {"never", "error", "success"}, reply_id : Nat] :
        m.to = Self => m.body \in DaoRequest}

\* CONFIG, PROPOSALS (PROPOSAL_COUNT is its length), BALLOTS, CREATION_POLICY,
\* PROPOSAL_HOOKS and VOTE_HOOKS.  The ghost ran counts, for each proposal, how
\* often its messages have taken effect; like any other effect it is undone
\* when the call that had it fails.
Store ==
    [config : Config,
     proposals : Seq(Proposal(Addr, MsgLists)),
     ballots : Seq([Addr -> Ballot]),
     policy : Policy,
     proposal_hooks : Seq(Peer),
     vote_hooks : Seq(Peer),
     ran : Seq(Nat)]

----------------------------------------------------------------------------
(* Running a transaction *)

\* An account starts a transaction, or a contract that is being called calls
\* this one.
Begin(sender) ==
    \/ stack = <<>>
    \/ /\ stack # <<>>
       /\ Len(stack) < MaxDepth
       /\ Last(stack).to = sender
       /\ sender \in Reentrant
       /\ ~Last(stack).called

\* The handler's messages are the next to run.
Respond(sender, msgs) ==
    stack' = IF stack = <<>>
             THEN <<Frame(Msg(sender, [kind |-> "tx"]), store, msgs, TRUE)>>
             ELSE [stack EXCEPT ![Len(stack)].pending = msgs,
                                ![Len(stack)].called = TRUE]

----------------------------------------------------------------------------
(* Hook messages (packages/dao-hooks) *)

new_proposal_hooks(s, id) ==
    prepare_hooks(s.proposal_hooks,
        [r \in Peer \X Nat |->
            MsgReplyOnError(r[1], [kind |-> "new_proposal", id |-> id],
                            mask_proposal_hook_index(r[2]))])

proposal_status_changed_hooks(s, id, old_status, new_status) ==
    IF old_status = new_status
    THEN <<>>
    ELSE prepare_hooks(s.proposal_hooks,
             [r \in Peer \X Nat |->
                 MsgReplyOnError(r[1], [kind |-> "status_changed", id |-> id, status |-> new_status],
                                 mask_proposal_hook_index(r[2]))])

proposal_completed_hooks(policy, id, new_status) ==
    IF policy.kind = "anyone"
    THEN <<>>
    ELSE <<MsgReplyOnError(policy.addr,
               [kind |-> "completed", id |-> id, status |-> new_status],
               FAILED_PRE_PROPOSE_MODULE_HOOK_ID)>>

new_vote_hooks(s) ==
    prepare_hooks(s.vote_hooks,
        [r \in Peer \X Nat |->
            MsgReplyOnError(r[1], [kind |-> "new_vote"], mask_vote_hook_index(r[2]))])

\* What a completed proposal sends after its status has been saved.
CompletionHooks(s, id, old_status, new_status) ==
    proposal_status_changed_hooks(s, id, old_status, new_status)
    \o proposal_completed_hooks(s.policy, id, new_status)

----------------------------------------------------------------------------
(* Voting *)

\* execute_vote does not return an error.
CanVote(s, sender, id, vote) ==
    /\ id \in DOMAIN s.proposals
    /\ LET p == s.proposals[id]
           ballot == s.ballots[id][sender]
       IN  /\ ~is_expired(p.expiration, height)
           /\ voting_power(sender, p.start_height) # 0
           /\ ballot.vote # "none" => p.allow_revoting /\ ballot.vote # vote

\* Mutant: a changed vote is counted without taking the old one out.
WithVote_twice(s, sender, id, vote) ==
    LET p == s.proposals[id]
    IN  update_status([p EXCEPT !.votes =
                          add_vote(p.votes, vote, voting_power(sender, p.start_height))],
                      height)

\* The proposal with the vote counted, a changed vote's old power taken out,
\* and the status brought up to date.
WithVote(s, sender, id, vote) ==
    LET p == s.proposals[id]
        ballot == s.ballots[id][sender]
        cleared == IF ballot.vote = "none" THEN p.votes
                   ELSE remove_vote(p.votes, ballot.vote, ballot.power)
    IN  update_status([p EXCEPT !.votes =
                          add_vote(cleared, vote, voting_power(sender, p.start_height))],
                      height)

\* The storage execute_vote leaves.
AfterVote(s, sender, id, vote, rationale) ==
    [s EXCEPT !.proposals[id] = WithVote(s, sender, id, vote),
              !.ballots[id][sender] =
                  [vote |-> vote,
                   power |-> voting_power(sender, s.proposals[id].start_height),
                   rationale |-> rationale]]

\* The messages execute_vote returns.
VoteMsgs(s, sender, id, vote) ==
    proposal_status_changed_hooks(s, id, s.proposals[id].status,
                                  WithVote(s, sender, id, vote).status)
    \o new_vote_hooks(s)

execute_vote(sender, id, vote, rationale) ==
    /\ Begin(sender)
    /\ CanVote(store, sender, id, vote)
    /\ store' = AfterVote(store, sender, id, vote, rationale)
    /\ Respond(sender, VoteMsgs(store, sender, id, vote))
    /\ UNCHANGED height

execute_update_rationale(sender, id, rationale) ==
    /\ Begin(sender)
    /\ id \in DOMAIN store.ballots
    /\ store.ballots[id][sender].vote # "none"
    /\ store' = [store EXCEPT !.ballots[id][sender].rationale = rationale]
    /\ Respond(sender, <<>>)
    /\ UNCHANGED height

----------------------------------------------------------------------------
(* Proposing *)

\* A proposal made now from the current configuration.
NewProposal(s, msgs) ==
    LET c == s.config IN
    update_status([start_height |-> height,
                   min_voting_period |-> height + c.min_voting_period,
                   expiration |-> height + c.max_voting_period,
                   threshold |-> c.threshold,
                   total_power |-> TotalPowerAt[height],
                   msgs |-> msgs,
                   status |-> "open",
                   votes |-> zero,
                   allow_revoting |-> c.allow_revoting,
                   veto |-> c.veto],
                  height)

\* The storage after the proposal is saved, before any vote.
AfterPropose(s, msgs) ==
    [s EXCEPT !.proposals = Append(@, NewProposal(s, msgs)),
              !.ballots = Append(@, [a \in Addr |-> NoBallot]),
              !.ran = Append(@, 0)]

\* Only a pre-propose module that is installed may name another proposer.
PermittedProposer(policy, sender, proposer) ==
    IF policy.kind = "anyone" THEN proposer = sender ELSE sender = policy.addr

\* vote is the proposer's own vote, or "none".
execute_propose(sender, proposer, msgs, vote, rationale) ==
    LET proposed == AfterPropose(store, msgs)
        id == Len(store.proposals) + 1
    IN  /\ Begin(sender)
        /\ id <= MaxProposals /\ height <= LastStart
        /\ PermittedProposer(store.policy, sender, proposer)
        /\ UNCHANGED height
        /\ \/ /\ vote = "none"
              /\ store' = proposed
              /\ Respond(sender, new_proposal_hooks(store, id))
           \/ /\ vote # "none"
              /\ CanVote(proposed, proposer, id, vote)
              /\ store' = AfterVote(proposed, proposer, id, vote, rationale)
              /\ Respond(sender, new_proposal_hooks(store, id)
                                 \o VoteMsgs(proposed, proposer, id, vote))

----------------------------------------------------------------------------
(* Completing a proposal *)

\* The proposal with an up to date status, as the handlers load it.
Loaded(id) == update_status(store.proposals[id], height)

\* Mutant: vetoes a proposal whatever its status.
execute_veto_any_status(sender, id) ==
    /\ Begin(sender)
    /\ id \in DOMAIN store.proposals
    /\ LET p == Loaded(id) IN
       /\ p.veto.kind = "veto"
       /\ p.veto.vetoer = sender
       /\ store' = [store EXCEPT !.proposals[id] = [p EXCEPT !.status = "vetoed"]]
       /\ Respond(sender, CompletionHooks(store, id, p.status, "vetoed"))
    /\ UNCHANGED height

execute_veto(sender, id) ==
    /\ Begin(sender)
    /\ id \in DOMAIN store.proposals
    /\ LET p == Loaded(id) IN
       /\ p.veto.kind = "veto"
       /\ p.veto.vetoer = sender
       /\ \/ p.status = "open" /\ p.veto.veto_before_passed
          \/ p.status = "veto_timelock" /\ ~is_expired(timelock_expiration(p), height)
       /\ store' = [store EXCEPT !.proposals[id] = [p EXCEPT !.status = "vetoed"]]
       /\ Respond(sender, CompletionHooks(store, id, p.status, "vetoed"))
    /\ UNCHANGED height

sender_can_execute(sender, p) ==
    store.config.only_members_execute => voting_power(sender, p.start_height) # 0

\* The message that has the DAO run the proposal's messages, if it has any.
ExecutionMsgs(id, p) ==
    LET body == [kind |-> "execute_proposal_hook", id |-> id, msgs |-> p.msgs]
    IN  IF p.msgs = <<>> THEN <<>>
        ELSE IF store.config.close_proposal_on_execution_failure
        THEN <<MsgReplyOnError(Dao, body, mask_proposal_execution_proposal_id(id))>>
        ELSE <<Msg(Dao, body)>>

\* Mutant: the new status is not saved before the messages run.
execute_execute_unsaved(sender, id) ==
    /\ Begin(sender)
    /\ id \in DOMAIN store.proposals
    /\ LET p == Loaded(id) IN
       /\ \/ p.status = "passed" /\ sender_can_execute(sender, p)
          \/ /\ p.status = "veto_timelock"
             /\ p.veto.vetoer = sender
             /\ p.veto.early_execute
       /\ store' = [store EXCEPT !.proposals[id] = p]
       /\ Respond(sender, ExecutionMsgs(id, p)
                          \o CompletionHooks(store, id, p.status, "executed"))
    /\ UNCHANGED height

execute_execute(sender, id) ==
    /\ Begin(sender)
    /\ id \in DOMAIN store.proposals
    /\ LET p == Loaded(id) IN
       /\ \/ p.status = "passed" /\ sender_can_execute(sender, p)
          \/ /\ p.status = "veto_timelock"
             /\ p.veto.vetoer = sender
             /\ p.veto.early_execute
       /\ store' = [store EXCEPT !.proposals[id] = [p EXCEPT !.status = "executed"]]
       /\ Respond(sender, ExecutionMsgs(id, p)
                          \o CompletionHooks(store, id, p.status, "executed"))
    /\ UNCHANGED height

\* Mutant: the hooks are sent but the new status is not saved.
execute_close_unsaved(sender, id) ==
    /\ Begin(sender)
    /\ id \in DOMAIN store.proposals
    /\ Loaded(id).status = "rejected"
    /\ Respond(sender, CompletionHooks(store, id, "rejected", "closed"))
    /\ UNCHANGED <<store, height>>

execute_close(sender, id) ==
    /\ Begin(sender)
    /\ id \in DOMAIN store.proposals
    /\ LET p == Loaded(id) IN
       /\ p.status = "rejected"
       /\ store' = [store EXCEPT !.proposals[id] = [p EXCEPT !.status = "closed"]]
       /\ Respond(sender, CompletionHooks(store, id, "rejected", "closed"))
    /\ UNCHANGED height

----------------------------------------------------------------------------
(* Handlers only the DAO may call.  Each is a condition on which it does not
   return an error and the storage it leaves. *)

execute_update_config(s, config) == [s EXCEPT !.config = config]

\* Mutant: the contract stands in for the module until it is instantiated.
execute_update_proposal_creation_policy_self(s) == [s EXCEPT !.policy = Module(Self)]

\* into_initial_policy_and_messages: anyone may propose until the new module's
\* instantiation is reported.
execute_update_proposal_creation_policy(s) == [s EXCEPT !.policy = Anyone]

execute_add_proposal_hook(s, addr) ==
    [s EXCEPT !.proposal_hooks = add_hook(@, addr)]

execute_remove_proposal_hook(s, addr) ==
    [s EXCEPT !.proposal_hooks = remove_hook(@, addr)]

execute_add_vote_hook(s, addr) == [s EXCEPT !.vote_hooks = add_hook(@, addr)]

execute_remove_vote_hook(s, addr) == [s EXCEPT !.vote_hooks = remove_hook(@, addr)]

\* The call does not return an error.
DaoCallAccepted(s, call) ==
    CASE call.kind = "update_config" -> ValidConfig(call.config)
      [] call.kind = "update_pre_propose_info" -> TRUE
      [] call.kind = "add_proposal_hook" -> can_add_hook(s.proposal_hooks, call.addr)
      [] call.kind = "remove_proposal_hook" -> can_remove_hook(s.proposal_hooks, call.addr)
      [] call.kind = "add_vote_hook" -> can_add_hook(s.vote_hooks, call.addr)
      [] call.kind = "remove_vote_hook" -> can_remove_hook(s.vote_hooks, call.addr)

AfterDaoCall(s, call) ==
    CASE call.kind = "update_config" -> execute_update_config(s, call.config)
      [] call.kind = "update_pre_propose_info" -> execute_update_proposal_creation_policy(s)
      [] call.kind = "add_proposal_hook" -> execute_add_proposal_hook(s, call.addr)
      [] call.kind = "remove_proposal_hook" -> execute_remove_proposal_hook(s, call.addr)
      [] call.kind = "add_vote_hook" -> execute_add_vote_hook(s, call.addr)
      [] call.kind = "remove_vote_hook" -> execute_remove_vote_hook(s, call.addr)

\* Only a new pre-propose module gives rise to a message: its instantiation.
DaoCallMsgs(call) ==
    IF call.kind = "update_pre_propose_info" /\ call.policy.kind = "module"
    THEN <<MsgReplyOnSuccess(call.policy.addr, [kind |-> "instantiate"],
                             PRE_PROPOSE_MODULE_INSTANTIATION_ID)>>
    ELSE <<>>

\* The DAO calls this contract in a transaction of another proposal module.
DaoCall(call) ==
    /\ stack = <<>>
    /\ DaoCallAccepted(store, call)
    /\ store' = AfterDaoCall(store, call)
    /\ Respond(Dao, DaoCallMsgs(call))
    /\ UNCHANGED height

----------------------------------------------------------------------------
(* The reply entry point *)

\* reply returns no error for the failure tagged reply_id.
ReplyAccepted(s, reply_id) ==
    LET value == id_after_shift(reply_id)
        type == reply_type(reply_id)
    IN  CASE type = FAILED_PROPOSAL_EXECUTION_MASK -> value \in DOMAIN s.proposals
          [] type = FAILED_PROPOSAL_HOOK_MASK -> can_remove_hook_by_index(s.proposal_hooks, value)
          [] type = FAILED_VOTE_HOOK_MASK -> can_remove_hook_by_index(s.vote_hooks, value)
          [] type = FAILED_PRE_PROPOSE_MODULE_HOOK_ID -> s.policy.kind = "module"
          [] OTHER -> FALSE

\* Mutant: a failed execution leaves the proposal as it was saved.
AfterFailureReply_executed(s, reply_id) ==
    LET value == id_after_shift(reply_id)
        type == reply_type(reply_id)
    IN  CASE type = FAILED_PROPOSAL_EXECUTION_MASK -> s
          [] type = FAILED_PROPOSAL_HOOK_MASK ->
                 [s EXCEPT !.proposal_hooks = remove_hook_by_index(@, value)]
          [] type = FAILED_VOTE_HOOK_MASK ->
                 [s EXCEPT !.vote_hooks = remove_hook_by_index(@, value)]
          [] type = FAILED_PRE_PROPOSE_MODULE_HOOK_ID ->
                 [s EXCEPT !.policy = Anyone]

\* Mutant: a failed execution opens the proposal again.
AfterFailureReply_reopened(s, reply_id) ==
    IF reply_type(reply_id) = FAILED_PROPOSAL_EXECUTION_MASK
    THEN [s EXCEPT !.proposals[id_after_shift(reply_id)].status = "open"]
    ELSE AfterFailureReply_executed(s, reply_id)

\* The storage reply leaves for a failed message.
AfterFailureReply(s, reply_id) ==
    LET value == id_after_shift(reply_id)
        type == reply_type(reply_id)
    IN  CASE type = FAILED_PROPOSAL_EXECUTION_MASK ->
                 [s EXCEPT !.proposals[value].status = "execution_failed"]
          [] type = FAILED_PROPOSAL_HOOK_MASK ->
                 [s EXCEPT !.proposal_hooks = remove_hook_by_index(@, value)]
          [] type = FAILED_VOTE_HOOK_MASK ->
                 [s EXCEPT !.vote_hooks = remove_hook_by_index(@, value)]
          [] type = FAILED_PRE_PROPOSE_MODULE_HOOK_ID ->
                 [s EXCEPT !.policy = Anyone]

\* The storage reply leaves for the instantiated module addr.
AfterInstantiateReply(s, addr) == [s EXCEPT !.policy = Module(addr)]

\* The calls whose sender's reply absorbs an error raised at the top.
CatchingFrames ==
    {k \in DOMAIN stack : /\ stack[k].reply_on = "error"
                          /\ ReplyAccepted(stack[k].saved, stack[k].reply_id)}

\* An error in the topmost call reaches the innermost sender whose reply
\* absorbs it, and undoes the transaction if there is none.
Unwind ==
    \/ /\ CatchingFrames = {}
       /\ store' = stack[1].saved
       /\ stack' = <<>>
    \/ \E k \in CatchingFrames :
           /\ \A j \in CatchingFrames : j <= k
           /\ store' = AfterFailureReply(stack[k].saved, stack[k].reply_id)
           /\ stack' = SubSeq(stack, 1, k - 1)

----------------------------------------------------------------------------
(* The steps of a transaction *)

Running == stack # <<>>
Top == Last(stack)
NextMsg == Head(Top.pending)

\* A message of the DAO to this contract.
IsDaoCall(m) == m.to = Self

\* The messages the DAO sends for a proposal, in order.
ProposalMsgs(msgs) ==
    [i \in DOMAIN msgs |->
        Msg(IF msgs[i].kind = "external" THEN msgs[i].to ELSE Self, msgs[i])]

\* The next message is delivered to another contract.  The DAO answers
\* ExecuteProposalHook with the proposal's messages.
Dispatch ==
    /\ Running
    /\ Top.pending # <<>>
    /\ LET m == NextMsg
           execution == m.body.kind = "execute_proposal_hook"
       IN  /\ ~IsDaoCall(m)
           /\ stack' = Append(Advance(stack),
                              Frame(m, store,
                                    IF execution THEN ProposalMsgs(m.body.msgs) ELSE <<>>,
                                    FALSE))
           /\ store' = IF execution
                       THEN [store EXCEPT !.ran[m.body.id] = @ + 1]
                       ELSE store
    /\ UNCHANGED height

\* A message of the DAO to this contract is handled at once, and the messages
\* that gives rise to run before the DAO's next one.
DispatchDaoCall ==
    /\ Running
    /\ Top.pending # <<>>
    /\ IsDaoCall(NextMsg)
    /\ IF DaoCallAccepted(store, NextMsg.body)
       THEN /\ store' = AfterDaoCall(store, NextMsg.body)
            /\ stack' = [stack EXCEPT ![Len(stack)].pending =
                                          DaoCallMsgs(NextMsg.body) \o Tail(@)]
       ELSE Unwind
    /\ UNCHANGED height

\* The topmost call ends well; with the last one the transaction is committed.
Return ==
    /\ Running
    /\ Top.pending = <<>>
    /\ stack' = Front(stack)
    /\ store' = IF Top.reply_on = "success"
                THEN AfterInstantiateReply(store, Top.to)
                ELSE store
    /\ UNCHANGED height

\* The topmost call, to another contract, returns an error.
Raise ==
    /\ Running
    /\ Top.body.kind # "tx"
    /\ Top.to \in Faulty
    /\ Unwind
    /\ UNCHANGED height

\* Blocks pass between transactions.
Tick ==
    /\ stack = <<>>
    /\ height < MaxHeight
    /\ height' = height + 1
    /\ UNCHANGED <<store, stack>>

----------------------------------------------------------------------------
Init ==
    /\ height = 0
    /\ stack = <<>>
    /\ \E c \in Configs, policy \in {Anyone} \cup {Module(m) : m \in Modules} :
           store = [config |-> c, proposals |-> <<>>, ballots |-> <<>>,
                    policy |-> policy, proposal_hooks |-> <<>>,
                    vote_hooks |-> <<>>, ran |-> <<>>]

Propose ==
    \E sender, proposer \in Peer, msgs \in MsgLists, vote \in Vote \cup {"none"},
       rationale \in Rationales :
        execute_propose(sender, proposer, msgs, vote, rationale)

CastVote ==
    \E sender \in Peer, id \in DOMAIN store.proposals, vote \in Vote,
       rationale \in Rationales : execute_vote(sender, id, vote, rationale)

UpdateRationale ==
    \E sender \in Peer, id \in DOMAIN store.proposals, rationale \in Rationales :
        execute_update_rationale(sender, id, rationale)

Veto == \E sender \in Peer, id \in DOMAIN store.proposals : execute_veto(sender, id)

Execute(id) == \E sender \in Peer : execute_execute(sender, id)

Close(id) == \E sender \in Peer : execute_close(sender, id)

\* The steps the chain takes by itself once a transaction has started.
TransactionStep == Dispatch \/ DispatchDaoCall \/ Return \/ Raise

Next ==
    \/ Propose
    \/ CastVote
    \/ UpdateRationale
    \/ Veto
    \/ \E id \in DOMAIN store.proposals : Execute(id) \/ Close(id)
    \/ \E call \in DaoCalls : DaoCall(call)
    \/ TransactionStep
    \/ Tick

Spec == Init /\ [][Next]_vars

----------------------------------------------------------------------------
(* Fairness.  The chain finishes a transaction it has started.  Between
   transactions, which other users may keep starting, blocks keep coming and
   somebody keeps trying to execute and to close each proposal. *)

Fairness ==
    /\ WF_vars(TransactionStep)
    /\ SF_vars(Tick)
    /\ \A id \in 1 .. MaxProposals :
           /\ SF_vars(id \in DOMAIN store.proposals /\ Execute(id))
           /\ SF_vars(id \in DOMAIN store.proposals /\ Close(id))

FairSpec == Spec /\ Fairness

----------------------------------------------------------------------------
(* Properties *)

FrameType ==
    [to : Peer, body : Body, reply_on : {"never", "error", "success"},
     reply_id : Nat, saved : Store, pending : Seq(SubMsg), called : BOOLEAN]

\* Proposals, ballots and ghosts are kept for the same ids.
StoreOK(s) ==
    /\ s \in Store
    /\ Len(s.ballots) = Len(s.proposals)
    /\ Len(s.ran) = Len(s.proposals)

\* Every variable has its type, in the storage and in every saved storage.
TypeOK ==
    /\ StoreOK(store)
    /\ height \in Heights
    /\ stack \in Seq(FrameType)
    /\ \A k \in DOMAIN stack : StoreOK(stack[k].saved)

Supporters(box, vote) == {a \in Addr : box[a].vote = vote}

\* A tally that is the voting power of those whose ballot says so.
TalliesOK(s) ==
    \A id \in DOMAIN s.proposals : \A vote \in Vote :
        s.proposals[id].votes[vote] =
            PowerAt[s.proposals[id].start_height][Supporters(s.ballots[id], vote)]

\* Through votes, changed votes, changed rationales and undone calls, the tally
\* execute_vote keeps for each option is exactly the power, at the proposal's
\* start height, of the addresses whose ballot names that option.
TalliesMatchBallots == TalliesOK(store)

Decided == {"passed", "veto_timelock", "executed", "execution_failed"}

\* A proposal that was found passed, at whatever time and however it went on,
\* still passes with all the votes that were cast since: the comment in
\* execute_vote that votes on a decided proposal never change its outcome.
PassedStaysPassed ==
    \A id \in DOMAIN store.proposals :
        store.proposals[id].status \in Decided => is_passed(store.proposals[id], height)

\* A proposal that was found rejected, before or after its expiration, does not
\* come to pass with the votes that are cast later.
RejectedStaysRejected ==
    \A id \in DOMAIN store.proposals :
        store.proposals[id].status \in {"rejected", "closed"}
            => ~is_passed(store.proposals[id], height)

\* Between transactions a proposal's messages have taken effect exactly once if
\* it is executed and not at all otherwise; during one, never twice.  Calls
\* that come back into execute_execute and executions that fail included.
RunsOnce ==
    \A id \in DOMAIN store.proposals :
        /\ store.ran[id] <= 1
        /\ store.ran[id] = 1 => store.proposals[id].status = "executed"
        /\ (stack = <<>> /\ store.proposals[id].status = "executed"
                         /\ store.proposals[id].msgs # <<>>) => store.ran[id] = 1

\* Nobody but the vetoer, and the vetoer only where early execution is allowed,
\* executes a proposal before its veto timelock is over.
TimelockRespected ==
    [][\A id \in DOMAIN store.proposals \cap DOMAIN store'.proposals :
           LET p == store'.proposals[id] IN
           (/\ store.proposals[id].status # "executed"
            /\ p.status = "executed"
            /\ p.veto.kind = "veto"
            /\ ~is_expired(timelock_expiration(p), height))
           => Last(stack').to = p.veto.vetoer /\ p.veto.early_execute]_vars

\* The storage as of the last transaction that was committed.
Committed == IF stack = <<>> THEN store ELSE stack[1].saved

CommittedStatus ==
    [id \in DOMAIN Committed.proposals |-> Committed.proposals[id].status]

Lifecycle == INSTANCE ProposalLifecycle WITH status <- CommittedStatus

\* The module implements the life cycle: no interleaving of votes, timeouts,
\* vetoes, executions, their failures and their replies moves a committed
\* status backwards or out of a final one.
ImplementsLifecycle == Lifecycle!Spec

\* A hook receiver or pre-propose module that is told of a status is told of one
\* the proposal has, or had before the execution failed or a nested call moved
\* it on: never of one it has not reached.
ReportsReached ==
    \A k \in DOMAIN stack : stack[k].body.kind \in {"status_changed", "completed"} =>
        LET body == stack[k].body IN
        /\ body.id \in DOMAIN store.proposals
        /\ store.proposals[body.id].status \in Lifecycle!Later(body.status)
               \cup (IF body.status = "executed" THEN {"execution_failed"} ELSE {})

Completed(id) ==
    id \in DOMAIN store.proposals /\ store.proposals[id].status \in Lifecycle!Final

\* If failed executions close proposals, every proposal is completed in the end:
\* no combination of threshold, votes, veto and timelock leaves one that can be
\* neither executed nor closed.
EventuallyCompleted ==
    \A id \in 1 .. MaxProposals :
        (/\ stack = <<>>
         /\ id \in DOMAIN store.proposals
         /\ store.config.close_proposal_on_execution_failure)
        ~> (stack = <<>> /\ Completed(id))

----------------------------------------------------------------------------
(* What the documentation says and the code does not do *)

\* "To stop an invalid hook receiver from locking the proposal module receivers
\* will be removed from the hook list if they error when handling a hook"
\* (contracts/proposal/dao-proposal-single/README.md): when the call of a
\* proposal hook ends, its receiver is the only one that may have gone from the
\* list, and the transaction goes on.
FaultyReceiverEvicted ==
    [][(/\ Running
        /\ Top.body.kind \in {"new_proposal", "status_changed"}
        /\ Len(stack') < Len(stack))
       => store'.proposal_hooks \in
              {store.proposal_hooks,
               SelectSeq(Top.saved.proposal_hooks, LAMBDA a : a # Top.to)}]_vars

\* reply on a failed pre-propose hook "should be unreachable" when no pre-propose
\* module is installed (contract.rs, FailedPreProposeModuleHook): a pre-propose
\* module that may fail is only called while one is installed.
FailedModuleIsInstalled ==
    \A k \in DOMAIN stack :
        stack[k].body.kind = "completed" /\ stack[k].to \in Faulty
            => stack[k].saved.policy.kind = "module"
=============================================================================
