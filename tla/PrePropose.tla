----------------------------- MODULE PrePropose -----------------------------
(***************************************************************************)
(* Pre-propose modules at work between their users, two DAOs and the token *)
(* ledgers.                                                                *)
(*                                                                         *)
(* Pre takes proposals and deposits for the proposal module Pm of Dao.     *)
(* In the flow "single" it is dao-pre-propose-single (or -multiple): a     *)
(* submission becomes a proposal at once.  In the flow "approval" it is    *)
(* dao-pre-propose-approval-single: a submission waits for an approver,    *)
(* which may be Approver, the dao-pre-propose-approver of the proposal     *)
(* module ApproverPm of ApproverDao.  The proposal modules are reduced to  *)
(* what a pre-propose module sees of them (ProposalSingle has the rest):   *)
(* who may propose, the next id, that a proposal is completed once, and    *)
(* the completion hook with its reply.                                     *)
(*                                                                         *)
(* Every message to one of these contracts is handled when it is           *)
(* dispatched; all others go to foreign contracts, which may call back.    *)
(***************************************************************************)
EXTENDS PreProposeBase, ReplyId

CONSTANTS
    Flows,                                  \* of "single", "approval"
    Approver, ApproverPm, ApproverDao,      \* the approving side
    Users,          \* accounts and contracts that submit proposals
    Wealth,         \* what a user has of each denomination
    Configs,        \* by flow: configurations Pre may be instantiated with
    Approvers,      \* by flow: approvers it may be instantiated with
    HookLists,      \* by flow: submitted hooks the DAO may have set up
    Earlier,        \* by flow: numbers of proposals made before Pre was there
    Calls,          \* by flow: calls from outside, records of sender, target and body
    Faulty,         \* by flow: contracts that may return an error
    Reentrant,      \* by flow: contracts that may call while being called
    MaxDepth        \* bound: depth of nested calls

VARIABLES store, stack

vars == <<store, stack>>

Pms == {Pm, ApproverPm}
Anyone == "anyone"
Holders == Users \cup {Pre, Dao}

\* The contracts whose handlers are modelled.
Contracts == {Pre, Approver} \cup Pms \cup Denom

ASSUME AddrAssumption ==
    /\ {Pre, Approver, Dao, ApproverDao} \cup Pms \cup Users \cup Denom \subseteq Addr
    /\ IsInjective(<<Pre, Approver, Dao, ApproverDao, Pm, ApproverPm>>)
    /\ Users \cap Contracts = {}
    /\ Denom \cap ({Pre, Approver, Dao, ApproverDao} \cup Pms) = {}
    /\ {Anyone, "none"} \cap (Addr \cup Denom) = {}

----------------------------------------------------------------------------
(* Types *)

\* A proposal as its pre-propose module sees it: creator is who called the
\* proposal module, proposer whom it named.
ProposalStatus == {"open", "closed", "executed", "execution_failed", "vetoed"}
Proposal == [creator : Addr, proposer : Addr, status : ProposalStatus]

\* struct Proposal of the approval module.  created is the id in
\* Status::Approved, 0 otherwise.
Submission == [status : {"pending", "approved", "rejected"}, created : 0 .. MaxProposals,
               proposer : Addr, deposit : CheckedDepositInfo \cup {NoDeposit}]
NoSubmission == [status |-> "none", created |-> 0, proposer |-> "none",
                 deposit |-> NoDeposit]

\* The storage of all contracts.  An id that is not mapped has NoEntry,
\* NoSubmission or 0.  Ghosts: terms is what a submission was made on, paid to
\* whom its deposit was paid out, withdrawn the denominations the DAO withdrew.
Store ==
    [flow : Flows, config : Config, deposits : [Ids -> Entry \cup {NoEntry}], hooks : Seq(Addr),
     approver : Addr, current_id : 0 .. MaxProposals,
     pending : [Ids -> Submission \cup {NoSubmission}],
     completed : [Ids -> Submission \cup {NoSubmission}],
     created_to_completed : [Ids -> 0 .. MaxProposals],
     proposal_to_pre_propose : [Ids -> 0 .. MaxProposals],
     pre_propose_to_proposal : [Ids -> 0 .. MaxProposals],
     pm : [Pms -> [proposals : Seq(Proposal), policy : Addr \cup {Anyone}]],
     bank : [Denom -> [Holders -> Nat]],
     terms : [Ids -> [info : CheckedDepositInfo \cup {NoDeposit},
                      proposer : Addr \cup {"none"}]],
     paid : [Ids -> Seq(Addr)], withdrawn : SUBSET Denom]

\* What may be asked of the contracts: enum ExecuteMsg of the pre-propose
\* modules, the approver's messages and those of a proposal module, of which a
\* pre-propose module sees that it makes a proposal and completes one.
Completed == [kind : {"completed"}, id : Ids, status : ProposalStatus]

Propose == [kind : {"propose"}, funds : [denom : Denom, amount : Nat]]

PreMsg ==
         [kind : {"update_config"}, deposit_info : DepositInfo \cup {NoDeposit},
          policy : SUBSET PreProposeSubmissionPolicy]
    \cup [kind : {"update_submission_policy"}, update : PolicyUpdate]
    \cup [kind : {"withdraw"}, denom : SUBSET Denom]
    \cup [kind : {"add_hook", "remove_hook", "update_approver"}, addr : Addr]
    \cup [kind : {"approve", "reject"}, id : Ids]
    \cup Completed

ApproverMsg ==
    [kind : {"reset_approver"}] \cup [kind : {"submitted"}, ref : Ids] \cup Completed

PmMsg ==
         [kind : {"propose_internal"}, proposer : Addr]
    \cup [kind : {"complete"}, id : Ids, status : {"closed", "executed", "vetoed"},
          has_msgs : BOOLEAN]

\* A call from outside.
Request ==
         [sender : Users, to : {Pre}, body : Propose]
    \cup [sender : Addr \ Contracts, to : {Pre}, body : PreMsg]
    \cup [sender : Addr \ Contracts, to : {Approver}, body : ApproverMsg]
    \cup [sender : Addr \ Contracts, to : Pms, body : PmMsg]

ASSUME InputAssumption ==
    /\ Flows \subseteq {"single", "approval"} /\ Wealth \in Nat /\ MaxProposals \in Nat
    /\ \A flow \in Flows :
           /\ Configs[flow] \subseteq [deposit_info : DepositInfo \cup {NoDeposit},
                                       submission_policy : PreProposeSubmissionPolicy]
           /\ Approvers[flow] \subseteq Addr /\ HookLists[flow] \subseteq Seq(Addr)
           /\ Earlier[flow] \subseteq Nat
           /\ Calls[flow] \subseteq Request

----------------------------------------------------------------------------
(* dao-pre-propose-approval-single *)

\* The deposit is taken before the hooks go out.
approval_execute_propose(s, sender, funds) ==
    LET id == s.current_id + 1 IN
    Ok(/\ id \in Ids
       /\ check_can_submit(s, sender)
       /\ DepositPaid(s, funds),
       [s EXCEPT !.current_id = id,
                 !.pending[id] = [status |-> "pending", created |-> 0, proposer |-> sender,
                                  deposit |-> s.config.deposit_info],
                 !.terms[id] = [info |-> s.config.deposit_info, proposer |-> sender]],
       DepositMsgs(s, sender) \o SubmittedHooks(s, id))

\* Mutant: the submission stays pending.
execute_approve_again(s, sender, id) ==
    LET sub == s.pending[id]
        proposal_id == next_proposal_id(s, Pm)
    IN  Ok(/\ sender = s.approver
           /\ sub # NoSubmission
           /\ proposal_id \in Ids,
           [s EXCEPT !.deposits[proposal_id] =
                         [info |-> sub.deposit, proposer |-> sub.proposer, ref |-> id],
                     !.completed[id] =
                         [sub EXCEPT !.status = "approved", !.created = proposal_id],
                     !.created_to_completed[proposal_id] = id],
           <<ProposeMsg(Pm, sub.proposer)>>)

\* The submission becomes a proposal, with the deposit it was made with.
execute_approve(s, sender, id) ==
    LET sub == s.pending[id]
        proposal_id == next_proposal_id(s, Pm)
    IN  Ok(/\ sender = s.approver
           /\ sub # NoSubmission
           /\ proposal_id \in Ids,
           [s EXCEPT !.deposits[proposal_id] =
                         [info |-> sub.deposit, proposer |-> sub.proposer, ref |-> id],
                     !.completed[id] =
                         [sub EXCEPT !.status = "approved", !.created = proposal_id],
                     !.created_to_completed[proposal_id] = id,
                     !.pending[id] = NoSubmission],
           <<ProposeMsg(Pm, sub.proposer)>>)

\* Only deposits that are always refunded go back to the proposer.
execute_reject(s, sender, id) ==
    LET sub == s.pending[id]
        to == IF sub.deposit.refund_policy = "always" THEN sub.proposer ELSE Dao
    IN  Ok(/\ sender = s.approver
           /\ sub # NoSubmission,
           [s EXCEPT !.completed[id] = [sub EXCEPT !.status = "rejected"],
                     !.pending[id] = NoSubmission],
           IF sub.deposit = NoDeposit THEN <<>>
           ELSE get_return_deposit_message(sub.deposit, to, id))

execute_update_approver(s, sender, addr) ==
    Ok(sender = s.approver, [s EXCEPT !.approver = addr], <<>>)

\* Who may change the submitted hooks: the approver too.
may_change_hooks(s, sender) ==
    sender \in {Dao} \cup (IF s.flow = "approval" THEN {s.approver} ELSE {})

----------------------------------------------------------------------------
(* dao-pre-propose-approver *)

\* A submission to Pre becomes a proposal, without messages, of the approving DAO.
approver_execute_propose(s, sender, pre_propose_id) ==
    LET proposal_id == next_proposal_id(s, ApproverPm) IN
    Ok(sender = Pre /\ proposal_id \in Ids,
       [s EXCEPT !.proposal_to_pre_propose[proposal_id] = pre_propose_id,
                 !.pre_propose_to_proposal[pre_propose_id] = proposal_id],
       <<ProposeMsg(ApproverPm, Pre)>>)

\* Mutant: a proposal that was closed approves the submission too.
execute_proposal_completed_approving(s, sender, proposal_id, new_status) ==
    LET id == s.proposal_to_pre_propose[proposal_id] IN
    Ok(sender = ApproverPm /\ id # 0 /\ new_status \in {"closed", "executed"},
       s, <<Msg(Pre, [kind |-> "approve", id |-> id])>>)

\* The approving DAO's decision is passed on.  A veto is an error.
execute_proposal_completed(s, sender, proposal_id, new_status) ==
    LET id == s.proposal_to_pre_propose[proposal_id] IN
    Ok(sender = ApproverPm /\ id # 0 /\ new_status \in {"closed", "executed"},
       s,
       <<Msg(Pre, [kind |-> IF new_status = "executed" THEN "approve" ELSE "reject",
                   id |-> id])>>)

execute_reset_approver(s, sender) ==
    Ok(sender = ApproverDao, s,
       <<Msg(Pre, [kind |-> "remove_hook", addr |-> Approver]),
         Msg(Pre, [kind |-> "update_approver", addr |-> ApproverDao])>>)

----------------------------------------------------------------------------
(* The proposal modules *)

pm_propose(s, p, sender, proposer) ==
    Ok(s.pm[p].policy \in {Anyone, sender} /\ next_proposal_id(s, p) \in Ids,
       [s EXCEPT !.pm[p].proposals =
                     Append(@, [creator |-> sender, proposer |-> proposer,
                                status |-> "open"])],
       <<>>)

\* A passed proposal is executed, a rejected one closed, either may be vetoed.
\* The DAO runs the messages of a proposal, if it has any.
pm_complete(s, p, id, status, has_msgs) ==
    LET policy == s.pm[p].policy
        execution == IF status = "executed" /\ has_msgs
                     THEN <<MsgReplyOnError(Dao, [kind |-> "execute"],
                                            mask_proposal_execution_proposal_id(id))>>
                     ELSE <<>>
        hook == IF policy = Anyone THEN <<>>
                ELSE <<MsgReplyOnError(policy,
                           [kind |-> "completed", id |-> id, status |-> status],
                           FAILED_PRE_PROPOSE_MODULE_HOOK_ID)>>
    IN  Ok(/\ id \in DOMAIN s.pm[p].proposals
           /\ s.pm[p].proposals[id].status = "open"
           /\ has_msgs => p = Pm,
           [s EXCEPT !.pm[p].proposals[id].status = status],
           execution \o hook)

\* reply for a failed message, without an error if ReplyAccepted: a failed
\* execution is recorded, a pre-propose module whose hook fails is removed.
ReplyAccepted(s, p, reply_id) ==
    reply_type(reply_id) = FAILED_PRE_PROPOSE_MODULE_HOOK_ID => s.pm[p].policy # Anyone

AfterReply(s, p, reply_id) ==
    IF reply_type(reply_id) = FAILED_PRE_PROPOSE_MODULE_HOOK_ID
    THEN [s EXCEPT !.pm[p].policy = Anyone]
    ELSE [s EXCEPT !.pm[p].proposals[id_after_shift(reply_id)].status = "execution_failed"]

----------------------------------------------------------------------------
(* The ledgers of the bank module and of the cw20 tokens *)

Moved(s, d, from, to, amount) ==
    LET left == [s.bank[d] EXCEPT ![from] = @ - amount] IN
    [s EXCEPT !.bank[d] = [left EXCEPT ![to] = @ + amount]]

\* A payment of Pre; 0 tags what the DAO withdraws.
transfer(s, d, from, to, amount, ref) ==
    Ok(s.bank[d][from] >= amount,
       LET m == Moved(s, d, from, to, amount) IN
       IF ref = 0 THEN [m EXCEPT !.withdrawn = @ \cup {d}]
       ELSE [m EXCEPT !.paid[ref] = Append(@, to)],
       <<>>)

transfer_from(s, d, owner, to, amount) ==
    Ok(s.bank[d][owner] >= amount, Moved(s, d, owner, to, amount), <<>>)

----------------------------------------------------------------------------
(* Handling a message.  One that its receiver does not know is an error. *)

\* Coins sent along are with Pre before its handler runs.
pre_propose(s, sender, funds) ==
    LET paid == IF funds.amount = 0 THEN s ELSE Moved(s, funds.denom, sender, Pre, funds.amount)
    IN  IF funds.amount # 0 /\ s.bank[funds.denom][sender] < funds.amount THEN {}
        ELSE IF s.flow = "single" THEN execute_propose(paid, sender, funds)
        ELSE approval_execute_propose(paid, sender, funds)

execute_pre(s, sender, c) ==
    CASE c.kind = "propose" -> pre_propose(s, sender, c.funds)
      [] c.kind = "update_config" -> execute_update_config(s, sender, c.deposit_info, c.policy)
      [] c.kind = "update_submission_policy" -> execute_update_submission_policy(s, sender, c.update)
      [] c.kind = "withdraw" -> execute_withdraw(s, sender, c.denom)
      [] c.kind = "add_hook" ->
             execute_add_proposal_submitted_hook(s, may_change_hooks(s, sender), c.addr)
      [] c.kind = "remove_hook" ->
             execute_remove_proposal_submitted_hook(s, may_change_hooks(s, sender), c.addr)
      [] c.kind = "completed" -> execute_proposal_completed_hook(s, sender, c.id, c.status)
      [] c.kind = "approve" -> execute_approve(s, sender, c.id)
      [] c.kind = "reject" -> execute_reject(s, sender, c.id)
      [] c.kind = "update_approver" -> execute_update_approver(s, sender, c.addr)
      [] OTHER -> {}

execute_approver(s, sender, c) ==
    CASE c.kind = "submitted" -> approver_execute_propose(s, sender, c.ref)
      [] c.kind = "completed" -> execute_proposal_completed(s, sender, c.id, c.status)
      [] c.kind = "reset_approver" -> execute_reset_approver(s, sender)
      [] OTHER -> {}

execute_pm(s, p, sender, c) ==
    CASE c.kind = "propose_internal" -> pm_propose(s, p, sender, c.proposer)
      [] c.kind = "complete" -> pm_complete(s, p, c.id, c.status, c.has_msgs)
      [] OTHER -> {}

execute_token(s, d, sender, c) ==
    CASE c.kind = "transfer" -> transfer(s, d, sender, c.to, c.amount, c.ref)
      [] c.kind = "transfer_from" -> transfer_from(s, d, c.owner, c.to, c.amount)
      [] OTHER -> {}

execute(s, to, sender, c) ==
    CASE to = Pre -> execute_pre(s, sender, c)
      [] to = Approver -> execute_approver(s, sender, c)
      [] to \in Pms -> execute_pm(s, to, sender, c)
      [] to \in Denom -> execute_token(s, to, sender, c)

----------------------------------------------------------------------------
(* Running a transaction *)

Running == stack # <<>>
Top == Last(stack)
NextMsg == Head(Top.pending)

\* The calls of a stack whose sender's reply absorbs an error raised at its top.
Catching(st) ==
    {k \in 2 .. Len(st) : /\ st[k].reply_on = "error"
                          /\ ReplyAccepted(st[k].saved, st[k - 1].to, st[k].reply_id)}

Unwind(st) ==
    \/ /\ Catching(st) = {}
       /\ store' = st[1].saved
       /\ stack' = <<>>
    \/ \E k \in Catching(st) :
           /\ \A j \in Catching(st) : j <= k
           /\ store' = AfterReply(st[k].saved, st[k - 1].to, st[k].reply_id)
           /\ stack' = SubSeq(st, 1, k - 1)

\* Who may make a call now: anyone starts a transaction, and a foreign contract that is
\* running may make a call of its own.
Callers ==
    IF stack = <<>> THEN Addr
    ELSE IF Len(stack) < MaxDepth /\ ~Top.called THEN {Top.to} \cap Reentrant[store.flow]
    ELSE {}

\* A call that its target does not refuse.
Call(sender, to, c) ==
    /\ sender \in Callers
    /\ execute(store, to, sender, c) # {}
    /\ stack' = IF stack = <<>>
                THEN <<Frame(Msg(sender, [kind |-> "tx"]), store, <<Msg(to, c)>>, TRUE)>>
                ELSE Append(Front(stack),
                            [Top EXCEPT !.pending = <<Msg(to, c)>>, !.called = TRUE])
    /\ UNCHANGED store

\* The next message is delivered.  A call that sends nothing ends at once.
Dispatch ==
    /\ Running
    /\ Top.pending # <<>>
    /\ LET m == NextMsg
           called == m.to \in Contracts
           results == execute(store, m.to, Top.to, m.body)
           Frames(msgs, done) == Append(Advance(stack), Frame(m, store, msgs, done))
       IN  \/ /\ ~called
              /\ stack' = Frames(<<>>, FALSE)
              /\ UNCHANGED store
           \/ /\ called
              /\ \E r \in results :
                     /\ store' = r.store
                     /\ stack' = IF r.msgs = <<>> THEN Advance(stack) ELSE Frames(r.msgs, TRUE)
           \/ /\ called
              /\ results = {} \/ m.to \in Faulty[store.flow]
              /\ Unwind(Frames(<<>>, TRUE))

Return ==
    /\ Running
    /\ Top.pending = <<>>
    /\ stack' = Front(stack)
    /\ UNCHANGED store

\* The topmost call, to a foreign contract, returns an error.
Raise ==
    /\ Running
    /\ Top.body.kind # "tx"
    /\ Top.to \in Faulty[store.flow] \ Contracts
    /\ Unwind(stack)

----------------------------------------------------------------------------
\* The storage after instantiate, with n proposals made before.  The approver's
\* instantiation has it registered as a hook.
instantiate(flow, config, approver, hooks, n) ==
    [flow |-> flow, config |-> config, deposits |-> [i \in Ids |-> NoEntry],
     hooks |-> hooks \o IF approver = Approver THEN <<Approver>> ELSE <<>>,
     approver |-> approver, current_id |-> 0,
     pending |-> [i \in Ids |-> NoSubmission], completed |-> [i \in Ids |-> NoSubmission],
     created_to_completed |-> [i \in Ids |-> 0],
     proposal_to_pre_propose |-> [i \in Ids |-> 0],
     pre_propose_to_proposal |-> [i \in Ids |-> 0],
     pm |-> [p \in Pms |->
               [proposals |-> IF p = ApproverPm THEN <<>>
                              ELSE [i \in 1 .. n |-> [creator |-> Dao, proposer |-> Dao,
                                                      status |-> "open"]],
                policy |-> IF p = Pm THEN Pre ELSE Approver]],
     bank |-> [d \in Denom |-> [h \in Holders |-> IF h \in Users THEN Wealth ELSE 0]],
     terms |-> [i \in Ids |-> [info |-> NoDeposit, proposer |-> "none"]],
     paid |-> [i \in Ids |-> <<>>], withdrawn |-> {}]

Init ==
    /\ stack = <<>>
    /\ \E flow \in Flows : \E config \in Configs[flow], approver \in Approvers[flow],
                             hooks \in HookLists[flow], n \in Earlier[flow] :
           /\ config.deposit_info # NoDeposit => into_checked(config.deposit_info)
           /\ validate(config.submission_policy)
           /\ store = instantiate(flow, config, approver, hooks, n)

Next ==
    \/ Callers # {} /\ \E call \in Calls[store.flow] : Call(call.sender, call.to, call.body)
    \/ Dispatch
    \/ Return
    \/ Raise

Spec == Init /\ [][Next]_vars

----------------------------------------------------------------------------
(* Properties *)

Proposals == store.pm[Pm].proposals

\* Every variable has its type: no balance is overdrawn, whatever the order of
\* payments.
TypeOK ==
    /\ store \in Store
    /\ \A k \in DOMAIN stack :
           /\ stack[k].saved \in Store
           /\ \A i \in DOMAIN stack[k].pending : stack[k].pending[i].to \in Addr

\* A proposal that came through Pre has the deposit entry of its own proposer,
\* although the entry is written for an id that is only expected when it is
\* written and other contracts run, and submit, in the same transaction.
EntryMatchesProposal ==
    \A id \in DOMAIN Proposals :
        Proposals[id].creator = Pre =>
            store.deposits[id].proposer = Proposals[id].proposer

\* What became of submission r.
Outcome(r) ==
    LET proposal == IF store.flow = "single" THEN r ELSE store.completed[r].created IN
    IF store.flow = "approval" /\ store.completed[r].status = "rejected" THEN "rejected"
    ELSE IF proposal \in DOMAIN Proposals THEN Proposals[proposal].status
    ELSE "open"

\* The refund strategies: never, always, only if the proposal passes.
Promised(r) ==
    LET terms == store.terms[r]
        passed == Outcome(r) \in {"executed", "execution_failed"}
    IN  IF \/ terms.info.refund_policy = "always"
           \/ terms.info.refund_policy = "only_passed" /\ passed
        THEN terms.proposer ELSE Dao

\* A deposit is paid out at most once, only when its proposal is completed or
\* its submission rejected, and to whom the terms of the submission say, also if
\* the DAO has changed its configuration since.
PaidAsPromised ==
    \A r \in Ids :
        /\ Len(store.paid[r]) <= 1
        /\ store.paid[r] # <<>> =>
               Outcome(r) # "open" /\ store.paid[r] = <<Promised(r)>>

\* Deposits that have been made and not paid out.
Unpaid(d) ==
    {r \in Ids : store.terms[r].info.denom = d /\ store.paid[r] = <<>>}

\* Between transactions Pre holds every deposit that it has not paid out, unless
\* the DAO has withdrawn that denomination.
Solvent ==
    stack = <<>> =>
        \A d \in Denom \ store.withdrawn :
            store.bank[d][Pre] >=
                MapThenSumSet(LAMBDA r : store.terms[r].info.amount, Unpaid(d))

\* As long as Pre is the proposal module's pre-propose module, no deposit is left
\* behind: a hook that fails to pay out costs Pre its place.
NothingStranded ==
    (stack = <<>> /\ store.pm[Pm].policy = Pre) =>
        \A r \in Ids : store.terms[r].info # NoDeposit /\ Outcome(r) # "open"
                           => store.paid[r] # <<>>

\* The submission policy never excludes everybody and never contradicts itself.
PolicyValid == validate(store.config.submission_policy)

\* A submission is pending or completed, not both, and approved ones and the
\* proposals made of them belong to each other one to one.
ApprovedOnce ==
    \A r \in Ids :
        /\ r <= store.current_id <=>
               (store.pending[r] # NoSubmission \/ store.completed[r] # NoSubmission)
        /\ store.pending[r] = NoSubmission \/ store.completed[r] = NoSubmission
        /\ store.created_to_completed[r] # 0 =>
               store.completed[store.created_to_completed[r]].created = r
        /\ store.completed[r].created # 0 =>
               store.created_to_completed[store.completed[r].created] = r

\* The approving DAO's decision on its proposal id is in force with Pre.
CarriedOut(id) ==
    LET status == store.pm[ApproverPm].proposals[id].status
        sub == store.completed[store.proposal_to_pre_propose[id]]
    IN  /\ status = "executed" => sub.status = "approved"
        /\ status = "closed" => sub.status = "rejected"

\* As long as the approver module has its place, every decision of the approving
\* DAO on a submission has been carried out.
DecisionsCarriedOut ==
    (stack = <<>> /\ store.pm[ApproverPm].policy = Approver) =>
        \A id \in DOMAIN store.pm[ApproverPm].proposals : CarriedOut(id)

\* README of dao-pre-propose-approver: an approval proposal that is executed
\* approves the submission, one that is closed rejects it.
ApproverDecides ==
    stack = <<>> =>
        \A id \in DOMAIN store.pm[ApproverPm].proposals :
            store.pm[ApproverPm].proposals[id].creator = Approver => CarriedOut(id)
=============================================================================
