--------------------------- MODULE PreProposeBase ---------------------------
(***************************************************************************)
(* The handlers every pre-propose module shares:                           *)
(* packages/dao-pre-propose-base/src/execute.rs, which is also all of      *)
(* dao-pre-propose-single and dao-pre-propose-multiple.                    *)
(*                                                                         *)
(* A handler yields the set of its results: none when it returns an error, *)
(* otherwise the storage it leaves and the messages it returns (Ok).  The  *)
(* storage s is that of all contracts of the model, see PrePropose.        *)
(***************************************************************************)
EXTENDS Deposit, SubmissionPolicy, Hooks

CONSTANTS
    Pre,            \* this pre-propose module
    Pm,             \* the proposal module that instantiated it
    Dao,            \* their DAO
    MaxProposals    \* bound: proposals of a proposal module, and submissions

Ids == 1 .. MaxProposals

\* struct Config
Config == [deposit_info : CheckedDepositInfo \cup {NoDeposit},
           submission_policy : PreProposeSubmissionPolicy]

\* An entry of the deposits map, and its absence.  The ghost ref numbers the
\* submission.
Entry == [info : CheckedDepositInfo \cup {NoDeposit}, proposer : Addr, ref : Ids]
NoEntry == [info |-> NoDeposit, proposer |-> "none", ref |-> 0]

Ok(guard, s, msgs) == IF guard THEN {[store |-> s, msgs |-> msgs]} ELSE {}

----------------------------------------------------------------------------
check_can_submit(s, who) == permits(s.config.submission_policy, who)

\* The query NextProposalId of proposal module p.
next_proposal_id(s, p) == Len(s.pm[p].proposals) + 1

\* The message that creates a proposal.
ProposeMsg(p, proposer) == Msg(p, [kind |-> "propose_internal", proposer |-> proposer])

\* The submitted hooks.  An error of a receiver is an error of the submission.
SubmittedHooks(s, ref) ==
    [i \in DOMAIN s.hooks |-> Msg(s.hooks[i], [kind |-> "submitted", ref |-> ref])]

\* The deposit a submission comes with is right, if one is required.
DepositPaid(s, funds) ==
    s.config.deposit_info # NoDeposit => check_native_deposit_paid(s.config.deposit_info, funds)

DepositMsgs(s, sender) == get_take_deposit_messages(s.config.deposit_info, sender, Pre)

\* Mutant: the hooks go out before the proposal is made.
execute_propose_hooks_first(s, sender, funds) ==
    LET id == next_proposal_id(s, Pm) IN
    Ok(/\ id \in Ids
       /\ check_can_submit(s, sender)
       /\ DepositPaid(s, funds),
       [s EXCEPT !.deposits[id] = [info |-> s.config.deposit_info, proposer |-> sender,
                                   ref |-> id],
                 !.terms[id] = [info |-> s.config.deposit_info, proposer |-> sender]],
       SubmittedHooks(s, id) \o <<ProposeMsg(Pm, sender)>> \o DepositMsgs(s, sender))

\* The deposit is noted for the id the proposal is going to have.  The proposal
\* must be made before any other contract runs.
execute_propose(s, sender, funds) ==
    LET id == next_proposal_id(s, Pm) IN
    Ok(/\ id \in Ids
       /\ check_can_submit(s, sender)
       /\ DepositPaid(s, funds),
       [s EXCEPT !.deposits[id] = [info |-> s.config.deposit_info, proposer |-> sender,
                                   ref |-> id],
                 !.terms[id] = [info |-> s.config.deposit_info, proposer |-> sender]],
       <<ProposeMsg(Pm, sender)>> \o SubmittedHooks(s, id) \o DepositMsgs(s, sender))

\* deposit_info is replaced even by none, submission_policy only if given.
execute_update_config(s, sender, deposit_info, policy) ==
    Ok(/\ sender = Dao
       /\ deposit_info # NoDeposit => into_checked(deposit_info)
       /\ \A p \in policy : validate(p),
       [s EXCEPT !.config.deposit_info = deposit_info,
                 !.config.submission_policy =
                     IF policy = {} THEN @ ELSE CHOOSE p \in policy : TRUE],
       <<>>)

\* Mutant: the policy is checked before its lists are edited.
execute_update_submission_policy_early(s, sender, u) ==
    LET policy == s.config.submission_policy IN
    Ok(/\ sender = Dao
       /\ update_applies(policy, u)
       /\ validate(policy),
       [s EXCEPT !.config.submission_policy = updated(@, u)],
       <<>>)

execute_update_submission_policy(s, sender, u) ==
    LET policy == s.config.submission_policy IN
    Ok(/\ sender = Dao
       /\ update_applies(policy, u)
       /\ validate(updated(policy, u)),
       [s EXCEPT !.config.submission_policy = updated(@, u)],
       <<>>)

\* The whole balance goes to the DAO, deposits of open proposals included.  The
\* denomination is that of the configured deposit unless one is given.
execute_withdraw(s, sender, denom) ==
    LET chosen == IF denom = {} THEN {s.config.deposit_info.denom} \cap Denom ELSE denom IN
    UNION {Ok(sender = Dao /\ s.bank[d][Pre] # 0,
              s,
              <<Msg(d, [kind |-> "transfer", to |-> Dao, amount |-> s.bank[d][Pre],
                        ref |-> 0])>>) : d \in chosen}

\* Adding and removing a submitted hook; who is allowed to differs.
execute_add_proposal_submitted_hook(s, allowed, addr) ==
    Ok(allowed /\ can_add_hook(s.hooks, addr), [s EXCEPT !.hooks = add_hook(@, addr)], <<>>)

execute_remove_proposal_submitted_hook(s, allowed, addr) ==
    Ok(allowed /\ can_remove_hook(s.hooks, addr),
       [s EXCEPT !.hooks = remove_hook(@, addr)], <<>>)

should_refund_to_proposer(new_status, refund_policy) ==
    \/ refund_policy = "always"
    \/ refund_policy = "only_passed" /\ new_status = "executed"

\* Mutant: the deposit is paid out on the terms in force now.
execute_proposal_completed_hook_current(s, sender, id, new_status) ==
    LET entry == s.deposits[id]
        info == s.config.deposit_info
        to == IF should_refund_to_proposer(new_status, info.refund_policy)
              THEN entry.proposer ELSE Dao
    IN  Ok(sender = Pm /\ new_status \in {"closed", "executed", "vetoed"},
           s,
           IF entry = NoEntry \/ info = NoDeposit THEN <<>>
           ELSE get_return_deposit_message(info, to, entry.ref))

\* Mutant: a vetoed proposal is accepted but its deposit is kept.
execute_proposal_completed_hook_no_veto(s, sender, id, new_status) ==
    LET entry == s.deposits[id]
        to == IF should_refund_to_proposer(new_status, entry.info.refund_policy)
              THEN entry.proposer ELSE Dao
    IN  Ok(sender = Pm /\ new_status \in {"closed", "executed", "vetoed"},
           s,
           IF entry.info = NoDeposit \/ new_status = "vetoed" THEN <<>>
           ELSE get_return_deposit_message(entry.info, to, entry.ref))

\* The deposit noted for the proposal goes to its proposer or to the DAO.  The
\* entry stays.  A proposal without one was made before this module was there.
execute_proposal_completed_hook(s, sender, id, new_status) ==
    LET entry == s.deposits[id]
        to == IF should_refund_to_proposer(new_status, entry.info.refund_policy)
              THEN entry.proposer ELSE Dao
    IN  Ok(sender = Pm /\ new_status \in {"closed", "executed", "vetoed"},
           s,
           IF entry.info = NoDeposit THEN <<>>
           ELSE get_return_deposit_message(entry.info, to, entry.ref))
=============================================================================
