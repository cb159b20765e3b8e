---------------------------- MODULE MCPrePropose ----------------------------
(***************************************************************************)
(* Small instances of PrePropose.  alice and sam submit proposals; sam is  *)
(* a contract that is called as a submitted hook and calls back.           *)
(***************************************************************************)
EXTENDS PrePropose

CONSTANTS alice, sam, coin, token, pre, pm, dao, appr, apprpm, apprdao

Deposit1(denom, amount, refund) ==
    [denom |-> denom, amount |-> amount, refund_policy |-> refund]

Everybody == [kind |-> "anyone", dao_members |-> FALSE, allowlist |-> {}, denylist |-> {}]
Only(members, allow, deny) ==
    [kind |-> "specific", dao_members |-> members, allowlist |-> allow, denylist |-> deny]

With(info, policy) == [deposit_info |-> info, submission_policy |-> policy]

From(sender, to, body) == [sender |-> sender, to |-> to, body |-> body]
Funds(d, n) == [denom |-> d, amount |-> n]
Update(info, policy) ==
    [kind |-> "update_config", deposit_info |-> info, policy |-> policy]
NoUpdate == [set_dao_members |-> {}, allowlist_add |-> {}, allowlist_remove |-> {},
             denylist_add |-> {}, denylist_remove |-> {}]
Edit(u) == [kind |-> "update_submission_policy", update |-> u]

Submit(u, n) == From(u, pre, [kind |-> "propose", funds |-> Funds(coin, n)])

Complete(sender, p, statuses, msgs) ==
    {From(sender, p, [kind |-> "complete", id |-> id, status |-> status, has_msgs |-> has]) :
        id \in Ids, status \in statuses, has \in msgs}

----------------------------------------------------------------------------
(* dao-pre-propose-single *)

SingleConfigs ==
    {With(Deposit1(coin, 2, "only_passed"), Everybody),
     With(Deposit1(token, 1, "always"), Only(TRUE, {sam}, {}))}

SingleCalls ==
    {Submit(alice, 0), Submit(alice, 2), Submit(sam, 0)}
    \cup Complete(alice, pm, {"executed"}, {TRUE})
    \cup Complete(alice, pm, {"closed", "vetoed"}, {FALSE})
    \cup Complete(sam, pm, {"executed"}, {FALSE})
    \cup {From(alice, pm, [kind |-> "propose_internal", proposer |-> alice]),
          From(dao, pre, Update(NoDeposit, {})),
          From(dao, pre, Update(Deposit1(coin, 2, "always"), {Everybody})),
          From(dao, pre, Update(Deposit1(coin, 0, "never"), {})),
          From(dao, pre, Edit([NoUpdate EXCEPT !.denylist_add = {{sam}}])),
          From(dao, pre, Edit([NoUpdate EXCEPT !.allowlist_remove = {{sam}}, !.set_dao_members = {FALSE}])),
          From(dao, pre, [kind |-> "withdraw", denom |-> {}]),
          From(dao, pre, [kind |-> "withdraw", denom |-> {token}]),
          From(dao, pre, [kind |-> "add_hook", addr |-> sam]),
          From(dao, pre, [kind |-> "remove_hook", addr |-> sam])}

----------------------------------------------------------------------------
(* dao-pre-propose-approval-single with dao-pre-propose-approver *)

ApprovalConfigs == {With(Deposit1(token, 1, "always"), Only(TRUE, {}, {}))}

ApprovalCalls ==
    {Submit(alice, 0), Submit(alice, 2)}
    \cup Complete(alice, apprpm, {"executed", "closed", "vetoed"}, {FALSE})
    \cup Complete(alice, pm, {"executed", "closed"}, {FALSE})
    \cup {From(apprdao, pre, [kind |-> decision, id |-> id]) :
              decision \in {"approve", "reject"}, id \in Ids}
    \cup {From(apprdao, appr, [kind |-> "reset_approver"]),
          From(apprdao, pre, [kind |-> "update_approver", addr |-> appr]),
          From(dao, pre, Update(Deposit1(coin, 2, "only_passed"), {})),
          From(dao, pre, [kind |-> "withdraw", denom |-> {}])}

----------------------------------------------------------------------------
ByFlow(single, approval) == [flow \in Flows |-> IF flow = "single" THEN single ELSE approval]

MCConfigs == ByFlow(SingleConfigs, ApprovalConfigs)
MCApprovers == ByFlow({dao}, {appr, apprdao})
MCHookLists == ByFlow({<<sam>>}, {<<>>})
MCEarlier == ByFlow({0, 1}, {0})
MCCalls == ByFlow(SingleCalls, ApprovalCalls)
MCFaulty == ByFlow({sam, dao, token}, {token})
MCReentrant == ByFlow({sam, dao}, {})

\* No deposits, no failing tokens: only the approving DAO's decisions.
MCVetoConfigs == ByFlow({}, {With(NoDeposit, Everybody)})
MCVetoApprovers == ByFlow({}, {appr})
MCVetoFaulty == ByFlow({}, {})
MCVetoCalls ==
    ByFlow({}, {Submit(alice, 0)}
               \cup Complete(alice, apprpm, {"executed", "closed", "vetoed"}, {FALSE}))
=============================================================================
