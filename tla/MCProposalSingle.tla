-------------------------- MODULE MCProposalSingle --------------------------
(***************************************************************************)
(* A small DAO for ProposalSingle: alice and bob hold power, sam holds     *)
(* none and is the vetoer; of the power of 3, what they lack never votes.  *)
(***************************************************************************)
EXTENDS ProposalSingle

CONSTANTS alice, bob, sam, dao, self, hookA, hookB, gate, gate2

\* bob joins after height 0; the contract hookA is a member where it exists.
Power(h) == [a \in Addr |-> CASE a = alice -> 2
                              [] a = bob /\ h > 0 -> 1
                              [] a = hookA -> 1
                              [] OTHER -> 0]

MCPowerAt ==
    [h \in Heights |-> [S \in SUBSET Addr |-> SumFunctionOnSet(Power(h), S)]]

MCTotalPowerAt == [h \in Heights |-> 3]

----------------------------------------------------------------------------
(* Configurations *)

AbsolutePercentage(p) == [kind |-> "absolute_percentage", percentage |-> p]
ThresholdQuorum(t, q) == [kind |-> "threshold_quorum", threshold |-> t, quorum |-> q]
AbsoluteCount(n) == [kind |-> "absolute_count", threshold |-> n]

Veto1(early, before) ==
    [kind |-> "veto", timelock_duration |-> 1, vetoer |-> sam,
     early_execute |-> early, veto_before_passed |-> before]

Cfg(threshold, min, max, revote, close, members, veto) ==
    [threshold |-> threshold, max_voting_period |-> max, min_voting_period |-> min,
     only_members_execute |-> members, allow_revoting |-> revote,
     close_proposal_on_execution_failure |-> close, veto |-> veto]

\* Every kind of threshold, with and without revoting, minimum period, veto.
MCConfigs ==
    {Cfg(AbsolutePercentage(Majority), 0, 2, FALSE, TRUE, TRUE, NoVeto),
     Cfg(AbsolutePercentage(Percent(50)), 0, 2, FALSE, TRUE, FALSE, Veto1(TRUE, FALSE)),
     Cfg(AbsolutePercentage(Percent(100)), 0, 1, FALSE, FALSE, FALSE, NoVeto),
     Cfg(ThresholdQuorum(Majority, Percent(30)), 1, 2, FALSE, TRUE, TRUE, Veto1(FALSE, TRUE)),
     Cfg(ThresholdQuorum(Percent(60), Majority), 0, 2, TRUE, TRUE, FALSE, NoVeto),
     Cfg(ThresholdQuorum(Percent(100), Percent(0)), 0, 1, FALSE, FALSE, TRUE, NoVeto),
     Cfg(AbsoluteCount(3), 1, 2, TRUE, TRUE, FALSE, Veto1(TRUE, TRUE)),
     Cfg(AbsoluteCount(2), 0, 2, FALSE, TRUE, TRUE, NoVeto)}

ExternalTo(a) == [kind |-> "external", to |-> a]

\* No message, and one that may fail.
MCLifecycleMsgs == {<<>>, <<ExternalTo(sam)>>}

----------------------------------------------------------------------------
(* Hooks, pre-propose modules and calls that come back.  hookA receives hooks,
   gate and gate2 are pre-propose modules. *)

CallConfig(c) == [kind |-> "update_config", config |-> c]
CallPolicy(p) == [kind |-> "update_pre_propose_info", policy |-> p]
CallHook(kind, a) == [kind |-> kind, addr |-> a]

\* alice decides alone; executions that fail close the proposal, or are undone.
FastConfig(close) ==
    Cfg(AbsoluteCount(2), 0, 1, FALSE, close, FALSE, NoVeto)

MCHookConfigs == {FastConfig(TRUE), FastConfig(FALSE)}

MCHookCalls ==
    {CallHook("add_proposal_hook", hookA), CallHook("add_vote_hook", hookA),
     CallHook("remove_proposal_hook", hookA), CallHook("remove_vote_hook", hookA),
     CallPolicy(Module(gate))}

MCHookMsgs ==
    {<<CallPolicy(Anyone), ExternalTo(sam)>>,
     <<CallPolicy(Module(gate2))>>,
     <<CallHook("remove_proposal_hook", hookA), CallConfig(FastConfig(TRUE))>>}

----------------------------------------------------------------------------
(* Disagreements between documentation and code *)

\* Two thirds, rounded up to a Decimal.
MCTwoThirds == {Cfg(AbsolutePercentage(Percent(67)), 0, 2, FALSE, TRUE, FALSE, NoVeto)}

MCFastConfig == {FastConfig(TRUE)}
MCAddHook == {CallHook("add_proposal_hook", hookA)}
MCDropModule == {<<CallPolicy(Anyone)>>}
MCNoMsgs == {<<>>}
=============================================================================
