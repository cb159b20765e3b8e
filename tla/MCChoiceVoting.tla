--------------------------- MODULE MCChoiceVoting ---------------------------
(* A small instance of ChoiceVoting: three members, one of whom gains power
   after the first block, a vetoer and a receiver that may fail. *)
EXTENDS ChoiceVoting

CONSTANTS ann, ben, cat, dave, mod

ByKind(multiple, condorcet) ==
    [k \in {"multiple", "condorcet"} |-> IF k = "multiple" THEN multiple ELSE condorcet]

VetoBy(early, before) == [kind |-> "veto", timelock_duration |-> 1, vetoer |-> dave,
                        early_execute |-> early, veto_before_passed |-> before]

Quorum(n) == [kind |-> "percent", atomics |-> n]
Majority == [kind |-> "majority"]

Multiple(quorum, min, revoting, close, members, veto) ==
    [quorum |-> quorum, min_voting_period |-> min, max_voting_period |-> 2,
     allow_revoting |-> revoting, close_proposal_on_execution_failure |-> close,
     only_members_execute |-> members, veto |-> veto]

Ranked(quorum, min, max, close) ==
    [quorum |-> quorum, min_voting_period |-> min, voting_period |-> max,
     close_proposals_on_execution_failure |-> close]

NoVeto == [kind |-> "none"]

MCConfigs == ByKind(
    {Multiple(Majority, 0, FALSE, TRUE, FALSE, VetoBy(TRUE, FALSE)),
     Multiple(Quorum(1), 1, FALSE, FALSE, TRUE, NoVeto),
     Multiple(Quorum(2), 0, TRUE, TRUE, FALSE, VetoBy(FALSE, TRUE)),
     Multiple(Quorum(0), 0, FALSE, TRUE, FALSE, NoVeto),
     Multiple(Quorum(5), 0, FALSE, TRUE, FALSE, NoVeto)},
    {Ranked(Majority, 0, 1, TRUE), Ranked(Quorum(3), 1, 1, FALSE), Ranked(Quorum(3), 2, 1, TRUE)})

External == [kind |-> "external", to |-> mod]
Update(c) == [kind |-> "update_config", config |-> c]

MCOptions == ByKind(
    {<<<<External>>, <<Update(Multiple(Majority, 0, FALSE, FALSE, FALSE, NoVeto))>>>>, <<<<External>>>>},
    {<<<<External>>, <<Update(Ranked(Majority, 0, 1, FALSE))>>>>,
     <<<<>>, <<Update(Ranked(Quorum(5), 0, 1, FALSE))>>, <<External>>>>, <<>>})

MCDaoCalls == ByKind(
    {[kind |-> "add_proposal_hook", addr |-> mod], [kind |-> "remove_proposal_hook", addr |-> mod],
     [kind |-> "add_vote_hook", addr |-> mod], [kind |-> "remove_vote_hook", addr |-> mod],
     [kind |-> "update_pre_propose_info", policy |-> [kind |-> "module", addr |-> mod]]},
    {})

MCPowerAt == [h \in 0 .. 4 |-> [a \in Addr |->
    CASE a = ann -> 2 [] a = ben -> IF h = 0 THEN 1 ELSE 2 [] a = cat -> 1 [] OTHER -> 0]]
MCMaxHeight == ByKind(4, 1)
MCLastStart == ByKind(1, 0)
=============================================================================
