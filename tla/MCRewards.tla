----------------------------- MODULE MCRewards ------------------------------
(* A small instance of Rewards: two members, a staking contract that reports
   changes and a board that does not. *)
EXTENDS Rewards

CONSTANTS ann, ben, pool, board, dao, safe

ByKind(distributor, external, fund) ==
    [k \in {"distributor", "external", "fund", "no fund"} |->
        CASE k = "distributor" -> distributor [] k = "external" -> external [] OTHER -> fund]

Gold == [kind |-> "native", name |-> "gold"]
Token == [kind |-> "cw20", name |-> "token"]
MCDenoms == {Gold, Token}

Stream == Linear(2, "height", 1, TRUE)
Pulse == Linear(3, "time", 3, FALSE)

Creation(denom, rate) ==
    [denom |-> denom, emission_rate |-> rate, vp_contract |-> pool, hook_caller |-> pool,
     withdraw_destination |-> {}]

MCCreations == {Creation(Gold, Stream), Creation(Token, Pulse)}

NoUpdate == [emission_rate |-> {}, vp_contract |-> {}, hook_caller |-> {}, withdraw_destination |-> {}]

MCUpdates ==
    {[NoUpdate EXCEPT !.emission_rate = {r}] : r \in {Paused, Immediate, Stream, Pulse}}
    \cup {[NoUpdate EXCEPT !.vp_contract = {board}, !.hook_caller = {board}],
          [NoUpdate EXCEPT !.hook_caller = {board}, !.withdraw_destination = {safe}]}

MCExternals == {[staking_contract |-> pool, reward_token |-> d, reward_duration |-> 2] : d \in MCDenoms}

MCFunds == {[distribution_height |-> h, funding_period |-> 1, voting_contract |-> pool] : h \in {1, 2}}

MCInitialPower == [c \in {pool, board} |-> [u \in {ann, ben} |-> 1]]

MCMaxHeight == ByKind(4, 5, 4)
MCMaxCalls == ByKind(4, 4, 4)
=============================================================================
