-------------------------- MODULE ExternalRewards ---------------------------
(***************************************************************************)
(* cw20-stake-external-rewards: a reward token handed out at a fixed rate  *)
(* per block, for a period at a time, to those who stake in one cw20-stake *)
(* contract.  Handlers yield sets of storages and take a block, as in      *)
(* RewardsDistributor.                                                     *)
(***************************************************************************)
EXTENDS Integers, FiniteSetsExt

CONSTANTS Users, Owner, ScaleFactor

Ok(guard, s) == IF guard THEN {s} ELSE {}

Accounts == Users \cup {Owner}

instantiate(msg) ==
    Ok(msg.reward_duration # 0,
       [kind |-> "external", owner |-> Owner, staking_contract |-> msg.staking_contract,
        reward_token |-> msg.reward_token, period_finish |-> 0, reward_rate |-> 0,
        reward_duration |-> msg.reward_duration, reward_per_token |-> 0, last_update_block |-> 0,
        pending |-> [a \in Accounts |-> 0], user_reward_per_token |-> [a \in Accounts |-> 0],
        balance |-> 0, paid |-> [a \in Accounts |-> 0]])

----------------------------------------------------------------------------
(* Stakes, as of the start of the block *)

get_total_staked(s, blk) ==
    MapThenSumSet(LAMBDA u : blk.voting[s.staking_contract].start[u], Users)

get_staked_balance(s, blk, addr) ==
    IF addr \in Users THEN blk.voting[s.staking_contract].start[addr] ELSE 0

get_last_time_reward_applicable(s, blk) ==
    IF blk.height < s.period_finish THEN blk.height ELSE s.period_finish

get_reward_per_token(s, blk) ==
    LET total == get_total_staked(s, blk)
        blocks == get_last_time_reward_applicable(s, blk) - s.last_update_block
    IN  s.reward_per_token
            + (IF total = 0 THEN 0 ELSE (s.reward_rate * blocks * ScaleFactor) \div total)

get_rewards_earned(s, blk, addr, reward_per_token) ==
    (get_staked_balance(s, blk, addr) * (reward_per_token - s.user_reward_per_token[addr]))
        \div ScaleFactor

\* The subtractions of get_reward_per_token and get_rewards_earned do not overflow.
CanUpdate(s, blk, addr) ==
    /\ get_total_staked(s, blk) # 0 => s.last_update_block <= get_last_time_reward_applicable(s, blk)
    /\ s.user_reward_per_token[addr] <= get_reward_per_token(s, blk)

update_rewards(s, blk, addr) ==
    LET per_token == get_reward_per_token(s, blk) IN
    Ok(CanUpdate(s, blk, addr),
       [s EXCEPT !.reward_per_token = per_token,
                 !.pending[addr] = @ + get_rewards_earned(s, blk, addr, per_token),
                 !.user_reward_per_token[addr] = per_token,
                 !.last_update_block = get_last_time_reward_applicable(s, blk)])

query_pending_rewards(s, blk, addr) ==
    s.pending[addr] + get_rewards_earned(s, blk, addr, get_reward_per_token(s, blk))

----------------------------------------------------------------------------
(* Handlers *)

\* Only the owner funds, and only between periods.
execute_fund(s, blk, sender, amount) ==
    LET rate == amount \div s.reward_duration IN
    {[t EXCEPT !.period_finish = blk.height + s.reward_duration, !.reward_rate = rate,
               !.last_update_block = blk.height, !.balance = @ + amount] :
     t \in {u \in update_rewards(s, blk, sender) :
                sender = s.owner /\ s.period_finish <= blk.height /\ rate # 0}}

execute_receive(s, blk, token, sender, amount) ==
    IF s.reward_token = token /\ token.kind = "cw20" THEN execute_fund(s, blk, sender, amount) ELSE {}

execute_fund_native(s, blk, sender, amount) ==
    IF s.reward_token.kind = "native" /\ amount > 0 THEN execute_fund(s, blk, sender, amount) ELSE {}

execute_stake(s, blk, addr) == update_rewards(s, blk, addr)
execute_unstake(s, blk, addr) == update_rewards(s, blk, addr)

execute_stake_changed(s, blk, sender, addr, grew) ==
    IF sender # s.staking_contract THEN {}
    ELSE IF grew THEN execute_stake(s, blk, addr) ELSE execute_unstake(s, blk, addr)

execute_claim(s, blk, addr) ==
    {[t EXCEPT !.pending[addr] = 0, !.balance = @ - t.pending[addr],
               !.paid[addr] = @ + t.pending[addr]] :
     t \in {u \in update_rewards(s, blk, addr) : u.pending[addr] \in 1 .. u.balance}}

execute_update_reward_duration(s, blk, sender, new_duration) ==
    Ok(sender = s.owner /\ s.period_finish <= blk.height /\ new_duration # 0,
       [s EXCEPT !.reward_duration = new_duration])
=============================================================================
