----------------------------- MODULE TokenStaked -----------------------------
(***************************************************************************)
(* dao-voting-token-staked: a native token is staked, one unit of it is    *)
(* one unit of voting power.                                               *)
(***************************************************************************)
EXTENDS StakingBase

supply(s) == Sum(s.bank, Holders)

\* What may be staked from the start is not nothing, and enough for a count.
Stakeable(msg, initial_supply) ==
    /\ \A t \in msg.threshold : t.kind = "absolute_count" =>
           assert_valid_absolute_count_threshold(t.count, initial_supply)
    /\ initial_supply # 0

\* The issuer this contract instantiated mints the initial balances and the
\* DAO's, which does not count.
reply_issuer(msg, bank) ==
    Ok(Stakeable(msg, Sum(bank, Users)), NewStore("token", msg, bank, <<>>))

\* A factory has made the token.
reply_factory(msg, bank) ==
    Ok(Stakeable(msg, Sum(bank, Holders) - bank[Dao]), NewStore("token", msg, bank, <<>>))

instantiate(msg, bank) ==
    IF /\ validate_duration(msg.duration)
       /\ \A t \in msg.threshold : t.kind = "percentage" =>
              assert_valid_percentage_threshold(t.percent)
    THEN CASE msg.asset = "existing" ->
                  Ok(ValidThreshold(msg.threshold, Sum(bank, Holders)),
                     NewStore("token", msg, bank, <<>>))
           [] msg.asset = "new" -> reply_issuer(msg, bank)
           [] msg.asset = "factory" -> reply_factory(msg, bank)
    ELSE {}

\* The coins sent along are with the contract already.
execute_stake(s, height, sender, amount) ==
    Ok(amount # 0 /\ amount <= s.bank[sender],
       stake_hook_msgs(
           SetPower([s EXCEPT !.bank = Pay(@, sender, Self, amount)], height, sender,
                    s.power[sender].now + amount, s.total.now + amount),
           sender, amount))

\* Mutant: the total keeps what was unstaked.
execute_unstake_total_kept(s, height, sender, amount) ==
    UNION {Ok(amount # 0 /\ amount <= s.power[sender].now,
              unstake_hook_msgs(
                  SetPower(r, height, sender, s.power[sender].now - amount, s.total.now),
                  sender, amount)) : r \in PaidOut(s, height, sender, amount)}

execute_unstake(s, height, sender, amount) ==
    UNION {Ok(amount # 0 /\ amount <= s.power[sender].now /\ amount <= s.total.now,
              unstake_hook_msgs(
                  SetPower(r, height, sender, s.power[sender].now - amount, s.total.now - amount),
                  sender, amount)) : r \in PaidOut(s, height, sender, amount)}

execute_claim(s, height, sender) == Claimed(s, height, sender)

update_config(s, sender, duration) == execute_update_config(s, sender, duration)

update_active_threshold(s, sender, threshold) ==
    execute_update_active_threshold(s, sender, threshold, supply(s))

query_voting_power_at_height(s, user, height) == may_load_at_height(s.power[user], height)

query_total_power_at_height(s, height) == may_load_at_height(s.total, height)

\* Goes by the stakes at this moment.
query_is_active(s) == IsActive(s.threshold, s.total.now, supply(s))
=============================================================================
