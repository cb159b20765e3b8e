------------------------------ MODULE Cw20Stake ------------------------------
(***************************************************************************)
(* cw20-stake, which keeps a cw20 token, and dao-voting-cw20-staked, which *)
(* takes its voting power from there.  Who stakes gets shares of BALANCE;  *)
(* funding raises BALANCE and with it the value of every share.            *)
(***************************************************************************)
EXTENDS StakingBase

----------------------------------------------------------------------------
(* math.rs *)

\* Mutant: shares are rounded up.
amount_to_stake_up(staked_total, balance, sent) ==
    IF staked_total = 0 \/ balance = 0 THEN sent
    ELSE (staked_total * sent + balance - 1) \div balance

amount_to_stake(staked_total, balance, sent) ==
    IF staked_total = 0 \/ balance = 0 THEN sent ELSE (staked_total * sent) \div balance

amount_to_claim(staked_total, balance, ask) == (ask * balance) \div staked_total

----------------------------------------------------------------------------
(* contract.rs *)

\* Mutant: the hooks report the tokens sent instead of the shares.
execute_stake_report_sent(s, height, sender, amount) ==
    LET shares == amount_to_stake(s.total.now, s.balance, amount) IN
    Ok(amount <= s.bank[sender],
       stake_hook_msgs(
           SetPower([s EXCEPT !.bank = Pay(@, sender, Self, amount), !.balance = @ + amount],
                    height, sender, s.power[sender].now + shares, s.total.now + shares),
           sender, amount))

\* Tokens sent with the message Stake.
execute_stake(s, height, sender, amount) ==
    LET shares == amount_to_stake(s.total.now, s.balance, amount) IN
    Ok(amount <= s.bank[sender],
       stake_hook_msgs(
           SetPower([s EXCEPT !.bank = Pay(@, sender, Self, amount), !.balance = @ + amount],
                    height, sender, s.power[sender].now + shares, s.total.now + shares),
           sender, shares))

\* Tokens sent with the message Fund.
execute_fund(s, sender, amount) ==
    Ok(amount <= s.bank[sender],
       [s EXCEPT !.bank = Pay(@, sender, Self, amount), !.balance = @ + amount])

\* Sums that reach the width of Uint128, which fail an unstake, are out of bounds.
execute_unstake(s, height, sender, amount) ==
    IF s.total.now = 0 \/ amount > s.total.now THEN {}
    ELSE LET claim == amount_to_claim(s.total.now, s.balance, amount) IN
         UNION {Ok(amount <= s.power[sender].now /\ claim <= s.balance,
                   unstake_hook_msgs(
                       SetPower([r EXCEPT !.balance = @ - claim], height, sender,
                                s.power[sender].now - amount, s.total.now - amount),
                       sender, amount)) : r \in PaidOut(s, height, sender, claim)}

execute_claim(s, height, sender) == Claimed(s, height, sender)

update_config(s, sender, duration) == execute_update_config(s, sender, duration)

add_hook_msg(s, sender, addr) == execute_add_hook(s, sender, addr)

remove_hook_msg(s, sender, addr) == execute_remove_hook(s, sender, addr)

query_staked_balance_at_height(s, user, height) == may_load_at_height(s.power[user], height)

query_total_staked_at_height(s, height) == may_load_at_height(s.total, height)

\* What user's shares are worth.
query_staked_value(s, user) ==
    IF s.balance = 0 \/ s.power[user].now = 0 \/ s.total.now = 0 THEN 0
    ELSE (s.power[user].now * s.balance) \div s.total.now

----------------------------------------------------------------------------
(* dao-voting-cw20-staked *)

token_supply(s) == Sum(s.bank, Holders)

\* reply: the token is there and, for it, a new staking contract of the DAO.
reply(msg, bank) ==
    Ok(\A t \in msg.threshold : t.kind = "absolute_count" =>
           assert_valid_absolute_count_threshold(t.count, Sum(bank, Holders)),
       NewStore("cw20", msg, bank, <<>>))

\* The staking contract is a new one in any case: one that exists may be in any
\* state this module can reach.
instantiate(msg, bank) ==
    IF /\ \A t \in msg.threshold : t.kind = "percentage" =>
              assert_valid_percentage_threshold(t.percent)
       /\ msg.asset = "new" => Sum(bank, Users) # 0
       /\ validate_duration(msg.duration)
    THEN reply(msg, bank) ELSE {}

update_active_threshold(s, sender, threshold) ==
    execute_update_active_threshold(s, sender, threshold, token_supply(s))

query_voting_power_at_height(s, user, height) == query_staked_balance_at_height(s, user, height)

query_total_power_at_height(s, height) == query_total_staked_at_height(s, height)

\* Goes by the shares, as they were when the block began.
query_is_active(s, height) ==
    IsActive(s.threshold, query_total_staked_at_height(s, height), token_supply(s))
=============================================================================
