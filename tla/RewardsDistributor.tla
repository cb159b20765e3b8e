------------------------- MODULE RewardsDistributor -------------------------
(***************************************************************************)
(* dao-rewards-distributor: rewards that are streamed to the members of a  *)
(* DAO in proportion to their voting power, accounted per unit of voting   *)
(* power (puvp).                                                           *)
(*                                                                         *)
(* A handler yields the set of the storages it may leave: none if it       *)
(* returns an error or if a transfer it asks for fails.  blk is the block  *)
(* a handler runs in: its height and what the voting power contracts       *)
(* answer in it.  An optional argument is a set of at most one.            *)
(***************************************************************************)
EXTENDS Integers, FiniteSets, SequencesExt

CONSTANTS
    Users,              \* members, holders of voting power
    Owner,              \* the contract's owner
    VpContracts,        \* contracts that answer for voting power
    Denoms,             \* reward tokens, [kind |-> "native" or "cw20", name |-> ...]
    MaxDistributions,   \* bound: distributions that are created
    SecondsPerBlock,    \* how fast time goes by
    DecimalOne,         \* atomics of Decimal::one()
    ScaleFactor         \* scale_factor()

ASSUME RewardsAssumption ==
    /\ IsFiniteSet(Users) /\ MaxDistributions \in Nat \ {0}
    /\ SecondsPerBlock \in Nat \ {0} /\ DecimalOne \in Nat \ {0} /\ ScaleFactor \in Nat \ {0}

Ids == 1 .. MaxDistributions

Ok(guard, s) == IF guard THEN {s} ELSE {}

----------------------------------------------------------------------------
(* Expirations and durations, in blocks or in seconds *)

Never == [unit |-> "never", at |-> 0]
At(unit, n) == [unit |-> unit, at |-> n]

AtNow(blk, unit) ==
    At(unit, IF unit = "height" THEN blk.height ELSE blk.height * SecondsPerBlock)

is_expired(expiration, blk) ==
    expiration # Never /\ AtNow(blk, expiration.unit).at >= expiration.at

\* The earlier of the block and an expiration.
UpTo(blk, expiration) ==
    IF is_expired(expiration, blk) THEN expiration ELSE AtNow(blk, expiration.unit)

Comparable(end, start) == end.unit = start.unit

get_exp_diff(end, start) == IF end.at > start.at THEN end.at - start.at ELSE 0

----------------------------------------------------------------------------
(* Emission rates *)

Paused == [kind |-> "paused"]
Immediate == [kind |-> "immediate"]
Linear(amount, unit, blocks, continuous) ==
    [kind |-> "linear", amount |-> amount, unit |-> unit, duration |-> blocks,
     continuous |-> continuous]

Rates ==
    {Paused, Immediate}
    \cup [kind : {"linear"}, amount : Nat, unit : {"height", "time"}, duration : Nat,
          continuous : BOOLEAN]

IsLinear(rate) == rate.kind = "linear"

validate(rate) == IsLinear(rate) => rate.amount # 0 /\ rate.duration # 0

\* The ratio of the two amounts is a Decimal, truncated before it is multiplied.
get_funded_period_duration(rate, funded) ==
    (rate.duration * ((funded * DecimalOne) \div rate.amount)) \div DecimalOne

StartFor(rate, blk) == IF IsLinear(rate) THEN AtNow(blk, rate.unit) ELSE Never

EndFor(rate, started_at, funded) ==
    IF IsLinear(rate) /\ started_at # Never
    THEN At(rate.unit, started_at.at + get_funded_period_duration(rate, funded))
    ELSE Never

----------------------------------------------------------------------------
(* A distribution and its active epoch *)

get_prev_block_total_vp(blk, vp_contract) == blk.voting[vp_contract].prev_total

get_voting_power_at_block(blk, vp_contract, user) == blk.voting[vp_contract].start[user]

bump_last_updated(d, blk) ==
    [d EXCEPT !.last_updated = IF d.ends_at = Never THEN Never ELSE UpTo(blk, d.ends_at)]

get_latest_reward_distribution_time(d, blk) ==
    IF d.ends_at = Never THEN d.last_updated ELSE UpTo(blk, d.ends_at)

get_total_rewards(d) ==
    CASE d.rate = Paused -> 0
      [] d.rate = Immediate -> d.funded
      [] OTHER -> (d.rate.amount * get_exp_diff(d.ends_at, d.started_at)) \div d.rate.duration

\* Whether the times that get_active_total_earned_puvp compares are of one unit.
CanUpdate(d, blk) ==
    IsLinear(d.rate) => Comparable(get_latest_reward_distribution_time(d, blk), d.last_updated)

\* Only complete periods since the last update count.
get_active_total_earned_puvp(d, blk) ==
    LET elapsed == get_exp_diff(get_latest_reward_distribution_time(d, blk), d.last_updated)
        power == get_prev_block_total_vp(blk, d.vp_contract)
    IN  CASE d.rate = Paused -> 0
          [] d.rate = Immediate \/ elapsed = 0 \/ power = 0 -> d.total_earned
          [] OTHER -> d.total_earned
                 + (d.rate.amount * (elapsed \div d.rate.duration) * ScaleFactor) \div power

update_immediate_emission_total_earned_puvp(d, blk, delta) ==
    LET power == get_prev_block_total_vp(blk, d.vp_contract) IN
    Ok(power # 0, [d EXCEPT !.total_earned = @ + (delta * ScaleFactor) \div power])

\* An epoch that stops now.
StoppedAt(d, blk) == IF d.started_at = Never THEN Never ELSE AtNow(blk, d.started_at.unit)

Finished(d, blk) ==
    [d EXCEPT !.total_earned = get_active_total_earned_puvp(d, blk), !.ends_at = StoppedAt(d, blk)]

\* Mutant: the new epoch forgets what the finished one earned.
NewEpoch_forgets(d, rate, blk) ==
    LET started == StartFor(rate, blk)
        left == d.funded - get_total_rewards(d)
    IN  [d EXCEPT !.rate = rate, !.started_at = started, !.ends_at = EndFor(rate, started, left),
                  !.last_updated = started, !.total_earned = 0, !.funded = left]

\* Mutant: what the finished epoch distributed is not deducted.
NewEpoch_not_deducted(d, rate, blk) ==
    LET started == StartFor(rate, blk) IN
    [d EXCEPT !.rate = rate, !.started_at = started, !.ends_at = EndFor(rate, started, d.funded),
              !.last_updated = started, !.total_earned = 0, !.historical = @ + d.total_earned]

\* The epoch that follows the finished one, which takes what it has distributed.
NewEpoch(d, rate, blk) ==
    LET started == StartFor(rate, blk)
        left == d.funded - get_total_rewards(d)
    IN  [d EXCEPT !.rate = rate, !.started_at = started, !.ends_at = EndFor(rate, started, left),
                  !.last_updated = started, !.total_earned = 0, !.funded = left,
                  !.historical = @ + d.total_earned]

transition_epoch(d, rate, blk) ==
    IF d.rate = rate THEN {d}
    ELSE IF ~CanUpdate(d, blk) \/ get_total_rewards(Finished(d, blk)) > d.funded THEN {}
    ELSE LET e == NewEpoch(Finished(d, blk), rate, blk) IN
         IF rate = Immediate THEN update_immediate_emission_total_earned_puvp(e, blk, e.funded)
         ELSE {e}

----------------------------------------------------------------------------
(* Rewards of a member *)

Earned(d) == d.total_earned + d.historical

\* What reward per unit of voting power makes for user, from accounted on.
get_accrued_rewards_not_yet_accounted_for(d, blk, user, total, accounted) ==
    (get_voting_power_at_block(blk, d.vp_contract, user) * (total - accounted)) \div ScaleFactor

UpToDate(d, blk) ==
    bump_last_updated([d EXCEPT !.total_earned = get_active_total_earned_puvp(d, blk)], blk)

\* Mutant: rewards that were pending are overwritten.
update_rewards_overwrites(s, blk, user, id) ==
    LET d == UpToDate(s.dist[id], blk) IN
    Ok(id <= s.count /\ s.accounted[user][id] <= Earned(d),
       [s EXCEPT !.dist[id] = d, !.accounted[user][id] = Earned(d),
                 !.pending[user][id] =
                     get_accrued_rewards_not_yet_accounted_for(d, blk, user, Earned(d), s.accounted[user][id])])

update_rewards(s, blk, user, id) ==
    LET d == UpToDate(s.dist[id], blk)
        accounted == s.accounted[user][id]
    IN  Ok(/\ id <= s.count /\ CanUpdate(s.dist[id], blk)
           /\ accounted <= Earned(d),
           [s EXCEPT !.dist[id] = d,
                     !.pending[user][id] = @ + get_accrued_rewards_not_yet_accounted_for(
                                                   d, blk, user, Earned(d), accounted),
                     !.accounted[user][id] = Earned(d)])

query_pending_rewards(s, blk, user, id) ==
    LET d == s.dist[id]
        total == get_active_total_earned_puvp(d, blk) + d.historical
    IN  s.pending[user][id] + get_accrued_rewards_not_yet_accounted_for(
                                  d, blk, user, total, s.accounted[user][id])

----------------------------------------------------------------------------
(* Hooks: who may report changes of voting power, and for which distributions *)

subscribe_distribution_to_hook(s, id, hook) == [s EXCEPT !.hooks[hook] = Append(@, id)]

unsubscribe_distribution_from_hook(s, id, hook) ==
    [s EXCEPT !.hooks[hook] =
        FoldLeft(LAMBDA kept, i : IF i = id THEN kept ELSE Append(kept, i), <<>>, @)]

get_hook_caller_registered_distribution_ids(s, sender) == s.hooks[sender]

\* update_rewards of user for each of ids in turn.
update_for_stake(s, blk, user, ids) ==
    FoldLeft(LAMBDA results, id : UNION {update_rewards(t, blk, user, id) : t \in results}, {s}, ids)

execute_unstake(s, blk, user, ids) == update_for_stake(s, blk, user, ids)

\* A staking contract, for tokens or for NFTs, reports that a stake grew or shrank.
execute_stake_changed(s, blk, sender, user, grew) ==
    LET ids == get_hook_caller_registered_distribution_ids(s, sender) IN
    IF ids = <<>> THEN {}
    ELSE IF grew THEN update_for_stake(s, blk, user, ids) ELSE execute_unstake(s, blk, user, ids)

execute_nft_stake_changed(s, blk, sender, user, grew) ==
    execute_stake_changed(s, blk, sender, user, grew)

\* A group reports the members whose weights changed, in order.
execute_membership_changed(s, blk, sender, members) ==
    LET ids == get_hook_caller_registered_distribution_ids(s, sender) IN
    IF ids = <<>> THEN {}
    ELSE FoldLeft(LAMBDA results, user :
                      UNION {update_for_stake(t, blk, user, ids) : t \in results}, {s}, members)

----------------------------------------------------------------------------
(* Handlers *)

Empty == [d \in Denoms |-> 0]

instantiate ==
    [kind |-> "distributor", owner |-> Owner, count |-> 0, dist |-> <<>>, hooks |-> [c \in VpContracts |-> <<>>], balance |-> Empty,
     pending |-> [u \in Users |-> [i \in Ids |-> 0]],
     accounted |-> [u \in Users |-> [i \in Ids |-> 0]],
     paid |-> [u \in Users |-> [i \in Ids |-> 0]]]

\* The contract receives amount.
Receives(s, denom, amount) == [s EXCEPT !.balance[denom] = @ + amount]

\* A transfer out of the contract, whoever receives it: the bank sends no coins of amount zero.
get_transfer_msg(s, denom, amount) ==
    Ok(amount <= s.balance[denom] /\ (denom.kind = "native" => amount > 0),
       [s EXCEPT !.balance[denom] = @ - amount])

IsContinuous(d) == IsLinear(d.rate) /\ d.rate.continuous

Restarts(d, blk) == d.funded = 0 \/ (~IsContinuous(d) /\ is_expired(d.ends_at, blk))

\* A distribution that has amount added, from now on or to what it has.
Extended(d, blk, amount) ==
    LET started == IF Restarts(d, blk) THEN StartFor(d.rate, blk) ELSE d.started_at
        funded == IF Restarts(d, blk) THEN amount ELSE d.funded + amount
    IN  [d EXCEPT !.funded = funded, !.started_at = started,
                  !.ends_at = EndFor(d.rate, started, funded)]

\* Only a continuous distribution has its rewards brought up to date.
execute_fund(s, blk, id, amount) ==
    LET d == s.dist[id]
        e == Extended(d, blk, amount)
    IN  {[s EXCEPT !.dist[id] = bump_last_updated(f, blk)] :
         f \in CASE d.rate = Immediate -> update_immediate_emission_total_earned_puvp(e, blk, amount)
                 [] IsContinuous(d) /\ ~Restarts(d, blk) ->
                        Ok(CanUpdate(e, blk),
                           [e EXCEPT !.total_earned = get_active_total_earned_puvp(e, blk)])
                 [] OTHER -> {e}}

execute_fund_native(s, blk, id, amount) ==
    IF id <= s.count /\ s.dist[id].denom.kind = "native" /\ amount > 0
    THEN execute_fund(Receives(s, s.dist[id].denom, amount), blk, id, amount) ELSE {}

\* denom is the token that calls.
execute_receive_cw20(s, blk, denom, id, amount) ==
    IF id <= s.count /\ s.dist[id].denom = denom
    THEN execute_fund(Receives(s, denom, amount), blk, id, amount) ELSE {}

\* The value an option holds, or what is there otherwise.
Given(option, otherwise) == IF option = {} THEN otherwise ELSE CHOOSE x \in option : TRUE

\* Sent with amount of the distribution's denomination, or with nothing.
execute_create(s, blk, sender, msg, amount) ==
    LET id == s.count + 1
        d == [denom |-> msg.denom, rate |-> msg.emission_rate, started_at |-> Never, ends_at |-> Never,
              total_earned |-> 0, last_updated |-> Never, vp_contract |-> msg.vp_contract,
              hook_caller |-> msg.hook_caller, funded |-> 0,
              withdraw_destination |-> Given(msg.withdraw_destination, sender), historical |-> 0]
        created == subscribe_distribution_to_hook([s EXCEPT !.count = id, !.dist = Append(@, d)],
                                                  id, msg.hook_caller)
    IN  IF sender # s.owner \/ ~validate(msg.emission_rate) THEN {}
        ELSE IF amount = 0 THEN {created}
        ELSE execute_fund_native(created, blk, id, amount)

execute_update(s, blk, sender, id, msg) ==
    LET Updated(d) ==
            [d EXCEPT !.vp_contract = Given(msg.vp_contract, @),
                      !.hook_caller = Given(msg.hook_caller, @),
                      !.withdraw_destination = Given(msg.withdraw_destination, @)]
        Subscribed(t, d) ==
            IF msg.hook_caller = {} THEN t
            ELSE subscribe_distribution_to_hook(
                     unsubscribe_distribution_from_hook(t, id, s.dist[id].hook_caller), id, d.hook_caller)
        Transitioned ==
            IF msg.emission_rate = {} THEN {s.dist[id]}
            ELSE UNION {transition_epoch(s.dist[id], r, blk) : r \in {q \in msg.emission_rate : validate(q)}}
    IN  IF sender # s.owner \/ id > s.count THEN {}
        ELSE {Subscribed([s EXCEPT !.dist[id] = d], d) : d \in {Updated(e) : e \in Transitioned}}

execute_claim(s, blk, user, id) ==
    UNION {IF t.pending[user][id] = 0 THEN {}
           ELSE get_transfer_msg([t EXCEPT !.pending[user][id] = 0,
                                           !.paid[user][id] = @ + t.pending[user][id]],
                                 t.dist[id].denom, t.pending[user][id]) :
           t \in update_rewards(s, blk, user, id)}

\* Ends the epoch and takes back what it has not distributed.
execute_withdraw(s, blk, sender, id) ==
    LET d == s.dist[id]
        e == [d EXCEPT !.ends_at = StoppedAt(d, blk)]
        distributed == get_total_rewards(e)
    IN  IF sender # s.owner \/ id > s.count \/ is_expired(d.ends_at, blk) \/ distributed > d.funded THEN {}
        ELSE get_transfer_msg([s EXCEPT !.dist[id] = [e EXCEPT !.funded = distributed]],
                              d.denom, d.funded - distributed)
=============================================================================
