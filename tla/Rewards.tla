------------------------------ MODULE Rewards -------------------------------
(***************************************************************************)
(* A contract that shares out funds by voting power, at work as blocks go  *)
(* by: dao-rewards-distributor, whose owner creates, updates and withdraws *)
(* distributions, cw20-stake-external-rewards, or cw-fund-distributor.     *)
(* Anyone may fund or claim what the contract lets them, and the voting    *)
(* power contracts report changes of voting power to their hooks.          *)
(***************************************************************************)
EXTENDS RewardsDistributor

CONSTANTS
    Creations,      \* messages that create a distribution
    Updates,        \* messages that update one
    Externals,      \* messages that instantiate cw20-stake-external-rewards
    Durations,      \* new durations of its periods
    Funds,          \* messages that instantiate cw-fund-distributor
    Heights,        \* heights for its redistribution
    Amounts,        \* amounts of funding
    InitialPower,   \* by contract: voting power to begin with
    Powers,         \* voting power that members may come to have
    Hooked,         \* voting power contracts with the modelled contract among their hooks
    MaxHeight,      \* bound, by kind: the last block
    MaxCalls        \* bound, by kind: fundings, updates and changes of voting power together

ContractKinds == {"distributor", "external", "fund", "no fund"}

\* Contracts that are named answer for voting power, and amounts are not negative.
ASSUME RewardInputAssumption ==
    /\ \A msg \in Creations :
           /\ msg.denom \in Denoms /\ msg.emission_rate \in Rates /\ msg.vp_contract \in VpContracts
    /\ \A msg \in Updates : msg.emission_rate \subseteq Rates /\ msg.vp_contract \subseteq VpContracts
    /\ \A msg \in Externals : msg.staking_contract \in VpContracts /\ msg.reward_duration \in Nat
    /\ \A msg \in Funds :
           /\ msg.distribution_height \in Nat \ {0} /\ msg.funding_period \in Nat
           /\ msg.voting_contract \in VpContracts
    /\ Durations \subseteq Nat /\ Heights \subseteq Nat \ {0} /\ Amounts \subseteq Nat /\ Powers \subseteq Nat
    /\ InitialPower \in [VpContracts -> [Users -> Nat]]
    /\ MaxHeight \in [ContractKinds -> Nat] /\ MaxCalls \in [ContractKinds -> Nat]

VARIABLES
    store,      \* the storage of the contract
    voting,     \* by contract: voting power now, at the start of this block and, where it is
                \* asked for, of all blocks so far; the total at the start of the block before
    height,
    even,       \* by distribution: every share was computed with the total power of the
                \* powers that share
    calls       \* how much of MaxCalls is used up

vars == <<store, voting, height, even, calls>>

ER == INSTANCE ExternalRewards
FD == INSTANCE FundDistributor

kind == store.kind
blk == [height |-> height, voting |-> voting]
Senders == Users \cup {Owner}
Live == IF kind = "distributor" THEN 1 .. store.count ELSE {}

\* cw-fund-distributor before it is instantiated.
NoFund == [kind |-> "no fund"]

Larger(m, n) == IF m < n THEN n ELSE m

\* The sum of the amounts for the members of S.
TotalOver(amounts, S) == MapThenSumSet(LAMBDA x : amounts[x], S)

Total(power) == TotalOver(power, Users)

\* Members gained power in the block before, which the total of the block before
\* does not count but their power in this block does.
Ahead(c) == voting[c].prev_total < Total(voting[c].start)

\* The power that a member may claim by a reward computed now: its power at the start of the
\* block if it claims in this block, else its power now.
Peak(c) == [u \in Users |-> Larger(voting[c].start[u], voting[c].now[u])]

\* A reward computed now counts less power than may share in it: members gained power in the
\* block before or gained it in this one, whether or not others lost as much.
Short(c) == voting[c].prev_total < Total(Peak(c))

\* What a distribution has earned per unit of voting power; nothing if it is not there.
EarnedBy(s, id) == IF id <= s.count THEN Earned(s.dist[id]) ELSE 0

\* Nothing that this step has distribution id earn is shared by more power than it counts.
EarnsEvenly(id) ==
    EarnedBy(store', id) = EarnedBy(store, id) \/ ~Short(store'.dist[id].vp_contract)

----------------------------------------------------------------------------
Init ==
    /\ store \in {instantiate, NoFund} \cup UNION {ER!instantiate(msg) : msg \in Externals}
    /\ height = 1
    /\ voting = [c \in VpContracts |->
                    [now |-> InitialPower[c], start |-> InitialPower[c],
                     past |-> IF store = NoFund THEN <<InitialPower[c]>> ELSE <<>>,
                     prev_total |-> Total(InitialPower[c])]]
    /\ even = [id \in Ids |-> TRUE]
    /\ calls = 0

Counted == calls < MaxCalls[kind] /\ calls' = calls + 1

(* dao-rewards-distributor *)

\* A transaction that leaves the storage in results and the voting power alone.
Becomes(results) ==
    /\ store' \in results
    /\ even' = [id \in Ids |->
                   /\ even[id] /\ EarnsEvenly(id)
                   /\ id \in Live => store'.dist[id].vp_contract = store.dist[id].vp_contract]
    /\ UNCHANGED <<voting, height>>

Create(sender, msg, amount) ==
    /\ kind = "distributor" /\ store.count < MaxDistributions
    /\ IF amount = 0 THEN UNCHANGED calls ELSE Counted
    /\ Becomes(execute_create(store, blk, sender, msg, amount))

FundNative(id, amount) ==
    kind = "distributor" /\ Counted /\ Becomes(execute_fund_native(store, blk, id, amount))

FundCw20(denom, id, amount) ==
    kind = "distributor" /\ Counted /\ Becomes(execute_receive_cw20(store, blk, denom, id, amount))

Update(sender, id, msg) ==
    kind = "distributor" /\ Counted /\ Becomes(execute_update(store, blk, sender, id, msg))

Withdraw(sender, id) ==
    kind = "distributor" /\ Becomes(execute_withdraw(store, blk, sender, id)) /\ UNCHANGED calls

Claim(user, id) ==
    kind = "distributor" /\ Becomes(execute_claim(store, blk, user, id)) /\ UNCHANGED calls

(* cw20-stake-external-rewards *)

FundExternal(sender, amount) ==
    /\ kind = "external" /\ Counted
    /\ store' \in ER!execute_fund_native(store, blk, sender, amount)
                      \cup ER!execute_receive(store, blk, store.reward_token, sender, amount)
    /\ UNCHANGED <<voting, height, even>>

ClaimExternal(user) ==
    /\ kind = "external" /\ store' \in ER!execute_claim(store, blk, user)
    /\ UNCHANGED <<voting, height, even, calls>>

UpdateRewardDuration(sender, duration) ==
    /\ kind = "external" /\ Counted
    /\ store' \in ER!execute_update_reward_duration(store, blk, sender, duration)
    /\ UNCHANGED <<voting, height, even>>

(* cw-fund-distributor *)

\* Whether the powers at the distribution height are known and add up to the total power.
SharesFit(s) ==
    /\ s.distribution_height <= height
    /\ FD!TotalAt(blk, s.voting_contract, s.distribution_height) <= s.total_power

InstantiateFund(msg) ==
    /\ store = NoFund /\ store' \in FD!instantiate(blk, msg)
    /\ even' = [id \in Ids |-> SharesFit(store')]
    /\ UNCHANGED <<voting, height, calls>>

FundShares(denom, amount) ==
    /\ kind = "fund" /\ Counted
    /\ store' \in IF denom.kind = "cw20" THEN FD!execute_fund_cw20(store, blk, denom, amount)
                  ELSE FD!execute_fund_native(store, blk, <<denom>>, amount)
    /\ UNCHANGED <<voting, height, even>>

ClaimShares(user, denom) ==
    /\ kind = "fund"
    /\ store' \in IF denom.kind = "cw20" THEN FD!execute_claim_cw20s(store, blk, user, <<denom>>)
                  ELSE FD!execute_claim_natives(store, blk, user, <<denom>>)
    /\ UNCHANGED <<voting, height, even, calls>>

ClaimAll(user) ==
    /\ kind = "fund" /\ store' \in FD!execute_claim_all(store, blk, user)
    /\ UNCHANGED <<voting, height, even, calls>>

Redistribute(h) ==
    /\ kind = "fund" /\ Counted
    /\ store' \in FD!execute_redistribute_unclaimed_funds(store, h)
    /\ even' = [id \in Ids |-> even[id] /\ SharesFit(store')]
    /\ UNCHANGED <<voting, height>>

(* Voting power *)

\* The voting power contracts that the modelled contract asks: the others do not matter to it.
Asked ==
    CASE kind = "distributor" -> VpContracts
      [] kind = "external" -> {store.staking_contract}
      [] kind = "fund" -> {store.voting_contract}
      [] OTHER -> {msg.voting_contract : msg \in Funds}

\* Contract c has new powers, and reported that with one of results.
Changes(c, power, results) ==
    /\ Counted
    /\ power # voting[c].now
    /\ store' \in results
    /\ voting' = [voting EXCEPT ![c].now = power]
    /\ even' = [id \in Ids |->
                   /\ even[id]
                   /\ kind = "distributor" => EarnsEvenly(id)
                   /\ id \in Live /\ store.dist[id].vp_contract = c =>
                          c \in Hooked /\ store.dist[id].hook_caller = c
                   /\ kind = "external" /\ store.staking_contract = c => c \in Hooked]
    /\ UNCHANGED height

ChangeStake(c, user, p) ==
    LET grew == p > voting[c].now[user] IN
    Changes(c, [voting[c].now EXCEPT ![user] = p],
            IF c \in Hooked /\ kind = "distributor"
            THEN execute_stake_changed(store, blk, c, user, grew)
                     \cup execute_nft_stake_changed(store, blk, c, user, grew)
            ELSE IF c \in Hooked /\ kind = "external"
            THEN ER!execute_stake_changed(store, blk, c, user, grew)
            ELSE {store})

ChangeMembers(c, members, p) ==
    /\ kind = "distributor"
    /\ Changes(c, [u \in Users |-> IF \E i \in DOMAIN members : members[i] = u THEN p ELSE voting[c].now[u]],
               IF c \in Hooked THEN execute_membership_changed(store, blk, c, members) ELSE {store})

Tick ==
    /\ height < MaxHeight[kind]
    /\ height' = height + 1
    /\ voting' = [c \in VpContracts |->
                     [now |-> voting[c].now, start |-> voting[c].now,
                      past |-> IF voting[c].past = <<>> THEN <<>> ELSE Append(voting[c].past, voting[c].now),
                      prev_total |-> Total(voting[c].start)]]
    /\ UNCHANGED <<store, even, calls>>

Next ==
    \/ \E sender \in Senders, msg \in Creations, amount \in Amounts \cup {0} : Create(sender, msg, amount)
    \/ \E id \in Ids, sender \in Senders :
          \/ \E msg \in Updates : Update(sender, id, msg)
          \/ Withdraw(sender, id)
    \/ \E id \in Ids :
          \/ \E amount \in Amounts : FundNative(id, amount)
          \/ \E amount \in Amounts, denom \in Denoms : denom.kind = "cw20" /\ FundCw20(denom, id, amount)
          \/ \E user \in Users : Claim(user, id)
    \/ \E sender \in Senders :
          \/ \E amount \in Amounts : FundExternal(sender, amount)
          \/ ClaimExternal(sender)
          \/ \E duration \in Durations : UpdateRewardDuration(sender, duration)
    \/ \E msg \in Funds : InstantiateFund(msg)
    \/ \E denom \in Denoms :
          \/ \E amount \in Amounts : FundShares(denom, amount)
          \/ \E user \in Users : ClaimShares(user, denom)
    \/ \E user \in Users : ClaimAll(user)
    \/ \E h \in Heights : Redistribute(h)
    \/ \E c \in Asked, p \in Powers :
          \/ \E user \in Users : ChangeStake(c, user, p)
          \/ \E u, v \in Users : u # v /\ ChangeMembers(c, <<u, v>>, p)
    \/ Tick

Spec == Init /\ [][Next]_vars

----------------------------------------------------------------------------
(* Properties *)

\* Bringing rewards up to date never fails: no member has more accounted for, or claimed, than
\* was earned (rewards.rs and external-rewards' get_rewards_earned: checked_sub of the reward
\* factor; cw-fund-distributor's get_entitlement: checked_sub of the previous claim), in any
\* sequence of fundings, withdrawals, claims and changes of the rate, the period or the
\* contracts.  If one had, each claim would fail and, through the hook, each stake and unstake.
UpdatesNeverFail ==
    /\ \A id \in Live, user \in Users : update_rewards(store, blk, user, id) # {}
    /\ kind = "external" => \A a \in Senders : ER!update_rewards(store, blk, a) # {}
    /\ kind = "fund" /\ even[1] =>
           \A user \in Users, denom \in Denoms : FD!CanClaim(store, blk, user, denom)

\* What a distribution, or a period of external rewards, holds that is not earned yet.
Undistributed(d) ==
    d.funded - get_total_rewards(
                   [d EXCEPT !.ends_at = IF d.ends_at = Never THEN Never ELSE UpTo(blk, d.ends_at)])

UndistributedExternal ==
    store.reward_rate * (store.period_finish - ER!get_last_time_reward_applicable(store, blk))

\* What all members may claim, with what is still to be earned.
OwedBy(id) ==
    Total([u \in Users |-> query_pending_rewards(store, blk, u, id)]) + Undistributed(store.dist[id])

\* The contract's balance covers what all members may claim and what is still to be
\* distributed, over all distributions of a token, so long as every share was computed with
\* the total power of the powers that share.
Covered ==
    /\ kind = "distributor" =>
           \A denom \in Denoms :
               LET paying == {id \in Live : store.dist[id].denom = denom} IN
               (\A id \in paying : even[id] /\ ~Ahead(store.dist[id].vp_contract)) =>
                   TotalOver([id \in paying |-> OwedBy(id)], paying) <= store.balance[denom]
    /\ kind = "external" /\ even[1] =>
           Total([u \in Users |-> ER!query_pending_rewards(store, blk, u)]) + UndistributedExternal
               <= store.balance
    /\ kind = "fund" /\ even[1] =>
           \A denom \in Denoms :
               Total([u \in Users |-> FD!get_entitlement(store, blk, u, denom)]) <= store.held[denom]

\* Whether the next step adds to a distribution with a rate that is linear but not continuous.
ToppedUp(id) ==
    /\ IsLinear(store.dist[id].rate) /\ ~IsContinuous(store.dist[id])
    /\ store'.dist[id] # store.dist[id]
    /\ store'.balance[store.dist[id].denom] > store.balance[store.dist[id].denom]

\* What a member was paid and may claim in this block is not less after the step.
KeepsRewards(id) ==
    \A u \in Users :
        store.paid[u][id] + query_pending_rewards(store, blk, u, id)
            <= store'.paid[u][id] + query_pending_rewards(store', blk', u, id)

KeepsExternalRewards ==
    \A u \in Users : store.paid[u] + ER!query_pending_rewards(store, blk, u)
                         <= store'.paid[u] + ER!query_pending_rewards(store', blk', u)

KeepsShares ==
    \A u \in Users, d \in Denoms :
        store.paid[u][d] + FD!get_entitlement(store, blk, u, d)
            <= store'.paid[u][d] + FD!get_entitlement(store', blk', u, d)

\* Within a block nothing anyone does takes rewards from a member: what a member was paid and
\* may claim is not less after a claim, an unstaking, a withdrawal, a funding, a change of the
\* rate, of the hook caller or of voting power.  Three steps are left out: adding funds to a
\* distribution with a rate that is not continuous (see FundingKeepsRewards), naming another
\* voting power contract, and the redistribution of funds that nobody claimed.
RewardsKept ==
    [][height' = height =>
          /\ \A id \in Live :
                store'.dist[id].vp_contract = store.dist[id].vp_contract /\ ~ToppedUp(id)
                    => KeepsRewards(id)
          /\ kind = "external" => KeepsExternalRewards
          /\ kind = "fund" /\ even[1] /\ (\A h \in Heights : ~Redistribute(h)) => KeepsShares]_vars

\* Adding funds does not take earned rewards from a member: "total rewards earned per unit
\* voting power from started_at to last_updated_total_earned_puvp" (Epoch, state.rs).
FundingKeepsRewards ==
    [][\A id \in Live : ToppedUp(id) => KeepsRewards(id)]_vars
=============================================================================
