-------------------------- MODULE FundDistributor ---------------------------
(***************************************************************************)
(* cw-fund-distributor: funds collected until a deadline, then shared out  *)
(* by voting power at one height.  Handlers yield sets of storages and     *)
(* take a block, as in RewardsDistributor; blk.voting[c].past holds the    *)
(* powers at the start of every block so far.                              *)
(***************************************************************************)
EXTENDS Integers, SequencesExt

CONSTANTS Users, Denoms, DecimalOne

Nothing == [d \in Denoms |-> 0]

\* The power of user at a height: at one that is yet to come, the power now.
PowerAt(blk, c, user, height) ==
    IF height \in DOMAIN blk.voting[c].past THEN blk.voting[c].past[height][user]
    ELSE blk.voting[c].now[user]

TotalOf(amounts) == MapThenSumSet(LAMBDA u : amounts[u], Users)

TotalAt(blk, c, height) == TotalOf([u \in Users |-> PowerAt(blk, c, u, height)])

\* The total power is that of the current block, whatever the distribution height.
instantiate(blk, msg) ==
    LET total == TotalAt(blk, msg.voting_contract, blk.height) IN
    IF total = 0 THEN {}
    ELSE {[kind |-> "fund", distribution_height |-> msg.distribution_height,
           expiration |-> blk.height + msg.funding_period, voting_contract |-> msg.voting_contract,
           total_power |-> total, received |-> {}, balances |-> Nothing, claims |-> [u \in Users |-> Nothing],
           held |-> Nothing, paid |-> [u \in Users |-> Nothing]]}

IsExpired(s, blk) == blk.height >= s.expiration

\* An amount of a token or a coin that is received before the deadline; nothing is
\* written for an amount of zero.
Funded(s, blk, denom, amount) ==
    IF IsExpired(s, blk) THEN {}
    ELSE IF amount = 0 THEN {s}
    ELSE {[s EXCEPT !.received = @ \cup {denom}, !.balances[denom] = @ + amount,
                    !.held[denom] = @ + amount]}

execute_fund_cw20(s, blk, denom, amount) == Funded(s, blk, denom, amount)

\* coins are the denominations that come with the message, amount of each.
execute_fund_native(s, blk, coins, amount) ==
    FoldLeft(LAMBDA results, denom : UNION {Funded(t, blk, denom, amount) : t \in results}, {s}, coins)

----------------------------------------------------------------------------
(* Entitlements *)

get_relative_share(s, blk, user) ==
    (PowerAt(blk, s.voting_contract, user, s.distribution_height) * DecimalOne) \div s.total_power

TotalShare(funds, share) == (funds * share) \div DecimalOne

CanClaim(s, blk, user, denom) ==
    s.claims[user][denom] <= TotalShare(s.balances[denom], get_relative_share(s, blk, user))

get_entitlement(s, blk, user, denom) ==
    TotalShare(s.balances[denom], get_relative_share(s, blk, user)) - s.claims[user][denom]

\* One denomination of a claim, with its transfer; one that was never received fails it.
Claimed(s, blk, user, denom) ==
    LET entitlement == get_entitlement(s, blk, user, denom) IN
    IF denom \notin s.received \/ ~CanClaim(s, blk, user, denom) \/ entitlement > s.held[denom] THEN {}
    ELSE {[s EXCEPT !.claims[user][denom] = @ + entitlement, !.held[denom] = @ - entitlement,
                    !.paid[user][denom] = @ + entitlement]}

ClaimedEach(s, blk, user, denoms) ==
    FoldLeft(LAMBDA results, denom : UNION {Claimed(t, blk, user, denom) : t \in results}, {s}, denoms)

get_cw20_claim_wasm_messages(s, blk, user, tokens) == ClaimedEach(s, blk, user, tokens)

get_native_claim_bank_messages(s, blk, user, denoms) == ClaimedEach(s, blk, user, denoms)

execute_claim_cw20s(s, blk, user, tokens) ==
    IF IsExpired(s, blk) /\ tokens # <<>> THEN get_cw20_claim_wasm_messages(s, blk, user, tokens) ELSE {}

execute_claim_natives(s, blk, user, denoms) ==
    IF IsExpired(s, blk) /\ denoms # <<>> THEN get_native_claim_bank_messages(s, blk, user, denoms) ELSE {}

\* The tokens of a kind that were ever received, in some order.
Keys(s, kind) == SetToSeq({d \in s.received : d.kind = kind})

execute_claim_all(s, blk, user) ==
    IF ~IsExpired(s, blk) THEN {}
    ELSE UNION {get_native_claim_bank_messages(t, blk, user, Keys(s, "native")) :
                t \in get_cw20_claim_wasm_messages(s, blk, user, Keys(s, "cw20"))}

----------------------------------------------------------------------------
\* Claims so far are settled, and what is left is shared out by the powers at another
\* height, still out of the total power of the beginning.
execute_redistribute_unclaimed_funds(s, height) ==
    LET claimed == [d \in Denoms |-> TotalOf([u \in Users |-> s.claims[u][d]])] IN
    IF \E d \in Denoms : claimed[d] > s.balances[d] THEN {}
    ELSE {[s EXCEPT !.distribution_height = height,
                    !.balances = [d \in Denoms |-> @[d] - claimed[d]],
                    !.claims = [u \in Users |-> Nothing]]}
=============================================================================
