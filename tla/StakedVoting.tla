---------------------------- MODULE StakedVoting ----------------------------
(***************************************************************************)
(* A voting module whose power is staked, used by its stakers and its DAO  *)
(* as blocks go by.  It is one of dao-voting-token-staked ("token"),       *)
(* dao-voting-cw20-staked with cw20-stake ("cw20"),                        *)
(* dao-voting-cw721-staked ("cw721") and dao-voting-onft-staked ("onft").  *)
(* Durations are in blocks; a duration in seconds is the same on a clock   *)
(* of its own.                                                             *)
(***************************************************************************)
EXTENDS StakingBase

CONSTANTS
    Tokens,         \* by kind: distributions of tokens or NFTs to start with
    Msgs,           \* by kind: instantiation messages
    Durations,      \* unstaking durations the DAO may choose, as sets
    Thresholds,     \* by kind: active thresholds the DAO may choose, as sets
    Amounts,        \* amounts a user stakes, unstakes or funds with
    Lists,          \* lists of NFTs a user names
    MaxStake,       \* bound: the total that ConfirmStake may reach
    MaxHeight       \* bound, by kind: the last block

ASSUME StakedAssumption ==
    /\ \A k \in {"token", "cw20"} : Tokens[k] \subseteq [Holders -> Nat]
    /\ \A k \in {"cw721", "onft"} : Tokens[k] \subseteq [Nfts -> Holders]
    /\ \A k \in {"token", "cw20", "cw721", "onft"} : \A msg \in Msgs[k] :
           msg.asset \in {"existing", "new", "factory"} /\ msg.duration \in SUBSET Nat
    /\ \A k \in {"token", "cw20", "cw721", "onft"} :
           /\ \A msg \in Msgs[k] : msg.threshold \in SUBSET ActiveThreshold
           /\ Thresholds[k] \subseteq SUBSET ActiveThreshold
    /\ NoOne \notin Users
    /\ Durations \subseteq SUBSET Nat /\ Amounts \subseteq Nat /\ Lists \subseteq Seq(Nfts)

VARIABLES store, height

vars == <<store, height>>

TS == INSTANCE TokenStaked
C20 == INSTANCE Cw20Stake
C721 == INSTANCE Cw721Staked
ON == INSTANCE OnftStaked

kind == store.kind

Becomes(results) == store' \in results /\ UNCHANGED height

----------------------------------------------------------------------------
(* The queries every voting module answers *)

Power(s, user, h) ==
    CASE s.kind = "token" -> TS!query_voting_power_at_height(s, user, h)
      [] s.kind = "cw20"  -> C20!query_voting_power_at_height(s, user, h)
      [] s.kind = "cw721" -> C721!query_voting_power_at_height(s, user, h)
      [] s.kind = "onft"  -> ON!query_voting_power_at_height(s, user, h)

TotalPower(s, h) ==
    CASE s.kind = "token" -> TS!query_total_power_at_height(s, h)
      [] s.kind = "cw20"  -> C20!query_total_power_at_height(s, h)
      [] s.kind = "cw721" -> C721!query_total_power_at_height(s, h)
      [] s.kind = "onft"  -> ON!query_total_power_at_height(s, h)

Active(s, h) ==
    CASE s.kind = "token" -> TS!query_is_active(s)
      [] s.kind = "cw20"  -> C20!query_is_active(s, h)
      [] s.kind = "cw721" -> C721!query_is_active(s, h)
      [] s.kind = "onft"  -> ON!query_is_active(s, h)

----------------------------------------------------------------------------
(* Stakers *)

UnstakeResults(s, u, what) ==
    CASE s.kind = "token" -> TS!execute_unstake(s, height, u, what)
      [] s.kind = "cw20"  -> C20!execute_unstake(s, height, u, what)
      [] s.kind = "cw721" -> C721!execute_unstake(s, height, u, what)
      [] s.kind = "onft"  -> ON!execute_unstake(s, height, u, what)

ClaimResults(s, u) ==
    CASE s.kind = "token" -> TS!execute_claim(s, height, u)
      [] s.kind = "cw20"  -> C20!execute_claim(s, height, u)
      [] s.kind = "cw721" -> C721!execute_claim_nfts(s, height, u)
      [] s.kind = "onft"  -> ON!execute_claim_nfts(s, height, u)

Stake(u, amount) ==
    Becomes(IF kind = "token" THEN TS!execute_stake(store, height, u, amount)
            ELSE IF kind = "cw20" THEN C20!execute_stake(store, height, u, amount) ELSE {})

StakeNft(u, n) == kind = "cw721" /\ Becomes(C721!execute_stake(store, height, u, n))

PrepareStake(u, ids) == kind = "onft" /\ Becomes(ON!execute_prepare_stake(store, u, ids))

ConfirmStake(u, ids) ==
    /\ kind = "onft" /\ store.total.now + Len(ids) <= MaxStake
    /\ Becomes(ON!execute_confirm_stake(store, height, u, ids))

CancelStake(who, ids, recipient) ==
    kind = "onft" /\ Becomes(ON!execute_cancel_stake(store, who, ids, recipient))

\* A plain transfer, also to the contract.
TransferNft(n, to) ==
    /\ kind \in {"cw721", "onft"} /\ store.owner[n] \in Users
    /\ Becomes({[store EXCEPT !.owner[n] = to]})

UnstakeTokens(u, amount) == kind \in {"token", "cw20"} /\ Becomes(UnstakeResults(store, u, amount))

UnstakeNfts(u, ids) == kind \in {"cw721", "onft"} /\ Becomes(UnstakeResults(store, u, ids))

ClaimMature(u) == Becomes(ClaimResults(store, u))

Fund(u, amount) == kind = "cw20" /\ Becomes(C20!execute_fund(store, u, amount))

----------------------------------------------------------------------------
(* The DAO *)

UpdateConfig(who, duration) ==
    Becomes(CASE kind = "token" -> TS!update_config(store, who, duration)
              [] kind = "cw20"  -> C20!update_config(store, who, duration)
              [] kind = "cw721" -> C721!update_config(store, who, duration)
              [] kind = "onft"  -> ON!update_config(store, who, duration))

UpdateActiveThreshold(who, threshold) ==
    Becomes(CASE kind = "token" -> TS!update_active_threshold(store, who, threshold)
              [] kind = "cw20"  -> C20!update_active_threshold(store, who, threshold)
              [] kind = "cw721" -> C721!update_active_threshold(store, who, threshold)
              [] kind = "onft"  -> ON!update_active_threshold(store, who, threshold))

AddHook(who) ==
    Becomes(CASE kind = "token" -> execute_add_hook(store, who, Tracker)
              [] kind = "cw20"  -> C20!add_hook_msg(store, who, Tracker)
              [] kind = "cw721" -> C721!add_hook_msg(store, who, Tracker)
              [] kind = "onft"  -> ON!add_hook_msg(store, who, Tracker))

RemoveHook(who) ==
    Becomes(CASE kind = "token" -> execute_remove_hook(store, who, Tracker)
              [] kind = "cw20"  -> C20!remove_hook_msg(store, who, Tracker)
              [] kind = "cw721" -> C721!remove_hook_msg(store, who, Tracker)
              [] kind = "onft"  -> ON!remove_hook_msg(store, who, Tracker))

NextBlock == height < MaxHeight[kind] /\ height' = height + 1 /\ UNCHANGED store

----------------------------------------------------------------------------
Init ==
    /\ height = 1
    /\ \/ \E msg \in Msgs["token"], t \in Tokens["token"] : store \in TS!instantiate(msg, t)
       \/ \E msg \in Msgs["cw20"], t \in Tokens["cw20"] : store \in C20!instantiate(msg, t)
       \/ \E msg \in Msgs["cw721"], t \in Tokens["cw721"] : store \in C721!instantiate(msg, t)
       \/ \E msg \in Msgs["onft"], t \in Tokens["onft"] : store \in ON!instantiate(msg, t)

Next ==
    \/ \E u \in Users, n \in Amounts : Stake(u, n) \/ UnstakeTokens(u, n) \/ Fund(u, n)
    \/ \E u \in Users, n \in Nfts : StakeNft(u, n)
    \/ \E u \in Users, ids \in Lists :
           PrepareStake(u, ids) \/ ConfirmStake(u, ids) \/ UnstakeNfts(u, ids)
    \/ \E n \in Nfts, to \in Users \cup {Self} : TransferNft(n, to)
    \/ \E ids \in Lists :
           \/ \E u \in Users : CancelStake(u, ids, {}) \/ CancelStake(Dao, ids, {u})
           \/ CancelStake(Dao, ids, {})
    \/ \E u \in Users : ClaimMature(u)
    \/ \E d \in Durations : UpdateConfig(Dao, d)
    \/ \E t \in Thresholds[kind] : UpdateActiveThreshold(Dao, t)
    \/ AddHook(Dao) \/ RemoveHook(Dao)
    \/ NextBlock

Spec == Init /\ [][Next]_vars

----------------------------------------------------------------------------
(* Properties *)

\* At every height the powers of all users add up to the total power, as a
\* tally needs it; a user's power in the cw721 module is the number of NFTs the
\* user has staked.
PowersAddUp ==
    /\ \A h \in 1 .. height + 1 :
           Sum([u \in Users |-> Power(store, u, h)], Users) = TotalPower(store, h)
    /\ kind = "cw721" =>
           \A u \in Users : Power(store, u, height + 1)
                                = Cardinality({n \in Nfts : <<u, n>> \in store.staked})

\* What the module says of the power at a height that has been reached never
\* changes again: not even by stakes and unstakes in the same block.
PastPowersFixed ==
    [][\A h \in 1 .. height :
           /\ \A u \in Users : Power(store', u, h) = Power(store, u, h)
           /\ TotalPower(store', h) = TotalPower(store, h)]_vars

\* User u has room for one more claim, or needs none.
HasRoom(u) == store.duration = {} \/ Len(store.claims[u]) < MaxClaims

\* A staker can unstake everything, and whatever claims are mature are paid: no
\* one's leaving takes what others are owed.  Excepted are NFTs that the DAO took
\* back by cancelling a stake.
Withdrawable ==
    \A u \in Users :
        /\ (kind \in {"token", "cw20"} /\ store.power[u].now > 0 /\ HasRoom(u)) =>
               UnstakeResults(store, u, store.power[u].now) # {}
        /\ kind \in {"cw721", "onft"} =>
               \A n \in Nfts \ store.recalled :
                   <<u, n>> \in store.staked /\ HasRoom(u) => UnstakeResults(store, u, <<n>>) # {}
        /\ LET mature == Mature(store.claims[u], height) IN
           /\ \E i \in DOMAIN mature : mature[i].what # 0
           /\ \A i \in DOMAIN mature : mature[i].what \notin store.recalled
           => ClaimResults(store, u) # {}

\* A hook receiver that adds up what it is told knows every user's power.
HooksTrackPower ==
    Tracker \in Range(store.hooks) => \A u \in Users : store.told[u] = store.power[u].now

\* What a user's shares in cw20-stake are worth never falls unless the user
\* unstakes, however others' stakes and unstakes are rounded.
ValueNeverFalls ==
    [][kind = "cw20" =>
           \A u \in Users : store'.power[u].now >= store.power[u].now =>
               C20!query_staked_value(store', u) >= C20!query_staked_value(store, u)]_vars

\* The active threshold is never out of reach: were everything staked, the module
\* would be active.
Activatable ==
    Active([store EXCEPT !.total = Snapshot(IF kind \in {"token", "cw20"}
                                            THEN Sum(store.bank, Holders)
                                            ELSE Cardinality(Nfts))], height)
=============================================================================
