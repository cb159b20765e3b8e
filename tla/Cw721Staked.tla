----------------------------- MODULE Cw721Staked -----------------------------
(***************************************************************************)
(* dao-voting-cw721-staked: NFTs of a cw721 collection are staked, each is *)
(* one unit of voting power.  Claims are those of cw721-controllers.       *)
(***************************************************************************)
EXTENDS StakingBase

Count == Cardinality(Nfts)

\* The NFTs ids, held by the contract, go to user.
Sent(s, ids, user) ==
    Ok(\A n \in Range(ids) : s.owner[n] = Self,
       [s EXCEPT !.owner = [n \in Nfts |-> IF n \in Range(ids) THEN user ELSE @[n]]])

----------------------------------------------------------------------------
(* nft_claim.rs *)

create_nft_claims(claims, ids, release_at) ==
    claims \o [i \in DOMAIN ids |-> Claim(ids[i], release_at)]

\* The NFTs of the mature claims; these are removed.
claim_nfts(s, height, user) ==
    [to_send |-> [i \in DOMAIN Mature(s.claims[user], height) |->
                     Mature(s.claims[user], height)[i].what],
     store |-> [s EXCEPT !.claims[user] = Waiting(@, height)]]

----------------------------------------------------------------------------
(* state.rs *)

register_staked_nft(s, height, staker, id) ==
    SetPower([s EXCEPT !.staked = @ \cup {<<staker, id>>}], height, staker,
             s.power[staker].now + 1, s.total.now + 1)

\* Every id is removed as it is found, so none may occur twice.
register_unstaked_nfts(s, height, staker, ids) ==
    Ok(/\ \A id \in Range(ids) : <<staker, id>> \in s.staked
       /\ IsInjective(ids)
       /\ Len(ids) <= s.power[staker].now /\ Len(ids) <= s.total.now,
       SetPower([s EXCEPT !.staked = @ \ ({staker} \X Range(ids))], height, staker,
                s.power[staker].now - Len(ids), s.total.now - Len(ids)))

----------------------------------------------------------------------------
(* contract.rs *)

\* reply: the collection was made by this contract, which minted the initial
\* NFTs, or by a factory, which is trusted with its supply.
reply(msg, owner) ==
    Ok(msg.asset = "new" =>
           /\ Nfts # {}
           /\ \A t \in msg.threshold : t.kind = "absolute_count" =>
                  assert_valid_absolute_count_threshold(t.count, Count),
       NewStore("cw721", msg, [h \in Holders |-> 0], owner))

instantiate(msg, owner) ==
    IF /\ validate_duration(msg.duration)
       /\ \A t \in msg.threshold :
              \/ t.kind = "percentage" /\ assert_valid_percentage_threshold(t.percent)
              \/ /\ t.kind = "absolute_count"
                 /\ msg.asset = "existing" => assert_valid_absolute_count_threshold(t.count, Count)
    THEN IF msg.asset = "existing" THEN {NewStore("cw721", msg, [h \in Holders |-> 0], owner)}
         ELSE reply(msg, owner)
    ELSE {}

\* The collection tells this contract of the NFT it was sent.
execute_stake(s, height, sender, id) ==
    Ok(s.owner[id] = sender,
       stake_hook_msgs(
           register_staked_nft([s EXCEPT !.owner[id] = Self], height, sender, id), sender, 1))

\* Returned at once, or by claims.
execute_unstake(s, height, sender, ids) ==
    IF ids = <<>> THEN {}
    ELSE {unstake_hook_msgs(r, sender, Len(ids)) :
              r \in UNION {IF s.duration = {} THEN Sent(u, ids, sender)
                           ELSE Ok(Len(s.claims[sender]) + Len(ids) <= MaxClaims,
                                   [u EXCEPT !.claims[sender] =
                                        create_nft_claims(@, ids, ReleaseAt(s, height))]) :
                           u \in register_unstaked_nfts(s, height, sender, ids)}}

execute_claim_nfts(s, height, sender) ==
    LET c == claim_nfts(s, height, sender) IN
    IF c.to_send = <<>> THEN {} ELSE Sent(c.store, c.to_send, sender)

update_config(s, sender, duration) == execute_update_config(s, sender, duration)

add_hook_msg(s, sender, addr) == execute_add_hook(s, sender, addr)

remove_hook_msg(s, sender, addr) == execute_remove_hook(s, sender, addr)

\* Mutant: the number is not compared with the size of the collection.
update_active_threshold_unchecked(s, sender, threshold) ==
    Ok(sender = Dao, [s EXCEPT !.threshold = threshold])

update_active_threshold(s, sender, threshold) ==
    execute_update_active_threshold(s, sender, threshold, Count)

query_voting_power_at_height(s, user, height) == may_load_at_height(s.power[user], height)

query_total_power_at_height(s, height) == may_load_at_height(s.total, height)

\* Goes by the stakes when the block began; with none, no percentage is met.
query_is_active(s, height) ==
    LET staked == may_load_at_height(s.total, height) IN
    /\ IsActive(s.threshold, staked, Count)
    /\ (\E t \in s.threshold : t.kind = "percentage") => staked # 0
=============================================================================
