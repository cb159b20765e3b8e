----------------------------- MODULE OnftStaked -----------------------------
(***************************************************************************)
(* dao-voting-onft-staked: NFTs of the chain's own module are staked.  The *)
(* module calls no contract, so that an owner prepares a stake, transfers  *)
(* the NFTs and confirms, in transactions of their own.                    *)
(***************************************************************************)
EXTENDS StakingBase

Count == Cardinality(Nfts)

\* The message that an NFT held by the contract goes to its receiver in to.
Sent(s, to) ==
    Ok(\A n \in DOMAIN to : s.owner[n] = Self,
       [s EXCEPT !.owner = [n \in Nfts |-> IF n \in DOMAIN to THEN to[n] ELSE @[n]]])

----------------------------------------------------------------------------
(* state.rs *)

\* Counts the ids of the list, however often one occurs in it.
register_staked_nfts(s, height, staker, ids) ==
    SetPower([s EXCEPT !.staked = @ \cup ({staker} \X Range(ids))], height, staker,
             s.power[staker].now + Len(ids), s.total.now + Len(ids))

register_unstaked_nfts(s, height, staker, ids) ==
    Ok(/\ \A id \in Range(ids) : <<staker, id>> \in s.staked
       /\ IsInjective(ids)
       /\ Len(ids) <= s.power[staker].now /\ Len(ids) <= s.total.now,
       SetPower([s EXCEPT !.staked = @ \ ({staker} \X Range(ids))], height, staker,
                s.power[staker].now - Len(ids), s.total.now - Len(ids)))

----------------------------------------------------------------------------
(* contract.rs *)

instantiate(msg, owner) ==
    Ok(validate_duration(msg.duration) /\ ValidThreshold(msg.threshold, Count),
       NewStore("onft", msg, [h \in Holders |-> 0], owner))

execute_prepare_stake(s, sender, ids) ==
    Ok(\A n \in Range(ids) : s.owner[n] = sender,
       [s EXCEPT !.prepared = [n \in Nfts |-> IF n \in Range(ids) THEN sender ELSE @[n]]])

\* Mutant: who owns the NFTs is not looked at again.
execute_confirm_stake_unowned(s, height, sender, ids) ==
    Ok(\A n \in Range(ids) : s.prepared[n] = sender,
       stake_hook_msgs(
           register_staked_nfts(
               [s EXCEPT !.prepared = [n \in Nfts |-> IF n \in Range(ids) THEN NoOne ELSE @[n]]],
               height, sender, ids),
           sender, Len(ids)))

execute_confirm_stake(s, height, sender, ids) ==
    Ok(\A n \in Range(ids) : s.prepared[n] = sender /\ s.owner[n] = Self,
       stake_hook_msgs(
           register_staked_nfts(
               [s EXCEPT !.prepared = [n \in Nfts |-> IF n \in Range(ids) THEN NoOne ELSE @[n]]],
               height, sender, ids),
           sender, Len(ids)))

\* The DAO sends NFTs to a recipient, or back to who prepared them; others cancel
\* what they prepared or what they own.  An NFT cannot be sent twice.
execute_cancel_stake(s, sender, ids, recipient) ==
    LET held == {n \in Range(ids) : s.owner[n] = Self}
        To(n) == IF sender = Dao /\ recipient # {} THEN CHOOSE r \in recipient : TRUE
                 ELSE s.prepared[n]
    IN  UNION {Ok(/\ \A n \in held : To(n) # NoOne
                  /\ sender # Dao => \A n \in Range(ids) : sender \in {s.owner[n], s.prepared[n]}
                  /\ \A i, j \in DOMAIN ids : i # j /\ ids[i] = ids[j] => ids[i] \notin held,
                  [r EXCEPT !.prepared = [n \in Nfts |-> IF n \in Range(ids) THEN NoOne ELSE @[n]],
                            !.recalled = IF sender = Dao THEN @ \cup held ELSE @]) :
               r \in Sent(s, [n \in held |-> To(n)])}

execute_unstake(s, height, sender, ids) ==
    IF ids = <<>> THEN {}
    ELSE {unstake_hook_msgs(r, sender, Len(ids)) :
              r \in UNION {IF s.duration = {} THEN Sent(u, [n \in Range(ids) |-> sender])
                           ELSE Ok(Len(s.claims[sender]) + Len(ids) <= MaxClaims,
                                   [u EXCEPT !.claims[sender] =
                                        @ \o [i \in DOMAIN ids |->
                                                 Claim(ids[i], ReleaseAt(s, height))]]) :
                           u \in register_unstaked_nfts(s, height, sender, ids)}}

\* A mature claim on an NFT that is not there any more blocks the others.
execute_claim_nfts(s, height, sender) ==
    LET mature == Mature(s.claims[sender], height) IN
    IF mature = <<>> \/ ~IsInjective([i \in DOMAIN mature |-> mature[i].what]) THEN {}
    ELSE Sent([s EXCEPT !.claims[sender] = Waiting(@, height)],
              [n \in {mature[i].what : i \in DOMAIN mature} |-> sender])

update_config(s, sender, duration) == execute_update_config(s, sender, duration)

add_hook_msg(s, sender, addr) == execute_add_hook(s, sender, addr)

remove_hook_msg(s, sender, addr) == execute_remove_hook(s, sender, addr)

update_active_threshold(s, sender, threshold) ==
    execute_update_active_threshold(s, sender, threshold, Count)

query_voting_power_at_height(s, user, height) == may_load_at_height(s.power[user], height)

query_total_power_at_height(s, height) == may_load_at_height(s.total, height)

query_is_active(s, height) ==
    LET staked == may_load_at_height(s.total, height) IN
    /\ IsActive(s.threshold, staked, Count)
    /\ (\E t \in s.threshold : t.kind = "percentage") => staked # 0
=============================================================================
