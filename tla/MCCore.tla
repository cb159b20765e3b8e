------------------------------- MODULE MCCore -------------------------------
(***************************************************************************)
(* A small DAO for Core: alice may be its admin, sam is a contract that    *)
(* calls back, coin and nft are tokens; the chain has addresses for three  *)
(* proposal modules and two voting modules.                                *)
(***************************************************************************)
EXTENDS Core

CONSTANTS dao, alice, sam, coin, nft, p1, p2, p3, v1, v2

Self(c) == Msg(Dao, c)
External(a) == Msg(a, [kind |-> "external"])

Replace(n, disable) ==
    [kind |-> "update_proposal_modules", to_add |-> n, to_disable |-> disable]
Nominate(a) == [kind |-> "nominate_admin", admin |-> a]
Lists(kind, add, remove) == [kind |-> kind, to_add |-> add, to_remove |-> remove]
Simple(kind) == [kind |-> kind]

----------------------------------------------------------------------------
\* Proposal modules come and go, the DAO pauses, and the rest of what it can
\* tell itself; settings that no guard reads are changed together.
MCSettings ==
    <<Self([kind |-> "set_item", key |-> "k"]), Self(Lists("update_sub_daos", {sam}, {sam})),
      Self(Simple("update_voting_module")), External(sam)>>

MCMsgLists ==
    {<<Self(Replace(0, <<p1>>))>>,
     <<Self(Replace(1, <<p1>>))>>,
     <<Self(Replace(1, <<p1, p2>>)), External(sam)>>,
     <<Self(Replace(0, <<p2, p2>>))>>,
     <<Self([kind |-> "pause", duration |-> 1]), External(sam)>>,
     <<Self(Simple("unpause")), External(sam)>>,
     MCSettings,
     <<Self([kind |-> "remove_item", key |-> "k"]),
       Self(Lists("update_cw20_list", {coin}, {})),
       Self(Lists("update_cw721_list", {nft}, {nft})),
       Self([kind |-> "update_config",
             config |-> [automatically_add_cw20s |-> FALSE, automatically_add_cw721s |-> TRUE]])>>,
     <<Self(Nominate(alice))>>, <<Self(Nominate(NoAddr))>>,
     <<Self(Simple("withdraw_admin_nomination"))>>}

\* What a receiver has the DAO's modules run when it calls back.
MCCallbacks == {<<Self(Replace(0, <<p1>>))>>, <<Self([kind |-> "set_item", key |-> "k"])>>}

\* Modules run lists as proposals, alice as the admin.
MCCalls ==
    (Modules \X [kind : {"execute_proposal_hook"}, msgs : MCMsgLists])
    \cup ({alice} \X [kind : {"execute_admin_msgs"}, msgs : MCMsgLists])
    \cup {<<coin, Simple("receive")>>, <<nft, Simple("receive_nft")>>,
          <<alice, Simple("unpause")>>,
          <<alice, Nominate(NoAddr)>>, <<alice, Nominate(sam)>>,
          <<alice, Simple("withdraw_admin_nomination")>>,
          <<sam, Simple("accept_admin_nomination")>>,
          <<alice, Simple("accept_admin_nomination")>>,
          <<sam, [kind |-> "execute_admin_msgs", msgs |-> MCSettings]>>}

MCAdmins == {dao, alice}
MCConfigs == {[automatically_add_cw20s |-> TRUE, automatically_add_cw721s |-> FALSE]}
=============================================================================
