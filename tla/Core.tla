-------------------------------- MODULE Core --------------------------------
(***************************************************************************)
(* The DAO's core contract: contracts/dao-dao-core/src/contract.rs.        *)
(*                                                                         *)
(* A handler of ExecuteMsg is an operator that yields the set of storages  *)
(* it may leave: none when it returns an error, one otherwise (Ok).  The   *)
(* messages it returns are Messages.  A call from outside starts a         *)
(* transaction, or comes from a contract the DAO is calling; a message the *)
(* DAO sends to itself is handled in place.  The core contract never asks  *)
(* for a reply on error, so an error undoes the whole transaction.  (A     *)
(* contract in between that absorbs the error behaves as if it had made no *)
(* call.)                                                                  *)
(***************************************************************************)
EXTENDS CosmWasm

CONSTANTS
    Addr,           \* addresses of accounts and contracts
    Dao,            \* this contract
    Modules,        \* addresses the chain gives to proposal modules
    VotingModules,  \* addresses the chain gives to voting modules
    Cw20s, Cw721s,  \* token contracts
    Keys,           \* keys of items
    Faulty,         \* contracts that may return an error
    Reentrant,      \* contracts that may call the DAO while being called
    MsgLists,       \* message lists the DAO is asked to run
    Admins,         \* admins the DAO may be instantiated with
    Configs,        \* configurations it may be instantiated with
    Calls,          \* calls from outside: pairs of sender and call
    Callbacks,      \* message lists a new module asks the DAO to run
    Letters,        \* letters of a prefix (26)
    MaxHeight,      \* bound: last block
    LastCall,       \* bound: last block with transactions
    MaxInitial,     \* bound: proposal modules at instantiation
    MaxDepth        \* bound: depth of nested calls

VARIABLES store, height, stack

vars == <<store, height, stack>>

NoAddr == "none"
Peer == Addr \ {Dao}

ASSUME AddrAssumption ==
    /\ Dao \in Addr /\ NoAddr \notin Addr
    /\ Modules \subseteq Peer /\ IsFiniteSet(Modules)
    /\ VotingModules \subseteq Peer /\ Modules \cap VotingModules = {}
    /\ Cw20s \subseteq Peer /\ Cw721s \subseteq Peer
    /\ Admins \subseteq Addr /\ Faulty \subseteq Peer /\ Reentrant \subseteq Peer

ASSUME BoundAssumption ==
    /\ Letters \in Nat \ {0, 1} /\ MaxHeight \in Nat /\ LastCall \in Nat
    /\ MaxInitial \in Nat \ {0} /\ MaxDepth \in Nat

----------------------------------------------------------------------------
(* Types *)

\* struct Config: the fields the handlers read
Config == [automatically_add_cw20s : BOOLEAN, automatically_add_cw721s : BOOLEAN]

\* struct ProposalModule, with prefixes from a set; status "absent" stands for
\* no entry in the map.
ProposalModule(Letterings) ==
    [status : {"absent", "enabled", "disabled"}, prefix : Letterings]

Absent == [status |-> "absent", prefix |-> <<>>]

\* enum ExecuteMsg.  to_add of UpdateProposalModules is the number of modules
\* to instantiate.
ExecuteMsg ==
         [kind : {"unpause", "receive", "receive_nft", "update_voting_module",
                  "accept_admin_nomination", "withdraw_admin_nomination"}]
    \cup [kind : {"execute_admin_msgs", "execute_proposal_hook"}, msgs : MsgLists]
    \cup [kind : {"pause"}, duration : Nat]
    \cup [kind : {"nominate_admin"}, admin : Addr \cup {NoAddr}]
    \cup [kind : {"set_item", "remove_item"}, key : Keys]
    \cup [kind : {"update_config"}, config : Config]
    \cup [kind : {"update_cw20_list", "update_cw721_list", "update_sub_daos"},
          to_add : SUBSET Addr, to_remove : SUBSET Addr]
    \cup [kind : {"update_proposal_modules"}, to_add : Nat, to_disable : Seq(Modules)]

\* What a message asks of its target.  A new voting or proposal module has no
\* address yet: its message goes to NoAddr.
Body == [kind : {"tx", "external", "instantiate"}] \cup ExecuteMsg

SubMsg == [to : Addr \cup {NoAddr}, body : Body,
           reply_on : {"never", "success"}, reply_id : 0 .. 2]

\* A list the DAO is asked to run: calls of itself and messages to others.
DaoMsgs == {m \in SubMsg : /\ m.reply_on = "never"
                           /\ \/ m.to = Dao /\ m.body \in ExecuteMsg
                              \/ m.to \in Peer /\ m.body.kind = "external"}

ASSUME MsgAssumption ==
    /\ MsgLists \subseteq Seq(DaoMsgs) /\ Callbacks \subseteq Seq(DaoMsgs)
    /\ Calls \subseteq Peer \X ExecuteMsg /\ Configs \subseteq Config

\* The storage, and the ghost nominator: who made the pending nomination.
StoreWith(Letterings) ==
    [admin : Addr, nominated_admin : Addr \cup {NoAddr}, nominator : Addr \cup {NoAddr},
     config : Config, paused : Nat, voting_module : Addr \cup {NoAddr},
     proposal_modules : [Modules -> ProposalModule(Letterings)],
     active_proposal_module_count : Nat, total_proposal_module_count : Nat,
     items : SUBSET Keys, cw20_list : SUBSET Addr, cw721_list : SUBSET Addr,
     subdao_list : SUBSET Addr]

Store == StoreWith(Seq(Nat))

\* Mutant: an entry in PAUSED pauses the DAO, whatever its expiration.
Paused_if_set(s) == s.paused # 0

\* The pause is over at its expiration; PAUSED that was never set is 0.
Paused(s) == height < s.paused

Ok(guard, s) == IF guard THEN {s} ELSE {}

Enabled(s) == {m \in Modules : s.proposal_modules[m].status = "enabled"}
Registered(s) == {m \in Modules : s.proposal_modules[m].status # "absent"}

----------------------------------------------------------------------------
(* The prefix of a proposal module: the letters of its number, A to Z, AA to
   ZZ and so on, as derive_proposal_module_prefix computes it. *)

prefix_of[dividend \in Nat] ==
    IF dividend = 0 THEN <<>>
    ELSE LET remainder == (dividend - 1) % Letters
         IN  Append(prefix_of[(dividend - remainder) \div Letters], remainder)

derive_proposal_module_prefix(dividend) == prefix_of[dividend + 1]

----------------------------------------------------------------------------
(* Handlers *)

PROPOSAL_MODULE_REPLY_ID == 0
VOTE_MODULE_INSTANTIATE_REPLY_ID == 1
VOTE_MODULE_UPDATE_REPLY_ID == 2

execute_pause(s, sender, duration) ==
    Ok(sender = Dao, [s EXCEPT !.paused = height + duration])

execute_unpause(s, sender) == Ok(sender = s.admin, [s EXCEPT !.paused = 0])

execute_admin_msgs(s, sender) == Ok(sender = s.admin, s)

\* Mutant: a disabled module may still run messages.
execute_proposal_hook_registered(s, sender) == Ok(sender \in Registered(s), s)

execute_proposal_hook(s, sender) == Ok(sender \in Enabled(s), s)

\* Mutant: a nomination replaces a pending one, and its author may be gone.
execute_nominate_admin_pending(s, sender, nomination) ==
    Ok(sender = s.admin,
       IF nomination = NoAddr
       THEN [s EXCEPT !.admin = Dao]
       ELSE [s EXCEPT !.nominated_admin = nomination, !.nominator = sender])

\* Naming nobody makes the contract its own admin.
execute_nominate_admin(s, sender, nomination) ==
    Ok(sender = s.admin /\ s.nominated_admin = NoAddr,
       IF nomination = NoAddr
       THEN [s EXCEPT !.admin = Dao]
       ELSE [s EXCEPT !.nominated_admin = nomination, !.nominator = sender])

execute_accept_admin_nomination(s, sender) ==
    Ok(sender = s.nominated_admin,
       [s EXCEPT !.nominated_admin = NoAddr, !.nominator = NoAddr, !.admin = sender])

execute_withdraw_admin_nomination(s, sender) ==
    Ok(sender = s.admin /\ s.nominated_admin # NoAddr,
       [s EXCEPT !.nominated_admin = NoAddr, !.nominator = NoAddr])

execute_update_config(s, sender, config) == Ok(sender = Dao, [s EXCEPT !.config = config])

execute_update_voting_module(s, sender) == Ok(sender = Dao, s)

\* Mutant: the last module may go although none is added.
execute_update_proposal_modules_last(s, sender, to_add, to_disable) ==
    Ok(/\ sender = Dao
       /\ Range(to_disable) \subseteq Enabled(s) /\ IsInjective(to_disable)
       /\ s.active_proposal_module_count >= Len(to_disable),
       [s EXCEPT !.proposal_modules =
            [m \in Modules |-> IF m \in Range(to_disable)
                               THEN [@[m] EXCEPT !.status = "disabled"] ELSE @[m]],
                 !.active_proposal_module_count = @ - Len(to_disable)])

\* Mutant: modules that are disabled already, or listed twice, are not refused.
execute_update_proposal_modules_unchecked(s, sender, to_add, to_disable) ==
    Ok(/\ sender = Dao
       /\ Range(to_disable) \subseteq Registered(s)
       /\ s.active_proposal_module_count > Len(to_disable) \/ to_add > 0,
       [s EXCEPT !.proposal_modules =
            [m \in Modules |-> IF m \in Range(to_disable)
                               THEN [@[m] EXCEPT !.status = "disabled"] ELSE @[m]],
                 !.active_proposal_module_count = @ - Len(to_disable)])

\* Mutant: disabled modules are deleted.
execute_update_proposal_modules_delete(s, sender, to_add, to_disable) ==
    Ok(/\ sender = Dao
       /\ Range(to_disable) \subseteq Enabled(s) /\ IsInjective(to_disable)
       /\ s.active_proposal_module_count > Len(to_disable) \/ to_add > 0,
       [s EXCEPT !.proposal_modules =
            [m \in Modules |-> IF m \in Range(to_disable) THEN Absent ELSE @[m]],
                 !.active_proposal_module_count = @ - Len(to_disable)])

\* Every module to disable must be enabled when its turn comes, so none may be
\* listed twice; the last module may only go if others are added.
execute_update_proposal_modules(s, sender, to_add, to_disable) ==
    Ok(/\ sender = Dao
       /\ Range(to_disable) \subseteq Enabled(s) /\ IsInjective(to_disable)
       /\ s.active_proposal_module_count > Len(to_disable) \/ to_add > 0,
       [s EXCEPT !.proposal_modules =
            [m \in Modules |-> IF m \in Range(to_disable)
                               THEN [@[m] EXCEPT !.status = "disabled"] ELSE @[m]],
                 !.active_proposal_module_count = @ - Len(to_disable)])

\* do_update_addr_list: additions first, so what is in both lists is removed.
do_update_addr_list(list, to_add, to_remove) == (list \cup to_add) \ to_remove

\* What is added must answer a token's query.
execute_update_cw20_list(s, sender, to_add, to_remove) ==
    Ok(sender = Dao /\ to_add \subseteq Cw20s,
       [s EXCEPT !.cw20_list = do_update_addr_list(@, to_add, to_remove)])

execute_update_cw721_list(s, sender, to_add, to_remove) ==
    Ok(sender = Dao /\ to_add \subseteq Cw721s,
       [s EXCEPT !.cw721_list = do_update_addr_list(@, to_add, to_remove)])

execute_set_item(s, sender, key) == Ok(sender = Dao, [s EXCEPT !.items = @ \cup {key}])

execute_remove_item(s, sender, key) ==
    Ok(sender = Dao /\ key \in s.items, [s EXCEPT !.items = @ \ {key}])

\* Here removals come first.
execute_update_sub_daos_list(s, sender, to_add, to_remove) ==
    Ok(sender = Dao, [s EXCEPT !.subdao_list = (@ \ to_remove) \cup to_add])

execute_receive_cw20(s, sender) ==
    Ok(TRUE, IF s.config.automatically_add_cw20s
             THEN [s EXCEPT !.cw20_list = @ \cup {sender}] ELSE s)

execute_receive_cw721(s, sender) ==
    Ok(TRUE, IF s.config.automatically_add_cw721s
             THEN [s EXCEPT !.cw721_list = @ \cup {sender}] ELSE s)

\* Mutant: receiving tokens is let through while the DAO is paused.
gate_open_for_tokens(s, sender, c) ==
    Paused(s) => sender \in {Dao, s.admin} \/ c.kind \in {"receive", "receive_nft"}

\* While the DAO is paused it only listens to itself and its admin.
gate(s, sender, c) == Paused(s) => sender \in {Dao, s.admin}

execute(s, sender, c) ==
    IF ~gate(s, sender, c) THEN {}
    ELSE CASE c.kind = "execute_admin_msgs" -> execute_admin_msgs(s, sender)
           [] c.kind = "execute_proposal_hook" -> execute_proposal_hook(s, sender)
           [] c.kind = "pause" -> execute_pause(s, sender, c.duration)
           [] c.kind = "unpause" -> execute_unpause(s, sender)
           [] c.kind = "receive" -> execute_receive_cw20(s, sender)
           [] c.kind = "receive_nft" -> execute_receive_cw721(s, sender)
           [] c.kind = "remove_item" -> execute_remove_item(s, sender, c.key)
           [] c.kind = "set_item" -> execute_set_item(s, sender, c.key)
           [] c.kind = "update_config" -> execute_update_config(s, sender, c.config)
           [] c.kind = "update_cw20_list" ->
                  execute_update_cw20_list(s, sender, c.to_add, c.to_remove)
           [] c.kind = "update_cw721_list" ->
                  execute_update_cw721_list(s, sender, c.to_add, c.to_remove)
           [] c.kind = "update_voting_module" -> execute_update_voting_module(s, sender)
           [] c.kind = "update_proposal_modules" ->
                  execute_update_proposal_modules(s, sender, c.to_add, c.to_disable)
           [] c.kind = "nominate_admin" -> execute_nominate_admin(s, sender, c.admin)
           [] c.kind = "accept_admin_nomination" -> execute_accept_admin_nomination(s, sender)
           [] c.kind = "withdraw_admin_nomination" ->
                  execute_withdraw_admin_nomination(s, sender)
           [] c.kind = "update_sub_daos" ->
                  execute_update_sub_daos_list(s, sender, c.to_add, c.to_remove)

\* ModuleInstantiateInfo::into_wasm_msg with a reply on success.
InstantiateMsg(reply_id) == MsgReplyOnSuccess(NoAddr, [kind |-> "instantiate"], reply_id)

\* The messages a call's handler returns.
Messages(c) ==
    CASE c.kind \in {"execute_admin_msgs", "execute_proposal_hook"} -> c.msgs
      [] c.kind = "update_voting_module" -> <<InstantiateMsg(VOTE_MODULE_UPDATE_REPLY_ID)>>
      [] c.kind = "update_proposal_modules" ->
             [i \in 1 .. c.to_add |-> InstantiateMsg(PROPOSAL_MODULE_REPLY_ID)]
      [] OTHER -> <<>>

----------------------------------------------------------------------------
(* The reply entry point, for the instantiated module addr *)

\* Mutant: the prefix is derived from the number of active modules.
reply_proposal_module_active(s, addr) ==
    [s EXCEPT !.proposal_modules[addr] =
                  [status |-> "enabled",
                   prefix |-> derive_proposal_module_prefix(s.active_proposal_module_count)],
              !.active_proposal_module_count = @ + 1,
              !.total_proposal_module_count = @ + 1]

reply_proposal_module(s, addr) ==
    [s EXCEPT !.proposal_modules[addr] =
                  [status |-> "enabled",
                   prefix |-> derive_proposal_module_prefix(s.total_proposal_module_count)],
              !.active_proposal_module_count = @ + 1,
              !.total_proposal_module_count = @ + 1]

\* The first voting module must be the only one; an update replaces it.
reply(s, reply_id, addr) ==
    CASE reply_id = PROPOSAL_MODULE_REPLY_ID -> Ok(TRUE, reply_proposal_module(s, addr))
      [] reply_id = VOTE_MODULE_INSTANTIATE_REPLY_ID ->
             Ok(s.voting_module = NoAddr, [s EXCEPT !.voting_module = addr])
      [] reply_id = VOTE_MODULE_UPDATE_REPLY_ID -> Ok(TRUE, [s EXCEPT !.voting_module = addr])

\* A new module may ask for messages in the data of its instantiation; an
\* updated voting module is not asked.
CallbackLists(reply_id) ==
    IF reply_id = VOTE_MODULE_UPDATE_REPLY_ID THEN {<<>>} ELSE {<<>>} \cup Callbacks

----------------------------------------------------------------------------
(* Running a transaction *)

Running == stack # <<>>
Top == Last(stack)
NextMsg == Head(Top.pending)

\* The instantiation of the DAO itself; if it fails there is no DAO.
Instantiating == Running /\ stack[1].to = Dao

\* An error undoes the transaction.
Abort ==
    /\ ~Instantiating
    /\ store' = stack[1].saved
    /\ stack' = <<>>
    /\ UNCHANGED height

Begin(sender) ==
    \/ stack = <<>> /\ height <= LastCall
    \/ /\ Running
       /\ Len(stack) < MaxDepth
       /\ Top.to = sender
       /\ sender \in Reentrant
       /\ ~Top.called

Respond(sender, msgs) ==
    stack' = IF stack = <<>>
             THEN <<Frame(Msg(sender, [kind |-> "tx"]), store, msgs, TRUE)>>
             ELSE [stack EXCEPT ![Len(stack)].pending = msgs,
                                ![Len(stack)].called = TRUE]

\* A call from outside that returns no error.
Call(sender, c) ==
    /\ Begin(sender)
    /\ store' \in execute(store, sender, c)
    /\ Respond(sender, Messages(c))
    /\ UNCHANGED height

\* The DAO's message to itself.
DispatchSelf ==
    /\ Running
    /\ Top.pending # <<>>
    /\ NextMsg.to = Dao
    /\ \/ /\ store' \in execute(store, Dao, NextMsg.body)
          /\ stack' = [stack EXCEPT ![Len(stack)].pending =
                                        Messages(NextMsg.body) \o Tail(@)]
          /\ UNCHANGED height
       \/ /\ execute(store, Dao, NextMsg.body) = {}
          /\ Abort

\* The DAO's message to another contract.
Dispatch ==
    /\ Running
    /\ Top.pending # <<>>
    /\ NextMsg.to \in Peer
    /\ stack' = Append(Advance(stack), Frame(NextMsg, store, <<>>, FALSE))
    /\ UNCHANGED <<store, height>>

\* The chain's addresses for new contracts have not been used.
FreshAddr(reply_id) ==
    LET used == {stack[k].to : k \in DOMAIN stack} IN
    IF reply_id = PROPOSAL_MODULE_REPLY_ID
    THEN Modules \ (Registered(store) \cup used)
    ELSE VotingModules \ ({store.voting_module} \cup used)

\* The DAO instantiates a module.
Instantiate ==
    /\ Running
    /\ Top.pending # <<>>
    /\ NextMsg.to = NoAddr
    /\ \E addr \in FreshAddr(NextMsg.reply_id) :
           stack' = Append(Advance(stack),
                           Frame([NextMsg EXCEPT !.to = addr], store, <<>>, FALSE))
    /\ UNCHANGED <<store, height>>

\* The topmost call ends well.  After a reply, its messages are the next.
Return ==
    /\ Running
    /\ Top.pending = <<>>
    /\ IF Top.reply_on = "success"
       THEN /\ store' \in reply(store, Top.reply_id, Top.to)
            /\ \E msgs \in CallbackLists(Top.reply_id) :
                   stack' = [Front(stack) EXCEPT ![Len(stack) - 1].pending = msgs \o @]
       ELSE /\ stack' = Front(stack)
            /\ UNCHANGED store
    /\ UNCHANGED height

\* The topmost call, to another contract, returns an error.
Raise ==
    /\ Running
    /\ Top.body.kind # "tx"
    /\ Top.to \in Faulty
    /\ Abort

Tick ==
    /\ stack = <<>>
    /\ height < MaxHeight
    /\ height' = height + 1
    /\ UNCHANGED <<store, stack>>

----------------------------------------------------------------------------
\* instantiate: the first messages instantiate the modules.
Init ==
    /\ height = 0
    /\ \E admin \in Admins, config \in Configs, items \in SUBSET Keys, n \in 1 .. MaxInitial :
           /\ store = [admin |-> admin, nominated_admin |-> NoAddr, nominator |-> NoAddr,
                       config |-> config, paused |-> 0, voting_module |-> NoAddr,
                       proposal_modules |-> [m \in Modules |-> Absent],
                       active_proposal_module_count |-> 0,
                       total_proposal_module_count |-> 0,
                       items |-> items, cw20_list |-> {}, cw721_list |-> {},
                       subdao_list |-> {}]
           /\ stack = <<Frame(Msg(Dao, [kind |-> "tx"]), store,
                              <<InstantiateMsg(VOTE_MODULE_INSTANTIATE_REPLY_ID)>>
                              \o [i \in 1 .. n |-> InstantiateMsg(PROPOSAL_MODULE_REPLY_ID)],
                              TRUE)>>

TransactionStep == DispatchSelf \/ Dispatch \/ Instantiate \/ Return \/ Raise

Next ==
    \/ \E call \in Calls : Call(call[1], call[2])
    \/ TransactionStep
    \/ Tick

Spec == Init /\ [][Next]_vars

\* The chain finishes what it starts, and blocks keep coming however many
\* transactions there are.
FairSpec == Spec /\ WF_vars(TransactionStep) /\ SF_vars(Tick)

----------------------------------------------------------------------------
(* Properties *)

FrameType ==
    [to : Addr, body : Body, reply_on : {"never", "success"}, reply_id : 0 .. 2,
     saved : Store, pending : Seq(SubMsg), called : BOOLEAN]

\* Every variable has its type.  The counts are natural numbers: the
\* subtraction in execute_update_proposal_modules never underflows.
TypeOK ==
    /\ store \in Store
    /\ height \in 0 .. MaxHeight
    /\ stack \in Seq(FrameType)

\* The counts kept beside PROPOSAL_MODULES are the numbers of enabled and of all
\* modules, also while modules are being replaced, in nested calls and after a
\* transaction was undone.
CountsMatch ==
    /\ store.active_proposal_module_count = Cardinality(Enabled(store))
    /\ store.total_proposal_module_count = Cardinality(Registered(store))

\* Between transactions some proposal module is enabled: the DAO can always be
\* governed, although execute_update_proposal_modules counts on modules that are
\* yet to be instantiated.
NeverLockedOut == stack = <<>> => Enabled(store) # {}

\* No two proposal modules, not even disabled ones, share a prefix, so a
\* proposal is identified by prefix and number.
PrefixesDistinct ==
    \A m, n \in Registered(store) :
        m # n => store.proposal_modules[m].prefix # store.proposal_modules[n].prefix

\* A pending nomination was made by whoever is admin now: a former admin leaves
\* no nomination behind that would hand the DAO over later.
NominationIsAdmins ==
    store.nominated_admin # NoAddr => store.nominator = store.admin

\* A paused DAO that is its own admin is frozen: nobody, the contracts it trusts
\* and its token contracts included, changes anything before the pause is over.
FrozenWhilePaused ==
    [][(stack = <<>> /\ Paused(store) /\ store.admin = Dao) => UNCHANGED store]_vars

\* A pause ends, also if there is no admin to lift it: then an enabled proposal
\* module is heard again.
GovernanceResumes ==
    (stack = <<>> /\ Paused(store) /\ store.admin = Dao)
        ~> \E m \in Modules :
               execute(store, m, [kind |-> "execute_proposal_hook", msgs |-> <<>>]) # {}

\* Who may govern, and what only they may change.
Governing(s) == Enabled(s) \cup {s.admin}
Settings(s) == <<s.config, s.paused, s.voting_module, s.proposal_modules, s.items,
                 s.subdao_list>>

\* A transaction changes the DAO's settings only if it was started by someone
\* who was the admin or an enabled module at that time, whatever the contracts
\* it calls, a new admin among them, do in between.
GovernedChange ==
    [][(/\ Running /\ ~Instantiating /\ stack' = <<>>
        /\ Settings(store') # Settings(stack[1].saved))
           => stack[1].to \in Governing(stack[1].saved)]_vars

\* The storage as of the last committed transaction.
Committed == IF stack = <<>> THEN store ELSE stack[1].saved

\* A proposal module that was disabled is never enabled again and no module is
\* forgotten.
DisabledForGood ==
    [][\A m \in Modules :
           LET now == Committed.proposal_modules[m].status
               next == Committed'.proposal_modules[m].status
           IN  /\ now = "disabled" => next = "disabled"
               /\ now = "enabled" => next # "absent"]_vars
=============================================================================
