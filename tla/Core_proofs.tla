----------------------------- MODULE Core_proofs -----------------------------
(***************************************************************************)
(* Theorems about Core, for every set of accounts, modules and messages    *)
(* and every bound.                                                        *)
(*                                                                         *)
(* The invariants are not inductive.  The counts are right after a module  *)
(* is registered only because its address is new; the DAO is not locked    *)
(* out when the last module was disabled only because a module is still to *)
(* be instantiated in the same transaction; and what a failing transaction *)
(* goes back to must satisfy them too.  IInv says this of the storage, of  *)
(* the storages that calls have saved and of the messages that are         *)
(* pending.  The action properties compare what is committed with what was *)
(* committed before: LaterInv and OthersInv say what is known of a running *)
(* transaction from the storage it started with.                           *)
(*                                                                         *)
(* IInv lets a prefix be any value of derive_proposal_module_prefix.  What *)
(* that computes is shown with least counterexamples: its recursion ends,  *)
(* since a number has at least two letters to be written with, and         *)
(* different numbers have different prefixes.                              *)
(***************************************************************************)
EXTENDS Core, SumTheorems, FiniteSetTheorems, TLAPS

Letterings == {<<>>} \cup {derive_proposal_module_prefix(n) : n \in Nat}

\* The parts of the invariants that are about one storage.
CountsMatchIn(s) ==
    /\ s.active_proposal_module_count = Cardinality(Enabled(s))
    /\ s.total_proposal_module_count = Cardinality(Registered(s))

NominationIsAdminsIn(s) == s.nominated_admin # NoAddr => s.nominator = s.admin

StoreInv(s) ==
    /\ s \in StoreWith(Letterings)
    /\ CountsMatchIn(s)
    /\ NominationIsAdminsIn(s)

\* A message that registers a proposal module when it succeeds.
Registers(m) == m.reply_on = "success" /\ m.reply_id = PROPOSAL_MODULE_REPLY_ID

\* What the DAO sends: calls of itself, messages to others, instantiations.
MsgInv(m) ==
    /\ m \in SubMsg
    /\ m.to = Dao => m.body \in ExecuteMsg
    /\ m.to = NoAddr => m.reply_on = "success"
    /\ m.reply_on = "success" => m.to = NoAddr

Promise(msgs) == \E i \in DOMAIN msgs : Registers(msgs[i])

\* A list of messages to send.
MsgsInv(msgs) == msgs \in Seq(SubMsg) /\ \A i \in DOMAIN msgs : MsgInv(msgs[i])

FrameShape ==
    [to : Addr, body : Body, reply_on : {"never", "success"}, reply_id : 0 .. 2,
     saved : StoreWith(Letterings), pending : Seq(SubMsg), called : BOOLEAN]

\* A running call.  A contract that may still call the DAO has nothing pending.
FrameInv(f) ==
    /\ f \in FrameShape
    /\ StoreInv(f.saved)
    /\ MsgsInv(f.pending)
    /\ ~f.called => f.pending = <<>>

\* Only the topmost call may not have called the DAO yet.
StackInv(st) ==
    /\ st \in Seq(FrameShape)
    /\ \A k \in DOMAIN st : FrameInv(st[k])
    /\ \A k \in DOMAIN st : k # Len(st) => st[k].called

\* Modules that are being instantiated are new, and differ from each other.
NewModules(st, s) ==
    \A k \in DOMAIN st : Registers(st[k]) =>
        /\ st[k].to \in Modules \ Registered(s)
        /\ \A l \in DOMAIN st : Registers(st[l]) /\ l # k => st[l].to # st[k].to

\* What the transaction goes back to if it fails; the instantiation of the DAO
\* does not go back.
RootInv(st) ==
    st # <<>> => /\ st[1].reply_on = "never"
                 /\ st[1].to # Dao => Enabled(st[1].saved) # {}

\* Some module is enabled, being instantiated or going to be.
Promised(st, s) ==
    \/ Enabled(s) # {}
    \/ \E k \in DOMAIN st : Registers(st[k]) \/ Promise(st[k].pending)

IInv ==
    /\ height \in Nat
    /\ StoreInv(store)
    /\ StackInv(stack)
    /\ NewModules(stack, store)
    /\ RootInv(stack)
    /\ Promised(stack, store)

----------------------------------------------------------------------------
(* Counting modules *)

\* There are finitely many modules.
LEMMA ModulesFinite ==
    ASSUME NEW s
    PROVE  IsFiniteSet(Enabled(s)) /\ IsFiniteSet(Registered(s))
  <1>1. Enabled(s) \in SUBSET Modules /\ Registered(s) \in SUBSET Modules
    BY DEF Enabled, Registered
  <1> QED BY <1>1, AddrAssumption, FS_Subset DEF AddrAssumption

\* A sequence without repetitions has as many members as elements.
LEMMA RangeCount ==
    ASSUME NEW S, NEW q \in Seq(S), IsInjective(q)
    PROVE  IsFiniteSet(Range(q)) /\ Cardinality(Range(q)) = Len(q)
  <1>1. Len(q) \in Nat /\ DOMAIN q = 1 .. Len(q)
    OBVIOUS
  <1>2. q \in [1 .. Len(q) -> Range(q)]
    BY <1>1 DEF Range
  <1>3. q \in Injection(1 .. Len(q), Range(q))
    BY <1>2 DEF Injection
  <1>4. q \in Surjection(1 .. Len(q), Range(q))
    BY <1>1, <1>2 DEF Surjection, Range
  <1>5. ExistsBijection(1 .. Len(q), Range(q))
    BY <1>3, <1>4 DEF ExistsBijection, Bijection
  <1>6. IsFiniteSet(1 .. Len(q)) /\ Cardinality(1 .. Len(q)) = Len(q)
    BY <1>1, FS_Interval
  <1> QED BY <1>5, <1>6, FS_Bijection

\* A set that loses a subset.
LEMMA CountDifference ==
    ASSUME NEW S, NEW D, IsFiniteSet(S), D \subseteq S
    PROVE  Cardinality(S \ D) = Cardinality(S) - Cardinality(D)
  <1>1. S \cap D = D
    OBVIOUS
  <1> QED BY <1>1, FS_Difference

\* Storages with the same modules and counts.
LEMMA SameModules ==
    ASSUME NEW s, NEW t,
           t.proposal_modules = s.proposal_modules,
           t.active_proposal_module_count = s.active_proposal_module_count,
           t.total_proposal_module_count = s.total_proposal_module_count
    PROVE  /\ Enabled(t) = Enabled(s) /\ Registered(t) = Registered(s)
           /\ CountsMatchIn(s) => CountsMatchIn(t)
  BY DEF Enabled, Registered, CountsMatchIn

----------------------------------------------------------------------------
(* Handlers *)

\* What a handler does to a storage that satisfies the invariant.
HandlerOK(s, t) ==
    /\ StoreInv(t)
    /\ Registered(t) = Registered(s)

\* The handlers that leave the modules alone.
LEMMA OtherFields ==
    ASSUME NEW s, StoreInv(s), NEW t, t \in StoreWith(Letterings),
           t.proposal_modules = s.proposal_modules,
           t.active_proposal_module_count = s.active_proposal_module_count,
           t.total_proposal_module_count = s.total_proposal_module_count,
           NominationIsAdminsIn(t)
    PROVE  HandlerOK(s, t) /\ Enabled(t) = Enabled(s)
  BY SameModules DEF StoreInv, HandlerOK

\* The handlers of the admin and of nominations.
LEMMA AdminHandlers ==
    ASSUME NEW s, StoreInv(s), NEW sender \in Addr, NEW nomination \in Addr \cup {NoAddr}, NEW t,
           \/ t \in execute_nominate_admin(s, sender, nomination)
           \/ t \in execute_accept_admin_nomination(s, sender)
           \/ t \in execute_withdraw_admin_nomination(s, sender)
    PROVE  HandlerOK(s, t) /\ Enabled(t) = Enabled(s)
  <1>1. /\ t \in StoreWith(Letterings)
        /\ t.proposal_modules = s.proposal_modules
        /\ t.active_proposal_module_count = s.active_proposal_module_count
        /\ t.total_proposal_module_count = s.total_proposal_module_count
        /\ NominationIsAdminsIn(t)
    <2> USE AddrAssumption
        DEF AddrAssumption, StoreInv, StoreWith, NominationIsAdminsIn, Ok
    <2>1. CASE t \in execute_nominate_admin(s, sender, nomination)
      <3>1. /\ sender = s.admin /\ s.nominated_admin = NoAddr
            /\ t = IF nomination = NoAddr
                   THEN [s EXCEPT !.admin = Dao]
                   ELSE [s EXCEPT !.nominated_admin = nomination, !.nominator = sender]
        BY <2>1 DEF execute_nominate_admin
      <3> QED BY <3>1
    <2>2. CASE t \in execute_accept_admin_nomination(s, sender)
      BY <2>2 DEF execute_accept_admin_nomination
    <2>3. CASE t \in execute_withdraw_admin_nomination(s, sender)
      BY <2>3 DEF execute_withdraw_admin_nomination
    <2> QED BY <2>1, <2>2, <2>3
  <1> QED BY <1>1, OtherFields, Zenon

\* The handlers of settings, and the ones that only return messages.
LEMMA SettingHandlers ==
    ASSUME NEW s, StoreInv(s), NEW sender \in Addr, height \in Nat, NEW t,
           \/ \E duration \in Nat : t \in execute_pause(s, sender, duration)
           \/ t \in execute_unpause(s, sender)
           \/ t \in execute_admin_msgs(s, sender)
           \/ t \in execute_proposal_hook(s, sender)
           \/ \E config \in Config : t \in execute_update_config(s, sender, config)
           \/ t \in execute_update_voting_module(s, sender)
           \/ \E to_add, to_remove \in SUBSET Addr :
                  \/ t \in execute_update_cw20_list(s, sender, to_add, to_remove)
                  \/ t \in execute_update_cw721_list(s, sender, to_add, to_remove)
                  \/ t \in execute_update_sub_daos_list(s, sender, to_add, to_remove)
           \/ \E key \in Keys : \/ t \in execute_set_item(s, sender, key)
                                \/ t \in execute_remove_item(s, sender, key)
           \/ t \in execute_receive_cw20(s, sender)
           \/ t \in execute_receive_cw721(s, sender)
    PROVE  HandlerOK(s, t) /\ Enabled(t) = Enabled(s)
  <1>1. /\ t \in StoreWith(Letterings)
        /\ t.proposal_modules = s.proposal_modules
        /\ t.active_proposal_module_count = s.active_proposal_module_count
        /\ t.total_proposal_module_count = s.total_proposal_module_count
        /\ NominationIsAdminsIn(t)
    BY DEF StoreInv, StoreWith, NominationIsAdminsIn, Ok, do_update_addr_list,
       execute_pause, execute_unpause, execute_admin_msgs, execute_proposal_hook,
       execute_update_config, execute_update_voting_module, execute_update_cw20_list,
       execute_update_cw721_list, execute_set_item, execute_remove_item,
       execute_update_sub_daos_list, execute_receive_cw20, execute_receive_cw721
  <1> QED BY <1>1, OtherFields, Zenon

\* Disabling modules lowers the count by as many, and leaves one unless others
\* are added.
LEMMA DisableModules ==
    ASSUME NEW s, StoreInv(s), NEW sender \in Addr,
           NEW to_add \in Nat, NEW to_disable \in Seq(Modules), NEW t,
           t \in execute_update_proposal_modules(s, sender, to_add, to_disable)
    PROVE  HandlerOK(s, t) /\ (Enabled(t) # {} \/ to_add > 0)
  <1> DEFINE D == Range(to_disable)
             mods == [m \in Modules |->
                          IF m \in D THEN [s.proposal_modules[m] EXCEPT !.status = "disabled"]
                          ELSE s.proposal_modules[m]]
             n == s.active_proposal_module_count - Len(to_disable)
  <1>1. /\ D \subseteq Enabled(s) /\ IsInjective(to_disable)
        /\ s.active_proposal_module_count > Len(to_disable) \/ to_add > 0
        /\ t = [s EXCEPT !.proposal_modules = mods, !.active_proposal_module_count = n]
    BY DEF execute_update_proposal_modules, Ok
  <1>2. IsFiniteSet(D) /\ Cardinality(D) = Len(to_disable)
    BY <1>1, RangeCount
  <1>3. IsFiniteSet(Enabled(s)) /\ IsFiniteSet(Registered(s))
    BY ModulesFinite
  <1>4. Cardinality(Enabled(s)) = s.active_proposal_module_count /\ Len(to_disable) \in Nat
    BY DEF StoreInv, CountsMatchIn
  <1>5. /\ s.active_proposal_module_count \in Nat
        /\ s.proposal_modules \in [Modules -> ProposalModule(Letterings)]
    BY DEF StoreInv, StoreWith
  <1>6. mods \in [Modules -> ProposalModule(Letterings)]
    BY <1>5 DEF ProposalModule
  <1>7. /\ \A m \in Modules : mods[m].status =
               IF m \in D THEN "disabled" ELSE s.proposal_modules[m].status
    BY <1>5 DEF ProposalModule
  <1> HIDE DEF D, mods, n
  <1>8. /\ t.proposal_modules = mods /\ t.active_proposal_module_count = n
        /\ t.total_proposal_module_count = s.total_proposal_module_count
        /\ t.nominated_admin = s.nominated_admin /\ t.nominator = s.nominator
        /\ t.admin = s.admin
    BY <1>1 DEF StoreInv, StoreWith
  <1>9. Enabled(t) = Enabled(s) \ D
    BY <1>1, <1>7, <1>8 DEF Enabled
  <1>10. Registered(t) = Registered(s)
    BY <1>1, <1>7, <1>8 DEF Registered, Enabled
  <1>11. Cardinality(Enabled(t)) = Cardinality(Enabled(s)) - Cardinality(D)
    BY <1>1, <1>2, <1>3, <1>9, CountDifference
  <1>12. Cardinality(Enabled(t)) = n /\ n \in Nat
    <2>1. IsFiniteSet(Enabled(t))
      BY ModulesFinite
    <2>2. Cardinality(Enabled(t)) \in Nat
      BY <2>1, FS_CardinalityType
    <2> QED BY <1>2, <1>4, <1>5, <1>11, <2>2 DEF n
  <1>13. t \in StoreWith(Letterings)
    BY <1>1, <1>6, <1>12 DEF StoreInv, StoreWith
  <1>14. CountsMatchIn(t)
    BY <1>8, <1>10, <1>12 DEF StoreInv, CountsMatchIn
  <1>15. NominationIsAdminsIn(t)
    BY <1>8 DEF StoreInv, NominationIsAdminsIn
  <1>16. Enabled(t) # {} \/ to_add > 0
    <2>1. CASE to_add > 0
      BY <2>1
    <2>2. CASE s.active_proposal_module_count > Len(to_disable)
      <3>1. n # 0
        BY <1>4, <1>5, <2>2 DEF n
      <3> QED BY <3>1, <1>12, FS_EmptySet
    <2> QED BY <1>1, <2>1, <2>2
  <1> QED BY <1>10, <1>13, <1>14, <1>15, <1>16 DEF HandlerOK, StoreInv

\* A member of ExecuteMsg has the fields its kind says.
LEMMA ExecuteMsgFields ==
    ASSUME NEW c \in ExecuteMsg
    PROVE  /\ c.kind \in {"execute_admin_msgs", "execute_proposal_hook"} => c.msgs \in MsgLists
           /\ c.kind = "pause" => c.duration \in Nat
           /\ c.kind = "nominate_admin" => c.admin \in Addr \cup {NoAddr}
           /\ c.kind \in {"set_item", "remove_item"} => c.key \in Keys
           /\ c.kind = "update_config" => c.config \in Config
           /\ c.kind \in {"update_cw20_list", "update_cw721_list", "update_sub_daos"} =>
                  c.to_add \in SUBSET Addr /\ c.to_remove \in SUBSET Addr
           /\ c.kind = "update_proposal_modules" =>
                  c.to_add \in Nat /\ c.to_disable \in Seq(Modules)
           /\ c.kind \in {"execute_admin_msgs", "execute_proposal_hook", "pause", "unpause",
                  "receive", "receive_nft", "remove_item", "set_item", "update_config",
                  "update_cw20_list", "update_cw721_list", "update_voting_module",
                  "update_proposal_modules", "nominate_admin", "accept_admin_nomination",
                  "withdraw_admin_nomination", "update_sub_daos"}
  BY DEF ExecuteMsg

\* The messages a handler returns are well formed, and an update that adds
\* proposal modules promises them.
LEMMA MessagesType ==
    ASSUME NEW c \in ExecuteMsg
    PROVE  /\ Messages(c) \in Seq(SubMsg)
           /\ \A i \in DOMAIN Messages(c) : MsgInv(Messages(c)[i])
           /\ c.kind = "update_proposal_modules" /\ c.to_add > 0 => Promise(Messages(c))
  <1>1. \A id \in 0 .. 2 : InstantiateMsg(id) \in SubMsg /\ MsgInv(InstantiateMsg(id))
    BY AddrAssumption
    DEF AddrAssumption, InstantiateMsg, MsgReplyOnSuccess, SubMsg, Body, MsgInv
  <1>2. CASE c.kind \in {"execute_admin_msgs", "execute_proposal_hook"}
    <2>1. Messages(c) = c.msgs /\ c.msgs \in Seq(DaoMsgs)
      BY <1>2, ExecuteMsgFields, MsgAssumption DEF Messages, MsgAssumption
    <2>2. \A m \in DaoMsgs : m \in SubMsg /\ MsgInv(m)
      BY AddrAssumption DEF AddrAssumption, DaoMsgs, MsgInv, SubMsg, Peer
    <2> QED BY <1>2, <2>1, <2>2
  <1>3. CASE c.kind = "update_voting_module"
    BY <1>1, <1>3 DEF Messages, VOTE_MODULE_UPDATE_REPLY_ID
  <1>4. CASE c.kind = "update_proposal_modules"
    <2> DEFINE new == InstantiateMsg(PROPOSAL_MODULE_REPLY_ID)
    <2>1. c.to_add \in Nat /\ Messages(c) = [i \in 1 .. c.to_add |-> new]
      BY <1>4, ExecuteMsgFields DEF Messages
    <2>2. new \in SubMsg /\ MsgInv(new)
      BY <1>1 DEF PROPOSAL_MODULE_REPLY_ID
    <2>3. Registers(new)
      BY DEF Registers, InstantiateMsg, MsgReplyOnSuccess
    <2> HIDE DEF new
    <2>4. Messages(c) \in Seq(SubMsg)
      BY <2>1, <2>2
    <2>5. DOMAIN Messages(c) = 1 .. c.to_add
      BY <2>1
    <2>6. \A i \in DOMAIN Messages(c) : Messages(c)[i] = new
      BY <2>1
    <2>7. c.to_add > 0 => Promise(Messages(c))
      <3>1. c.to_add > 0 => 1 \in DOMAIN Messages(c)
        BY <2>1, <2>5
      <3> QED BY <3>1, <2>3, <2>6 DEF Promise
    <2> QED BY <2>2, <2>4, <2>6, <2>7
  <1>5. CASE c.kind \notin {"execute_admin_msgs", "execute_proposal_hook",
                            "update_voting_module", "update_proposal_modules"}
    BY <1>5 DEF Messages
  <1> QED BY <1>2, <1>3, <1>4, <1>5

\* Every handler keeps the invariant of its storage, registers nothing, and if it
\* leaves no module enabled it promises one.
LEMMA ExecuteKeepsStore ==
    ASSUME NEW s, StoreInv(s), NEW sender \in Addr, height \in Nat, NEW c \in ExecuteMsg,
           NEW t \in execute(s, sender, c)
    PROVE  /\ HandlerOK(s, t)
           /\ Enabled(s) # {} => Enabled(t) # {} \/ Promise(Messages(c))
  <1>1. CASE c.kind = "update_proposal_modules"
    <2>1. t \in execute_update_proposal_modules(s, sender, c.to_add, c.to_disable)
      BY <1>1 DEF execute
    <2>2. c.to_add \in Nat /\ c.to_disable \in Seq(Modules)
      BY <1>1, ExecuteMsgFields
    <2>3. HandlerOK(s, t) /\ (Enabled(t) # {} \/ c.to_add > 0)
      BY <2>1, <2>2, DisableModules
    <2> QED BY <1>1, <2>3, MessagesType
  <1>2. CASE c.kind \in {"nominate_admin", "accept_admin_nomination",
                         "withdraw_admin_nomination"}
    <2>1. \E nomination \in Addr \cup {NoAddr} :
              \/ t \in execute_nominate_admin(s, sender, nomination)
              \/ t \in execute_accept_admin_nomination(s, sender)
              \/ t \in execute_withdraw_admin_nomination(s, sender)
      BY <1>2, ExecuteMsgFields DEF execute
    <2> QED BY <2>1, AdminHandlers
  <1>3. CASE c.kind \notin {"update_proposal_modules", "nominate_admin",
                            "accept_admin_nomination", "withdraw_admin_nomination"}
    <2>1. HandlerOK(s, t) /\ Enabled(t) = Enabled(s)
      BY <1>3, ExecuteMsgFields, SettingHandlers DEF execute
    <2> QED BY <2>1
  <1> QED BY <1>1, <1>2, <1>3

----------------------------------------------------------------------------
(* Lists of messages *)

\* Messages that run before others.
LEMMA MsgsConcat ==
    ASSUME NEW a, NEW b, MsgsInv(a), MsgsInv(b)
    PROVE  /\ MsgsInv(a \o b)
           /\ Promise(a) \/ Promise(b) => Promise(a \o b)
  <1>1. a \in Seq(SubMsg) /\ b \in Seq(SubMsg)
    BY DEF MsgsInv
  <1>2. /\ a \o b \in Seq(SubMsg)
        /\ DOMAIN (a \o b) = 1 .. Len(a) + Len(b)
        /\ DOMAIN a = 1 .. Len(a) /\ DOMAIN b = 1 .. Len(b)
        /\ Len(a) \in Nat /\ Len(b) \in Nat
        /\ \A i \in 1 .. Len(a) + Len(b) :
               (a \o b)[i] = IF i <= Len(a) THEN a[i] ELSE b[i - Len(a)]
    BY <1>1
  <1>3. \A i \in DOMAIN (a \o b) : MsgInv((a \o b)[i])
    <2> SUFFICES ASSUME NEW i \in DOMAIN (a \o b) PROVE MsgInv((a \o b)[i])
      OBVIOUS
    <2>1. i <= Len(a) => i \in DOMAIN a
      BY <1>2
    <2>2. ~(i <= Len(a)) => i - Len(a) \in DOMAIN b
      BY <1>2
    <2> QED BY <1>2, <2>1, <2>2 DEF MsgsInv
  <1>4. Promise(a) => Promise(a \o b)
    <2> SUFFICES ASSUME NEW i \in DOMAIN a, Registers(a[i]) PROVE Promise(a \o b)
      BY DEF Promise
    <2>1. i \in DOMAIN (a \o b) /\ (a \o b)[i] = a[i]
      BY <1>2
    <2> QED BY <2>1 DEF Promise
  <1>5. Promise(b) => Promise(a \o b)
    <2> SUFFICES ASSUME NEW i \in DOMAIN b, Registers(b[i]) PROVE Promise(a \o b)
      BY DEF Promise
    <2>1. /\ i + Len(a) \in DOMAIN (a \o b)
          /\ i + Len(a) \in 1 .. Len(a) + Len(b)
          /\ ~(i + Len(a) <= Len(a)) /\ (i + Len(a)) - Len(a) = i
      BY <1>2
    <2>2. (a \o b)[i + Len(a)] = b[i]
      BY <1>2, <2>1
    <2> QED BY <2>1, <2>2 DEF Promise
  <1> QED BY <1>2, <1>3, <1>4, <1>5 DEF MsgsInv

\* The first message is taken from a list.
LEMMA MsgsTail ==
    ASSUME NEW a, MsgsInv(a), a # <<>>
    PROVE  /\ MsgInv(Head(a)) /\ MsgsInv(Tail(a))
           /\ Promise(a) => Registers(Head(a)) \/ Promise(Tail(a))
  <1>1. a \in Seq(SubMsg)
    BY DEF MsgsInv
  <1>2. /\ Tail(a) \in Seq(SubMsg) /\ Head(a) = a[1] /\ Len(a) \in Nat \ {0}
        /\ DOMAIN a = 1 .. Len(a) /\ DOMAIN Tail(a) = 1 .. Len(a) - 1
        /\ \A i \in 1 .. Len(a) - 1 : Tail(a)[i] = a[i + 1] /\ i + 1 \in DOMAIN a
    BY <1>1
  <1>3. MsgInv(Head(a)) /\ MsgsInv(Tail(a))
    BY <1>2 DEF MsgsInv
  <1>4. ASSUME NEW i \in DOMAIN a, Registers(a[i]), i # 1
        PROVE  Promise(Tail(a))
    <2>1. i - 1 \in 1 .. Len(a) - 1 /\ (i - 1) + 1 = i
      BY <1>2, <1>4
    <2>2. Tail(a)[i - 1] = a[i]
      BY <1>2, <2>1
    <2> QED BY <1>2, <1>4, <2>1, <2>2 DEF Promise
  <1> QED BY <1>2, <1>3, <1>4 DEF Promise

\* The empty list of messages.
LEMMA NoMsgs == MsgsInv(<<>>) /\ ~Promise(<<>>)
  BY DEF MsgsInv, Promise

----------------------------------------------------------------------------
(* The stack *)

\* No call is running.
LEMMA EmptyStack ==
    ASSUME NEW s
    PROVE  StackInv(<<>>) /\ NewModules(<<>>, s) /\ RootInv(<<>>)
  BY DEF StackInv, NewModules, RootInv

\* The topmost call.
LEMMA TopInv ==
    ASSUME NEW st, StackInv(st), st # <<>>
    PROVE  /\ Last(st) = st[Len(st)] /\ FrameInv(st[Len(st)])
           /\ Len(st) \in DOMAIN st /\ Len(st) \in Nat \ {0} /\ DOMAIN st = 1 .. Len(st)
           /\ st \in Seq(FrameShape)
  <1>1. st \in Seq(FrameShape)
    BY DEF StackInv
  <1>2. Len(st) \in DOMAIN st /\ Len(st) \in Nat \ {0} /\ DOMAIN st = 1 .. Len(st)
    BY <1>1
  <1> QED BY <1>1, <1>2 DEF StackInv, Last

\* The same message, sent from the same storage.
SameCall(f, g) ==
    f.to = g.to /\ f.reply_on = g.reply_on /\ f.reply_id = g.reply_id /\ f.saved = g.saved

\* The topmost call changes.
LEMMA Replace ==
    ASSUME NEW st, StackInv(st), st # <<>>, NEW g, FrameInv(g), SameCall(g, st[Len(st)]),
           NEW st2, st2 = [st EXCEPT ![Len(st)] = g]
    PROVE  /\ StackInv(st2) /\ st2 # <<>> /\ DOMAIN st2 = DOMAIN st /\ Len(st2) = Len(st)
           /\ \A k \in DOMAIN st : k # Len(st) => st2[k] = st[k]
           /\ st2[Len(st)] = g
           /\ \A k \in DOMAIN st : SameCall(st2[k], st[k])
           /\ \A s : NewModules(st, s) => NewModules(st2, s)
           /\ RootInv(st) => RootInv(st2)
  <1>1. /\ st \in Seq(FrameShape) /\ Len(st) \in DOMAIN st /\ DOMAIN st = 1 .. Len(st)
        /\ Len(st) \in Nat \ {0}
    BY TopInv
  <1>2. g \in FrameShape
    BY DEF FrameInv
  <1>3. /\ st2 \in Seq(FrameShape) /\ DOMAIN st2 = DOMAIN st /\ Len(st2) = Len(st)
        /\ st2[Len(st)] = g
        /\ \A k \in DOMAIN st : k # Len(st) => st2[k] = st[k]
    BY <1>1, <1>2
  <1>4. \A k \in DOMAIN st : SameCall(st2[k], st[k])
    BY <1>3 DEF SameCall
  <1>5. StackInv(st2) /\ st2 # <<>>
    BY <1>1, <1>3 DEF StackInv
  <1>6. ASSUME NEW s, NewModules(st, s)
        PROVE  NewModules(st2, s)
    BY <1>3, <1>4, <1>6 DEF NewModules, SameCall, Registers
  <1>7. RootInv(st) => RootInv(st2)
    BY <1>1, <1>4 DEF RootInv, SameCall
  <1> QED BY <1>3, <1>4, <1>5, <1>6, <1>7

\* A call is pushed.
LEMMA Push ==
    ASSUME NEW st, StackInv(st), st # <<>>, st[Len(st)].called, NEW f, FrameInv(f)
    PROVE  /\ StackInv(Append(st, f))
           /\ RootInv(st) => RootInv(Append(st, f))
           /\ DOMAIN Append(st, f) = 1 .. Len(st) + 1 /\ DOMAIN st = 1 .. Len(st)
           /\ Append(st, f)[Len(st) + 1] = f
           /\ \A k \in DOMAIN st : Append(st, f)[k] = st[k]
           /\ \A k \in DOMAIN Append(st, f) : k \in DOMAIN st \/ k = Len(st) + 1
           /\ Len(st) + 1 \in DOMAIN Append(st, f) /\ Len(st) + 1 \notin DOMAIN st
           /\ DOMAIN st \subseteq DOMAIN Append(st, f)
  <1>1. st \in Seq(FrameShape) /\ f \in FrameShape
        /\ DOMAIN st = 1 .. Len(st) /\ Len(st) \in Nat \ {0}
    BY TopInv DEF FrameInv
  <1>2. /\ Append(st, f) \in Seq(FrameShape)
        /\ DOMAIN Append(st, f) = 1 .. Len(st) + 1
        /\ Append(st, f)[Len(st) + 1] = f
        /\ \A k \in DOMAIN st : Append(st, f)[k] = st[k]
    BY <1>1
  <1>3. /\ \A k \in 1 .. Len(st) + 1 : k \in 1 .. Len(st) \/ k = Len(st) + 1
        /\ Len(st) + 1 \in 1 .. Len(st) + 1 /\ Len(st) + 1 \notin 1 .. Len(st)
        /\ 1 .. Len(st) \subseteq 1 .. Len(st) + 1
        /\ 1 \in 1 .. Len(st)
    BY <1>1
  <1>4. StackInv(Append(st, f))
    <2>1. \A k \in DOMAIN Append(st, f) : FrameInv(Append(st, f)[k])
      BY <1>1, <1>2, <1>3 DEF StackInv
    <2>2. Len(Append(st, f)) = Len(st) + 1
      BY <1>1
    <2>3. \A k \in DOMAIN st : st[k].called
      BY DEF StackInv
    <2> QED BY <1>1, <1>2, <1>3, <2>1, <2>2, <2>3 DEF StackInv
  <1>5. RootInv(st) => RootInv(Append(st, f))
    BY <1>1, <1>2, <1>3 DEF RootInv
  <1> QED BY <1>1, <1>2, <1>3, <1>4, <1>5

\* The indices below the topmost call's.
LEMMA Below ==
    ASSUME NEW n \in Nat \ {0}
    PROVE  /\ \A k \in 1 .. n - 1 : k \in 1 .. n /\ k # n
           /\ \A k \in 1 .. n : k = n \/ k \in 1 .. n - 1
  <1>1. \A k \in 1 .. n - 1 : k \in 1 .. n /\ k # n
    OBVIOUS
  <1>2. \A k \in 1 .. n : k = n \/ k \in 1 .. n - 1
    OBVIOUS
  <1> QED BY <1>1, <1>2

\* The topmost call, with nothing left to do, is popped.
LEMMA Pop ==
    ASSUME NEW st, StackInv(st), st # <<>>
    PROVE  /\ StackInv(Front(st)) /\ (RootInv(st) => RootInv(Front(st)))
           /\ DOMAIN Front(st) = 1 .. Len(st) - 1 /\ Len(Front(st)) = Len(st) - 1
           /\ \A k \in DOMAIN Front(st) : k \in DOMAIN st /\ k # Len(st) /\ Front(st)[k] = st[k]
           /\ \A k \in DOMAIN st : k = Len(st) \/ k \in DOMAIN Front(st)
           /\ Len(st) > 1 => Front(st) # <<>>
  <1>1. st \in Seq(FrameShape) /\ DOMAIN st = 1 .. Len(st) /\ Len(st) \in Nat \ {0}
    BY TopInv
  <1>2. /\ Front(st) \in Seq(FrameShape)
        /\ DOMAIN Front(st) = 1 .. Len(st) - 1 /\ Len(Front(st)) = Len(st) - 1
        /\ \A k \in 1 .. Len(st) - 1 : Front(st)[k] = st[k]
    BY <1>1 DEF Front
  <1>3. /\ \A k \in 1 .. Len(st) - 1 : k \in 1 .. Len(st) /\ k # Len(st)
        /\ \A k \in 1 .. Len(st) : k = Len(st) \/ k \in 1 .. Len(st) - 1
    BY <1>1, Below
  <1>4. StackInv(Front(st))
    BY <1>1, <1>2, <1>3 DEF StackInv
  <1>5. Front(st) # <<>> => 1 \in DOMAIN Front(st)
    BY <1>1, <1>2
  <1>6. RootInv(st) => RootInv(Front(st))
    BY <1>2, <1>5 DEF RootInv
  <1>7. Len(st) > 1 => Front(st) # <<>>
    BY <1>1, <1>2
  <1> QED BY <1>1, <1>2, <1>3, <1>4, <1>6, <1>7

\* The topmost call gets other messages to run.
LEMMA SetPending ==
    ASSUME NEW st, StackInv(st), st # <<>>, NEW msgs, MsgsInv(msgs), NEW called \in BOOLEAN,
           called \/ msgs = <<>>
    PROVE  LET g == [st[Len(st)] EXCEPT !.pending = msgs, !.called = called]
           IN  FrameInv(g) /\ SameCall(g, st[Len(st)]) /\ g.pending = msgs
  <1>1. FrameInv(st[Len(st)])
    BY TopInv
  <1>2. msgs \in Seq(SubMsg)
    BY DEF MsgsInv
  <1> QED BY <1>1, <1>2 DEF FrameInv, FrameShape, SameCall

\* NewModules depends on the registered modules only.
LEMMA SameRegistered ==
    ASSUME NEW st, NEW s, NEW t, Registered(t) = Registered(s), NewModules(st, s)
    PROVE  NewModules(st, t)
  BY DEF NewModules

----------------------------------------------------------------------------
(* Every action keeps the invariant *)

\* A call from outside.
LEMMA CallKeepsInv ==
    ASSUME IInv, NEW sender \in Peer, NEW c \in ExecuteMsg, Call(sender, c)
    PROVE  IInv'
  <1> DEFINE msgs == Messages(c)
  <1>1. /\ height \in Nat /\ height' = height /\ StoreInv(store) /\ StackInv(stack)
        /\ NewModules(stack, store) /\ RootInv(stack) /\ Promised(stack, store)
        /\ store' \in execute(store, sender, c) /\ Respond(sender, msgs) /\ Begin(sender)
    BY DEF IInv, Call
  <1>2. sender \in Addr /\ sender # Dao
    BY DEF Peer
  <1>3. /\ HandlerOK(store, store')
        /\ Enabled(store) # {} => Enabled(store') # {} \/ Promise(msgs)
    BY <1>1, <1>2, ExecuteKeepsStore
  <1>4. StoreInv(store') /\ Registered(store') = Registered(store)
    BY <1>3 DEF HandlerOK
  <1>5. MsgsInv(msgs)
    BY MessagesType DEF MsgsInv
  <1> HIDE DEF msgs
  <1>6. CASE stack = <<>>
    <2> DEFINE f == Frame(Msg(sender, [kind |-> "tx"]), store, msgs, TRUE)
    <2>1. stack' = <<f>>
      BY <1>1, <1>6 DEF Respond
    <2>2. /\ f.reply_on = "never" /\ f.pending = msgs /\ f.saved = store /\ f.called
          /\ f \in FrameShape
      BY <1>1, <1>2, <1>5 DEF Frame, Msg, NoReply, FrameShape, StoreInv, MsgsInv, Body
    <2>3. FrameInv(f)
      BY <1>1, <1>5, <2>2 DEF FrameInv
    <2>4. Enabled(store) # {}
      BY <1>1, <1>6 DEF Promised
    <2> HIDE DEF f
    <2>5. DOMAIN stack' = {1} /\ stack'[1] = f /\ stack' \in Seq(FrameShape)
      BY <2>1, <2>2
    <2>6. StackInv(stack') /\ RootInv(stack')
      BY <2>2, <2>3, <2>4, <2>5 DEF StackInv, RootInv
    <2>7. NewModules(stack', store')
      BY <2>2, <2>5 DEF NewModules, Registers
    <2>8. Promised(stack', store')
      BY <1>3, <2>2, <2>4, <2>5 DEF Promised
    <2> QED BY <1>1, <1>4, <2>6, <2>7, <2>8 DEF IInv
  <1>7. CASE stack # <<>>
    <2> DEFINE n == Len(stack)
               g == [stack[n] EXCEPT !.pending = msgs, !.called = TRUE]
    <2>1. n \in DOMAIN stack /\ stack \in Seq(FrameShape) /\ FrameInv(stack[n]) /\ Top = stack[n]
      BY <1>1, <1>7, TopInv DEF Top
    <2>2. ~stack[n].called /\ stack[n].pending = <<>>
      BY <1>1, <1>7, <2>1 DEF Begin, FrameInv
    <2>3. FrameInv(g) /\ SameCall(g, stack[n]) /\ g.pending = msgs
      BY <1>1, <1>5, <1>7, SetPending
    <2>4. stack' = [stack EXCEPT ![n] = g]
      <3>1. stack' = [stack EXCEPT ![n].pending = msgs, ![n].called = TRUE]
        BY <1>1, <1>7 DEF Respond
      <3> QED BY <2>1, <3>1
    <2> HIDE DEF g, n
    <2>5. /\ StackInv(stack') /\ DOMAIN stack' = DOMAIN stack
          /\ \A k \in DOMAIN stack : k # n => stack'[k] = stack[k]
          /\ stack'[n] = g
          /\ \A k \in DOMAIN stack : SameCall(stack'[k], stack[k])
          /\ NewModules(stack', store)
          /\ RootInv(stack')
      BY <1>1, <1>7, <2>3, <2>4, Replace DEF n
    <2>6. NewModules(stack', store')
      BY <1>4, <2>5, SameRegistered
    <2>7. Promised(stack', store')
      <3>1. CASE Enabled(store) # {}
        BY <1>3, <2>1, <2>3, <2>5, <3>1 DEF Promised
      <3>2. ASSUME NEW k \in DOMAIN stack, Registers(stack[k])
            PROVE  Promised(stack', store')
        BY <2>5, <3>2 DEF Promised, SameCall, Registers
      <3>3. ASSUME NEW k \in DOMAIN stack, Promise(stack[k].pending)
            PROVE  Promised(stack', store')
        <4>1. k # n
          BY <2>2, <3>3, NoMsgs
        <4> QED BY <2>5, <3>3, <4>1 DEF Promised
      <3> QED BY <1>1, <3>1, <3>2, <3>3 DEF Promised
    <2> QED BY <1>1, <1>4, <2>5, <2>6, <2>7 DEF IInv
  <1> QED BY <1>6, <1>7

\* An error undoes the transaction.
LEMMA AbortKeepsInv ==
    ASSUME IInv, stack # <<>>, Abort
    PROVE  IInv'
  <1>1. /\ height \in Nat /\ height' = height /\ StackInv(stack) /\ RootInv(stack)
        /\ stack[1].to # Dao /\ store' = stack[1].saved /\ stack' = <<>>
    BY DEF IInv, Abort, Instantiating, Running
  <1>2. 1 \in DOMAIN stack
    BY <1>1, TopInv
  <1>3. StoreInv(store') /\ Enabled(store') # {}
    BY <1>1, <1>2 DEF StackInv, FrameInv, RootInv
  <1>4. StackInv(stack') /\ NewModules(stack', store') /\ RootInv(stack')
    BY <1>1, EmptyStack
  <1> QED BY <1>1, <1>3, <1>4 DEF IInv, Promised

\* The state in which the DAO's next message is run.
LEMMA NextMsgInv ==
    ASSUME IInv, Running, Top.pending # <<>>
    PROVE  /\ Top = stack[Len(stack)] /\ FrameInv(Top) /\ Top.called
           /\ Len(stack) \in DOMAIN stack /\ stack \in Seq(FrameShape)
           /\ MsgInv(NextMsg) /\ MsgsInv(Tail(Top.pending))
           /\ Promise(Top.pending) => Registers(NextMsg) \/ Promise(Tail(Top.pending))
  <1>1. StackInv(stack) /\ stack # <<>>
    BY DEF IInv, Running
  <1>2. /\ Top = stack[Len(stack)] /\ FrameInv(Top)
        /\ Len(stack) \in DOMAIN stack /\ stack \in Seq(FrameShape)
    BY <1>1, TopInv DEF Top
  <1>3. MsgsInv(Top.pending) /\ Top.called
    BY <1>2 DEF FrameInv
  <1> QED BY <1>2, <1>3, MsgsTail DEF NextMsg

\* After the topmost call got the messages msgs instead of its pending ones.
LEMMA PendingReplaced ==
    ASSUME IInv, Running, Top.pending # <<>>, NEW msgs, MsgsInv(msgs), NEW st,
           st = [stack EXCEPT ![Len(stack)].pending = msgs]
    PROVE  /\ StackInv(st) /\ st # <<>> /\ DOMAIN st = DOMAIN stack /\ Len(st) = Len(stack)
           /\ \A k \in DOMAIN stack : k # Len(stack) => st[k] = stack[k]
           /\ st[Len(stack)].pending = msgs /\ st[Len(stack)].called
           /\ \A k \in DOMAIN stack : SameCall(st[k], stack[k])
           /\ NewModules(st, store)
           /\ RootInv(st)
  <1> DEFINE n == Len(stack)
             g == [stack[n] EXCEPT !.pending = msgs, !.called = TRUE]
  <1>1. /\ StackInv(stack) /\ stack # <<>> /\ NewModules(stack, store) /\ RootInv(stack)
        /\ n \in DOMAIN stack /\ stack \in Seq(FrameShape)
        /\ FrameInv(stack[n]) /\ stack[n].called
    BY NextMsgInv DEF IInv, Running
  <1>2. FrameInv(g) /\ SameCall(g, stack[n]) /\ g.pending = msgs
    BY <1>1, SetPending
  <1>3. g = [stack[n] EXCEPT !.pending = msgs] /\ g.called
    BY <1>1 DEF FrameInv, FrameShape
  <1>4. st = [stack EXCEPT ![n] = g]
    BY <1>1, <1>3
  <1> HIDE DEF g
  <1>5. SameCall(g, stack[Len(stack)]) /\ st = [stack EXCEPT ![Len(stack)] = g]
    BY <1>2, <1>4
  <1>6. /\ StackInv(st) /\ st # <<>> /\ DOMAIN st = DOMAIN stack /\ Len(st) = Len(stack)
        /\ \A k \in DOMAIN stack : k # Len(stack) => st[k] = stack[k]
        /\ st[Len(stack)] = g
        /\ \A k \in DOMAIN stack : SameCall(st[k], stack[k])
        /\ \A s : NewModules(stack, s) => NewModules(st, s)
        /\ RootInv(stack) => RootInv(st)
    BY <1>1, <1>2, <1>5, Replace, Zenon
  <1> QED BY <1>1, <1>2, <1>3, <1>6

\* A message of the DAO to itself.
LEMMA DispatchSelfKeepsInv ==
    ASSUME IInv, DispatchSelf
    PROVE  IInv'
  <1> DEFINE c == NextMsg.body
             msgs == Messages(c) \o Tail(Top.pending)
  <1>1. /\ Running /\ Top.pending # <<>> /\ NextMsg.to = Dao /\ stack # <<>>
        /\ height \in Nat /\ StoreInv(store) /\ Promised(stack, store)
    BY DEF DispatchSelf, IInv, Running
  <1>2. /\ Top = stack[Len(stack)] /\ Len(stack) \in DOMAIN stack
        /\ MsgInv(NextMsg) /\ MsgsInv(Tail(Top.pending))
        /\ Promise(Top.pending) => Registers(NextMsg) \/ Promise(Tail(Top.pending))
    BY <1>1, NextMsgInv
  <1>3. c \in ExecuteMsg /\ ~Registers(NextMsg) /\ Dao \in Addr
    BY <1>1, <1>2, AddrAssumption DEF MsgInv, Registers, AddrAssumption
  <1>4. CASE Abort
    BY <1>1, <1>4, AbortKeepsInv
  <1>5. CASE /\ store' \in execute(store, Dao, c)
             /\ stack' = [stack EXCEPT ![Len(stack)].pending = Messages(c) \o Tail(@)]
             /\ height' = height
    <2>1. /\ HandlerOK(store, store')
          /\ Enabled(store) # {} => Enabled(store') # {} \/ Promise(Messages(c))
      BY <1>1, <1>3, <1>5, ExecuteKeepsStore
    <2>2. StoreInv(store') /\ Registered(store') = Registered(store)
      BY <2>1 DEF HandlerOK
    <2>3. MsgsInv(Messages(c))
      BY <1>3, MessagesType DEF MsgsInv
    <2>4. /\ MsgsInv(msgs)
          /\ Promise(Messages(c)) \/ Promise(Tail(Top.pending)) => Promise(msgs)
      BY <1>2, <2>3, MsgsConcat
    <2>5. stack' = [stack EXCEPT ![Len(stack)].pending = msgs]
      BY <1>2, <1>5
    <2> HIDE DEF msgs, c
    <2>6. /\ StackInv(stack') /\ DOMAIN stack' = DOMAIN stack
          /\ \A k \in DOMAIN stack : k # Len(stack) => stack'[k] = stack[k]
          /\ stack'[Len(stack)].pending = msgs
          /\ \A k \in DOMAIN stack : SameCall(stack'[k], stack[k])
          /\ NewModules(stack', store)
          /\ RootInv(stack')
      BY <1>1, <2>4, <2>5, PendingReplaced
    <2>7. NewModules(stack', store')
      BY <2>2, <2>6, SameRegistered
    <2>8. Promised(stack', store')
      <3>1. CASE Enabled(store) # {}
        BY <1>2, <2>1, <2>4, <2>6, <3>1 DEF Promised
      <3>2. ASSUME NEW k \in DOMAIN stack, Registers(stack[k])
            PROVE  Promised(stack', store')
        BY <2>6, <3>2 DEF Promised, SameCall, Registers
      <3>3. ASSUME NEW k \in DOMAIN stack, Promise(stack[k].pending)
            PROVE  Promised(stack', store')
        <4>1. CASE k = Len(stack)
          BY <1>2, <1>3, <2>4, <2>6, <3>3, <4>1 DEF Promised
        <4>2. CASE k # Len(stack)
          BY <2>6, <3>3, <4>2 DEF Promised
        <4> QED BY <4>1, <4>2
      <3> QED BY <1>1, <3>1, <3>2, <3>3 DEF Promised
    <2> QED BY <1>1, <1>5, <2>2, <2>6, <2>7, <2>8 DEF IInv
  <1> QED BY <1>4, <1>5 DEF DispatchSelf

\* The next message m becomes a call to addr.
LEMMA PushKeepsInv ==
    ASSUME IInv, Running, Top.pending # <<>>, NEW addr \in Addr,
           Registers(NextMsg) => /\ addr \in Modules \ Registered(store)
                                 /\ \A k \in DOMAIN stack : stack[k].to # addr,
           stack' = Append(Advance(stack),
                           Frame([NextMsg EXCEPT !.to = addr], store, <<>>, FALSE)),
           store' = store, height' = height
    PROVE  IInv'
  <1> DEFINE st == Advance(stack)
             f == Frame([NextMsg EXCEPT !.to = addr], store, <<>>, FALSE)
  <1>1. /\ StoreInv(store) /\ Promised(stack, store) /\ height \in Nat
        /\ Top = stack[Len(stack)] /\ Len(stack) \in DOMAIN stack
        /\ MsgInv(NextMsg) /\ MsgsInv(Tail(Top.pending))
        /\ Promise(Top.pending) => Registers(NextMsg) \/ Promise(Tail(Top.pending))
    BY NextMsgInv DEF IInv
  <1>2. st = [stack EXCEPT ![Len(stack)].pending = Tail(Top.pending)]
    BY <1>1 DEF Advance
  <1> HIDE DEF st
  <1>3. /\ StackInv(st) /\ st # <<>> /\ DOMAIN st = DOMAIN stack /\ Len(st) = Len(stack)
        /\ \A k \in DOMAIN stack : k # Len(stack) => st[k] = stack[k]
        /\ st[Len(stack)].pending = Tail(Top.pending) /\ st[Len(stack)].called
        /\ \A k \in DOMAIN stack : SameCall(st[k], stack[k])
        /\ NewModules(st, store)
        /\ RootInv(st)
    BY <1>1, <1>2, PendingReplaced
  <1>4. /\ f \in FrameShape /\ f.pending = <<>> /\ f.saved = store /\ f.to = addr
        /\ f.reply_on = NextMsg.reply_on /\ f.reply_id = NextMsg.reply_id
    BY <1>1 DEF Frame, MsgInv, SubMsg, FrameShape, StoreInv
  <1>5. FrameInv(f)
    BY <1>1, <1>4, NoMsgs DEF FrameInv
  <1>6. Registers(f) <=> Registers(NextMsg)
    BY <1>4 DEF Registers
  <1> HIDE DEF f
  <1>7. stack' = Append(st, f)
    BY DEF st, f
  <1>8. /\ StackInv(stack') /\ RootInv(stack')
        /\ stack'[Len(st) + 1] = f
        /\ \A k \in DOMAIN st : stack'[k] = st[k]
        /\ \A k \in DOMAIN stack' : k \in DOMAIN st \/ k = Len(st) + 1
        /\ Len(st) + 1 \in DOMAIN stack' /\ Len(st) + 1 \notin DOMAIN st
        /\ DOMAIN st \subseteq DOMAIN stack'
    <2>1. /\ StackInv(Append(st, f)) /\ RootInv(Append(st, f))
          /\ Append(st, f)[Len(st) + 1] = f
          /\ \A k \in DOMAIN st : Append(st, f)[k] = st[k]
          /\ \A k \in DOMAIN Append(st, f) : k \in DOMAIN st \/ k = Len(st) + 1
          /\ Len(st) + 1 \in DOMAIN Append(st, f) /\ Len(st) + 1 \notin DOMAIN st
          /\ DOMAIN st \subseteq DOMAIN Append(st, f)
      BY <1>3, <1>5, Push, Zenon
    <2> QED BY <1>7, <2>1, Zenon
  <1>9. NewModules(stack', store')
    <2> SUFFICES ASSUME NEW k \in DOMAIN stack', Registers(stack'[k])
                 PROVE  /\ stack'[k].to \in Modules \ Registered(store)
                        /\ \A l \in DOMAIN stack' :
                               Registers(stack'[l]) /\ l # k => stack'[l].to # stack'[k].to
      BY DEF NewModules
    <2>1. \A l \in DOMAIN st : st[l].to = stack[l].to
      BY <1>3 DEF SameCall
    <2>2. CASE k = Len(st) + 1
      <3>1. stack'[k] = f /\ Registers(f) /\ f.to = addr
        BY <1>4, <1>8, <2>2
      <3>2. addr \in Modules \ Registered(store) /\ \A l \in DOMAIN stack : stack[l].to # addr
        BY <1>6, <3>1
      <3>3. \A l \in DOMAIN stack' : l # k => stack'[l].to # addr
        BY <1>3, <1>8, <2>1, <2>2, <3>2
      <3> QED BY <3>1, <3>2, <3>3
    <2>3. CASE k \in DOMAIN st
      <3>1. stack'[k] = st[k] /\ stack'[k].to \in Modules \ Registered(store)
        BY <1>3, <1>8, <2>3 DEF NewModules
      <3>2. \A l \in DOMAIN st : Registers(stack'[l]) /\ l # k => stack'[l].to # stack'[k].to
        <4>1. NewModules(st, store) /\ Registers(st[k])
          BY <1>3, <3>1
        <4>2. \A l \in DOMAIN st : Registers(st[l]) /\ l # k => st[l].to # st[k].to
          BY <2>3, <4>1 DEF NewModules
        <4>3. \A l \in DOMAIN st : stack'[l] = st[l]
          BY <1>8
        <4> QED BY <3>1, <4>2, <4>3
      <3>3. Registers(f) => f.to # stack'[k].to
        BY <1>3, <1>4, <1>6, <2>1, <2>3, <3>1
      <3> QED BY <1>8, <3>1, <3>2, <3>3
    <2> QED BY <1>8, <2>2, <2>3
  <1>10. Promised(stack', store')
    <2>1. CASE Enabled(store) # {}
      BY <2>1 DEF Promised
    <2>2. ASSUME NEW k \in DOMAIN stack, Registers(stack[k])
          PROVE  Promised(stack', store')
      BY <1>3, <1>8, <2>2 DEF Promised, SameCall, Registers
    <2>3. ASSUME NEW k \in DOMAIN stack, Promise(stack[k].pending)
          PROVE  Promised(stack', store')
      <3>1. CASE k # Len(stack)
        BY <1>3, <1>8, <2>3, <3>1 DEF Promised
      <3>2. CASE Promise(Tail(Top.pending))
        <4>1. Len(stack) \in DOMAIN stack' /\ stack'[Len(stack)].pending = Tail(Top.pending)
          BY <1>1, <1>3, <1>8
        <4> QED BY <3>2, <4>1, Zenon DEF Promised
      <3>3. CASE Registers(NextMsg)
        <4>1. Registers(stack'[Len(st) + 1]) /\ Len(st) + 1 \in DOMAIN stack'
          BY <1>6, <1>8, <3>3
        <4> QED BY <4>1, Zenon DEF Promised
      <3> QED BY <1>1, <2>3, <3>1, <3>2, <3>3
    <2> QED BY <1>1, <2>1, <2>2, <2>3 DEF Promised
  <1> QED BY <1>1, <1>8, <1>9, <1>10 DEF IInv

\* A message to another contract.
LEMMA DispatchKeepsInv ==
    ASSUME IInv, Dispatch
    PROVE  IInv'
  <1>1. /\ Running /\ Top.pending # <<>> /\ NextMsg.to \in Peer
        /\ stack' = Append(Advance(stack), Frame(NextMsg, store, <<>>, FALSE))
        /\ store' = store /\ height' = height
    BY DEF Dispatch
  <1>2. MsgInv(NextMsg)
    BY <1>1, NextMsgInv
  <1>3. /\ NextMsg.to \in Addr /\ ~Registers(NextMsg)
        /\ NextMsg = [NextMsg EXCEPT !.to = NextMsg.to]
    BY <1>1, <1>2, AddrAssumption DEF Peer, MsgInv, Registers, AddrAssumption, SubMsg
  <1>4. stack' = Append(Advance(stack),
                        Frame([NextMsg EXCEPT !.to = NextMsg.to], store, <<>>, FALSE))
    BY <1>1, <1>3
  <1> QED BY <1>1, <1>3, <1>4, PushKeepsInv

\* A module is instantiated.
LEMMA InstantiateKeepsInv ==
    ASSUME IInv, Instantiate
    PROVE  IInv'
  <1>1. /\ Running /\ Top.pending # <<>> /\ store' = store /\ height' = height
    BY DEF Instantiate
  <1>2. PICK addr \in FreshAddr(NextMsg.reply_id) :
            stack' = Append(Advance(stack),
                            Frame([NextMsg EXCEPT !.to = addr], store, <<>>, FALSE))
    BY DEF Instantiate
  <1>3. addr \in Addr
    BY AddrAssumption DEF AddrAssumption, FreshAddr, Peer
  <1>4. Registers(NextMsg) => /\ addr \in Modules \ Registered(store)
                              /\ \A k \in DOMAIN stack : stack[k].to # addr
    BY DEF FreshAddr, Registers
  <1> QED BY <1>1, <1>2, <1>3, <1>4, PushKeepsInv

\* A new proposal module is registered.
LEMMA RegisterModule ==
    ASSUME NEW s, StoreInv(s), NEW addr \in Modules \ Registered(s)
    PROVE  LET t == reply_proposal_module(s, addr)
           IN  StoreInv(t) /\ addr \in Enabled(t) /\ Registered(t) = Registered(s) \cup {addr}
  <1> DEFINE module == [status |-> "enabled",
                        prefix |-> derive_proposal_module_prefix(s.total_proposal_module_count)]
             t == reply_proposal_module(s, addr)
             mods == [s.proposal_modules EXCEPT ![addr] = module]
  <1>1. /\ s.proposal_modules \in [Modules -> ProposalModule(Letterings)]
        /\ s.total_proposal_module_count \in Nat /\ s.active_proposal_module_count \in Nat
    BY DEF StoreInv, StoreWith
  <1>2. derive_proposal_module_prefix(s.total_proposal_module_count) \in Letterings
    BY <1>1, Zenon DEF Letterings
  <1>3. module \in ProposalModule(Letterings) /\ module.status = "enabled"
    <2> HIDE DEF derive_proposal_module_prefix
    <2> QED BY <1>2 DEF ProposalModule
  <1>4. t = [s EXCEPT !.proposal_modules = mods,
                      !.active_proposal_module_count = s.active_proposal_module_count + 1,
                      !.total_proposal_module_count = s.total_proposal_module_count + 1]
    <2>1. s \in StoreWith(Letterings)
      BY DEF StoreInv
    <2> QED BY <2>1 DEF StoreWith, reply_proposal_module
  <1> HIDE DEF module, t
  <1>5. /\ mods \in [Modules -> ProposalModule(Letterings)]
        /\ mods[addr] = module
        /\ \A m \in Modules : m # addr => mods[m] = s.proposal_modules[m]
    BY <1>1, <1>3
  <1> HIDE DEF mods
  <1>6. /\ t \in StoreWith(Letterings)
        /\ t.proposal_modules = mods
        /\ t.active_proposal_module_count = s.active_proposal_module_count + 1
        /\ t.total_proposal_module_count = s.total_proposal_module_count + 1
        /\ NominationIsAdminsIn(t)
    <2>1. s \in StoreWith(Letterings) /\ NominationIsAdminsIn(s)
      BY DEF StoreInv
    <2>2. /\ t.proposal_modules = mods
          /\ t.active_proposal_module_count = s.active_proposal_module_count + 1
          /\ t.total_proposal_module_count = s.total_proposal_module_count + 1
          /\ t.nominated_admin = s.nominated_admin /\ t.nominator = s.nominator
          /\ t.admin = s.admin
      BY <1>4, <2>1 DEF StoreWith
    <2>3. t \in StoreWith(Letterings)
      <3> DEFINE active == s.active_proposal_module_count + 1
                 total == s.total_proposal_module_count + 1
      <3>1. active \in Nat /\ total \in Nat
        BY <1>1
      <3>2. t = [s EXCEPT !.proposal_modules = mods, !.active_proposal_module_count = active,
                          !.total_proposal_module_count = total]
        BY <1>4
      <3> HIDE DEF active, total
      <3> QED BY <1>5, <2>1, <3>1, <3>2 DEF StoreWith
    <2> QED BY <2>1, <2>2, <2>3 DEF NominationIsAdminsIn
  <1>7. Enabled(t) = Enabled(s) \cup {addr} /\ addr \notin Enabled(s)
    BY <1>3, <1>5, <1>6 DEF Enabled, Registered
  <1>8. Registered(t) = Registered(s) \cup {addr} /\ addr \notin Registered(s)
    BY <1>3, <1>5, <1>6 DEF Registered
  <1>9. /\ Cardinality(Enabled(t)) = Cardinality(Enabled(s)) + 1
        /\ Cardinality(Registered(t)) = Cardinality(Registered(s)) + 1
    BY <1>7, <1>8, ModulesFinite, FS_AddElement
  <1>10. CountsMatchIn(t)
    BY <1>6, <1>9 DEF StoreInv, CountsMatchIn
  <1> QED BY <1>6, <1>7, <1>8, <1>10 DEF StoreInv, t

\* A new voting module is installed.
LEMMA InstallVotingModule ==
    ASSUME NEW s, StoreInv(s), NEW addr \in Addr
    PROVE  LET t == [s EXCEPT !.voting_module = addr]
           IN  HandlerOK(s, t) /\ Enabled(t) = Enabled(s)
  <1> DEFINE t == [s EXCEPT !.voting_module = addr]
  <1>1. /\ t \in StoreWith(Letterings)
        /\ t.proposal_modules = s.proposal_modules
        /\ t.active_proposal_module_count = s.active_proposal_module_count
        /\ t.total_proposal_module_count = s.total_proposal_module_count
        /\ NominationIsAdminsIn(t)
    BY DEF StoreInv, StoreWith, NominationIsAdminsIn
  <1> HIDE DEF t
  <1>2. HandlerOK(s, t) /\ Enabled(t) = Enabled(s)
    BY <1>1, OtherFields, Zenon
  <1> QED BY <1>2 DEF t

\* What reply leaves: the module is registered, or nothing else has changed.
LEMMA ReplyKeepsStore ==
    ASSUME NEW s, StoreInv(s), NEW f, FrameInv(f), f.reply_on = "success",
           Registers(f) => f.to \in Modules \ Registered(s),
           NEW t \in reply(s, f.reply_id, f.to)
    PROVE  /\ StoreInv(t)
           /\ Registers(f) => Enabled(t) # {} /\ Registered(t) = Registered(s) \cup {f.to}
           /\ ~Registers(f) => Enabled(t) = Enabled(s) /\ Registered(t) = Registered(s)
  <1>1. f.reply_id \in 0 .. 2 /\ f.to \in Addr
    BY DEF FrameInv, FrameShape
  <1>2. CASE f.reply_id = 0
    <2>1. Registers(f) /\ t = reply_proposal_module(s, f.to)
      BY <1>2 DEF Registers, PROPOSAL_MODULE_REPLY_ID, reply, Ok,
         VOTE_MODULE_INSTANTIATE_REPLY_ID, VOTE_MODULE_UPDATE_REPLY_ID
    <2> HIDE DEF Registers
    <2>2. StoreInv(t) /\ f.to \in Enabled(t) /\ Registered(t) = Registered(s) \cup {f.to}
      BY <2>1, RegisterModule
    <2> QED BY <2>1, <2>2
  <1>3. CASE f.reply_id # 0
    <2>1. ~Registers(f) /\ t = [s EXCEPT !.voting_module = f.to]
      BY <1>1, <1>3 DEF Registers, PROPOSAL_MODULE_REPLY_ID, reply, Ok,
         VOTE_MODULE_INSTANTIATE_REPLY_ID, VOTE_MODULE_UPDATE_REPLY_ID
    <2>2. HandlerOK(s, t) /\ Enabled(t) = Enabled(s)
      BY <1>1, <2>1, InstallVotingModule
    <2> QED BY <2>1, <2>2 DEF HandlerOK
  <1> QED BY <1>2, <1>3

\* The callbacks of a new module are messages like any others.
LEMMA CallbackType ==
    ASSUME NEW id, NEW msgs \in CallbackLists(id)
    PROVE  MsgsInv(msgs)
  <1>1. msgs \in Seq(DaoMsgs)
    <2>1. <<>> \in Seq(DaoMsgs)
      OBVIOUS
    <2>2. msgs = <<>> \/ msgs \in Callbacks
      BY DEF CallbackLists
    <2> QED BY <2>1, <2>2, MsgAssumption DEF MsgAssumption
  <1>2. \A m \in DaoMsgs : m \in SubMsg /\ MsgInv(m)
    BY AddrAssumption DEF AddrAssumption, DaoMsgs, MsgInv, SubMsg, Peer
  <1> QED BY <1>1, <1>2 DEF MsgsInv

\* A call ends well.
LEMMA ReturnKeepsInv ==
    ASSUME IInv, Return
    PROVE  IInv'
  <1> DEFINE n == Len(stack)
             fr == Front(stack)
  <1>1. /\ stack # <<>> /\ StoreInv(store) /\ StackInv(stack) /\ NewModules(stack, store)
        /\ RootInv(stack) /\ Promised(stack, store) /\ Top.pending = <<>>
        /\ height \in Nat /\ height' = height
    BY DEF IInv, Return, Running
  <1>2. Top = stack[n] /\ FrameInv(Top) /\ n \in DOMAIN stack /\ n \in Nat \ {0}
    BY <1>1, TopInv DEF Top
  <1>3. /\ StackInv(fr) /\ RootInv(fr)
        /\ DOMAIN fr = 1 .. n - 1 /\ Len(fr) = n - 1
        /\ \A k \in DOMAIN fr : k \in DOMAIN stack /\ k # n /\ fr[k] = stack[k]
        /\ \A k \in DOMAIN stack : k = n \/ k \in DOMAIN fr
        /\ n > 1 => fr # <<>>
    BY <1>1, Pop
  <1>4. ~Promise(Top.pending)
    BY <1>1, NoMsgs
  <1> HIDE DEF n, fr
  <1>5. CASE Top.reply_on = "success"
    <2>1. PICK msgs \in CallbackLists(Top.reply_id) :
              stack' = [fr EXCEPT ![n - 1].pending = msgs \o @]
      BY <1>5 DEF Return, n, fr
    <2>2. store' \in reply(store, Top.reply_id, Top.to)
      BY <1>5 DEF Return
    <2>3. Registers(Top) => /\ Top.to \in Modules \ Registered(store)
                            /\ \A k \in DOMAIN fr : Registers(fr[k]) => fr[k].to # Top.to
      BY <1>1, <1>2, <1>3 DEF NewModules
    <2>4. /\ StoreInv(store')
          /\ Registers(Top) => /\ Enabled(store') # {}
                               /\ Registered(store') = Registered(store) \cup {Top.to}
          /\ ~Registers(Top) => /\ Enabled(store') = Enabled(store)
                                /\ Registered(store') = Registered(store)
      BY <1>1, <1>2, <1>5, <2>2, <2>3, ReplyKeepsStore
    <2>5. n > 1
      <3>1. n # 1
        BY <1>1, <1>2, <1>5 DEF RootInv
      <3> QED BY <1>2, <3>1
    <2>6. n - 1 \in DOMAIN fr /\ fr # <<>> /\ FrameInv(fr[n - 1]) /\ fr \in Seq(FrameShape)
      BY <1>2, <1>3, <2>5 DEF StackInv
    <2>7. fr[n - 1].called
      <3>1. n - 1 \in DOMAIN stack /\ n - 1 # Len(stack) /\ fr[n - 1] = stack[n - 1]
        BY <1>3, <2>6 DEF n
      <3> QED BY <1>1, <3>1 DEF StackInv
    <2> DEFINE rest == fr[n - 1].pending
               all == msgs \o rest
               g == [fr[n - 1] EXCEPT !.pending = all, !.called = TRUE]
    <2>8. MsgsInv(rest)
      BY <2>6 DEF FrameInv
    <2>9. MsgsInv(all) /\ (Promise(rest) => Promise(all))
      BY <2>8, CallbackType, MsgsConcat
    <2> HIDE DEF all
    <2>10. FrameInv(g) /\ SameCall(g, fr[n - 1]) /\ g.pending = all
      <3> DEFINE top == fr[Len(fr)]
                 h == [top EXCEPT !.pending = all, !.called = TRUE]
      <3>1. FrameInv(h) /\ SameCall(h, top) /\ h.pending = all
        BY <1>3, <2>6, <2>9, SetPending
      <3>2. top = fr[n - 1]
        BY <1>3
      <3> QED BY <3>1, <3>2
    <2>11. stack' = [fr EXCEPT ![n - 1] = g]
      <3>1. g = [fr[n - 1] EXCEPT !.pending = all]
        BY <2>6, <2>7 DEF FrameInv, FrameShape
      <3>2. stack' = [fr EXCEPT ![n - 1].pending = all]
        BY <2>1, <2>6 DEF all
      <3> QED BY <2>6, <3>1, <3>2
    <2> HIDE DEF g
    <2>12. SameCall(g, fr[Len(fr)]) /\ stack' = [fr EXCEPT ![Len(fr)] = g]
      BY <1>3, <2>10, <2>11
    <2>13. /\ StackInv(stack') /\ DOMAIN stack' = DOMAIN fr
           /\ \A k \in DOMAIN fr : k # Len(fr) => stack'[k] = fr[k]
           /\ stack'[Len(fr)] = g
           /\ \A k \in DOMAIN fr : SameCall(stack'[k], fr[k])
           /\ RootInv(fr) => RootInv(stack')
      BY <1>3, <2>6, <2>10, <2>12, Replace, Zenon
    <2>14. NewModules(stack', store')
      <3>1. \A k \in DOMAIN fr : Registers(stack'[k]) <=> Registers(stack[k])
        BY <1>3, <2>13 DEF SameCall, Registers
      <3>2. \A k \in DOMAIN fr : stack'[k].to = stack[k].to /\ fr[k] = stack[k]
        BY <1>3, <2>13 DEF SameCall
      <3>3. \A k \in DOMAIN fr : Registers(stack[k]) => stack[k].to \notin Registered(store')
        BY <1>1, <1>3, <2>3, <2>4 DEF NewModules
      <3>4. \A k \in DOMAIN fr : Registers(stack[k]) =>
                /\ stack[k].to \in Modules
                /\ \A l \in DOMAIN fr : Registers(stack[l]) /\ l # k => stack[l].to # stack[k].to
        BY <1>1, <1>3 DEF NewModules
      <3> QED BY <2>13, <3>1, <3>2, <3>3, <3>4 DEF NewModules
    <2>15. Promised(stack', store')
      <3>1. CASE Registers(Top)
        BY <2>4, <3>1 DEF Promised
      <3>2. CASE ~Registers(Top)
        <4>1. CASE Enabled(store) # {}
          BY <2>4, <3>2, <4>1 DEF Promised
        <4>2. ASSUME NEW k \in DOMAIN fr, Registers(fr[k])
              PROVE  Promised(stack', store')
          <5>1. Registers(stack'[k])
            BY <2>13, <4>2 DEF SameCall, Registers
          <5> QED BY <2>13, <4>2, <5>1, Zenon DEF Promised
        <4>3. ASSUME NEW k \in DOMAIN fr, Promise(fr[k].pending)
              PROVE  Promised(stack', store')
          <5>1. Promise(stack'[k].pending)
            BY <1>3, <2>9, <2>10, <2>13, <4>3
          <5> QED BY <2>13, <4>3, <5>1, Zenon DEF Promised
        <4>4. Enabled(store) # {} \/ \E k \in DOMAIN fr : Registers(fr[k]) \/ Promise(fr[k].pending)
          BY <1>1, <1>2, <1>3, <1>4, <3>2 DEF Promised
        <4> QED BY <4>1, <4>2, <4>3, <4>4
      <3> QED BY <3>1, <3>2
    <2> QED BY <1>1, <1>3, <2>4, <2>13, <2>14, <2>15 DEF IInv
  <1>6. CASE Top.reply_on # "success"
    <2>1. stack' = fr /\ store' = store /\ ~Registers(Top)
      BY <1>6 DEF Return, fr, Registers
    <2>2. NewModules(fr, store)
      BY <1>1, <1>3 DEF NewModules
    <2>3. Promised(fr, store)
      BY <1>1, <1>2, <1>3, <1>4, <2>1 DEF Promised
    <2> QED BY <1>1, <1>3, <2>1, <2>2, <2>3 DEF IInv
  <1> QED BY <1>5, <1>6

----------------------------------------------------------------------------
(* The invariant holds in every reachable state *)

\* The invariant holds while instantiate's first message is pending.
LEMMA InitIInv == Init => IInv
  <1> SUFFICES ASSUME Init PROVE IInv
    OBVIOUS
  <1> DEFINE voting == InstantiateMsg(VOTE_MODULE_INSTANTIATE_REPLY_ID)
             new == InstantiateMsg(PROPOSAL_MODULE_REPLY_ID)
  <1>1. PICK admin \in Admins, config \in Configs, items \in SUBSET Keys,
             n \in 1 .. MaxInitial :
            /\ store = [admin |-> admin, nominated_admin |-> NoAddr, nominator |-> NoAddr,
                       config |-> config, paused |-> 0, voting_module |-> NoAddr,
                       proposal_modules |-> [m \in Modules |-> Absent],
                       active_proposal_module_count |-> 0,
                       total_proposal_module_count |-> 0,
                       items |-> items, cw20_list |-> {}, cw721_list |-> {},
                       subdao_list |-> {}]
            /\ stack = <<Frame(Msg(Dao, [kind |-> "tx"]), store,
                               <<voting>> \o [i \in 1 .. n |-> new], TRUE)>>
    BY DEF Init
  <1>2. admin \in Addr /\ config \in Config /\ Dao \in Addr
    BY AddrAssumption, MsgAssumption DEF AddrAssumption, MsgAssumption
  <1>3. /\ store \in StoreWith(Letterings) /\ store.nominated_admin = NoAddr
        /\ store.active_proposal_module_count = 0 /\ store.total_proposal_module_count = 0
        /\ \A m \in Modules : store.proposal_modules[m].status = "absent"
    BY <1>1, <1>2 DEF StoreWith, ProposalModule, Absent, Letterings
  <1>4. StoreInv(store)
    <2>1. Enabled(store) = {} /\ Registered(store) = {}
      BY <1>3 DEF Enabled, Registered
    <2> QED BY <1>3, <2>1, FS_EmptySet DEF StoreInv, CountsMatchIn, NominationIsAdminsIn
  <1>5. /\ MsgInv(voting) /\ MsgInv(new) /\ voting \in SubMsg /\ new \in SubMsg /\ Registers(new)
    BY AddrAssumption
    DEF AddrAssumption, InstantiateMsg, MsgReplyOnSuccess, SubMsg, Body, MsgInv, Registers,
        VOTE_MODULE_INSTANTIATE_REPLY_ID, PROPOSAL_MODULE_REPLY_ID
  <1> HIDE DEF voting, new
  <1> DEFINE news == [i \in 1 .. n |-> new]
             pending == <<voting>> \o news
             f == Frame(Msg(Dao, [kind |-> "tx"]), store, pending, TRUE)
  <1>6. n \in Nat /\ n > 0
    BY BoundAssumption DEF BoundAssumption
  <1>7. MsgsInv(news) /\ Promise(news)
    <2>1. news \in Seq(SubMsg) /\ DOMAIN news = 1 .. n /\ \A i \in 1 .. n : news[i] = new
      BY <1>5, <1>6
    <2>2. 1 \in 1 .. n
      BY <1>6
    <2> HIDE DEF news
    <2> QED BY <1>5, <2>1, <2>2 DEF MsgsInv, Promise
  <1>8. MsgsInv(<<voting>>)
    BY <1>5 DEF MsgsInv
  <1> HIDE DEF news
  <1>9. MsgsInv(pending) /\ Promise(pending)
    BY <1>7, <1>8, MsgsConcat
  <1>10. stack = <<f>>
    BY <1>1 DEF news
  <1> HIDE DEF pending
  <1>11. /\ f \in FrameShape /\ f.reply_on = "never" /\ f.to = Dao /\ f.called
         /\ f.pending = pending /\ f.saved = store
    BY <1>2, <1>4, <1>9
    DEF Frame, Msg, NoReply, FrameShape, StoreInv, MsgsInv, Body
  <1>12. FrameInv(f)
    BY <1>4, <1>9, <1>11 DEF FrameInv
  <1> HIDE DEF f
  <1>13. DOMAIN stack = {1} /\ stack[1] = f /\ stack \in Seq(FrameShape)
    BY <1>10, <1>11
  <1>14. StackInv(stack) /\ RootInv(stack) /\ NewModules(stack, store)
    BY <1>11, <1>12, <1>13 DEF StackInv, RootInv, NewModules, Registers
  <1>15. Promised(stack, store)
    BY <1>9, <1>11, <1>13 DEF Promised
  <1>16. height \in Nat
    BY DEF Init
  <1> QED BY <1>4, <1>14, <1>15, <1>16 DEF IInv

\* Every step keeps the invariant.
LEMMA NextIInv == IInv /\ [Next]_vars => IInv'
  <1> SUFFICES ASSUME IInv, [Next]_vars PROVE IInv'
    OBVIOUS
  <1>1. ASSUME NEW call \in Calls, Call(call[1], call[2])
        PROVE  IInv'
    <2>1. call[1] \in Peer /\ call[2] \in ExecuteMsg
      BY MsgAssumption DEF MsgAssumption
    <2> QED BY <1>1, <2>1, CallKeepsInv
  <1>2. CASE DispatchSelf
    BY <1>2, DispatchSelfKeepsInv
  <1>3. CASE Dispatch
    BY <1>3, DispatchKeepsInv
  <1>4. CASE Instantiate
    BY <1>4, InstantiateKeepsInv
  <1>5. CASE Return
    BY <1>5, ReturnKeepsInv
  <1>6. CASE Raise
    BY <1>6, AbortKeepsInv DEF Raise, Running
  <1>7. CASE Tick
    BY <1>7 DEF Tick, IInv
  <1>8. CASE UNCHANGED vars
    BY <1>8 DEF vars, IInv
  <1> QED BY <1>1, <1>2, <1>3, <1>4, <1>5, <1>6, <1>7, <1>8 DEF Next, TransactionStep

\* The invariant holds in every reachable state.
LEMMA InvariantHolds == Spec => []IInv
  BY InitIInv, NextIInv, PTL DEF Spec

\* ACTIVE_PROPOSAL_MODULE_COUNT and TOTAL_PROPOSAL_MODULE_COUNT are the numbers of
\* enabled and of registered modules after every handler, reply and rollback.
THEOREM CountsCorrect == Spec => []CountsMatch
  <1>1. IInv => CountsMatch
    BY DEF IInv, StoreInv, CountsMatchIn, CountsMatch
  <1> QED BY <1>1, InvariantHolds, PTL

\* No sequence of proposals, callbacks and failures leaves a DAO without an
\* enabled proposal module at the end of a transaction.
THEOREM AlwaysGovernable == Spec => []NeverLockedOut
  <1>1. IInv => NeverLockedOut
    BY DEF IInv, Promised, NeverLockedOut
  <1> QED BY <1>1, InvariantHolds, PTL

\* A pending nomination was made by the present admin.
THEOREM NominationsCorrect == Spec => []NominationIsAdmins
  <1>1. IInv => NominationIsAdmins
    BY DEF IInv, StoreInv, NominationIsAdminsIn, NominationIsAdmins
  <1> QED BY <1>1, InvariantHolds, PTL

\* While the DAO is paused and is its own admin, no call from outside, not even of
\* an enabled module or of a token contract, gets past the gate.
THEOREM PauseFreezes == Spec => FrozenWhilePaused
  <1>1. ASSUME [Next]_vars, stack = <<>>, Paused(store), store.admin = Dao
        PROVE  UNCHANGED store
    <2>1. ~Running
      BY <1>1 DEF Running
    <2>2. ASSUME NEW call \in Calls, Call(call[1], call[2])
          PROVE  FALSE
      <3>1. call[1] # Dao
        BY MsgAssumption DEF MsgAssumption, Peer
      <3>2. ~gate(store, call[1], call[2])
        BY <1>1, <3>1 DEF gate
      <3> QED BY <2>2, <3>2 DEF Call, execute
    <2>3. ~TransactionStep
      BY <2>1 DEF TransactionStep, DispatchSelf, Dispatch, Instantiate, Return, Raise
    <2> QED BY <1>1, <2>2, <2>3 DEF Next, Tick, vars
  <1>2. [Next]_vars =>
            [(stack = <<>> /\ Paused(store) /\ store.admin = Dao) => UNCHANGED store]_vars
    BY <1>1
  <1> QED BY <1>2, PTL DEF Spec, FrozenWhilePaused

----------------------------------------------------------------------------
(* What a step does to the storage and to the root of the transaction *)

\* A handler or a reply, or nothing.
Changes(s, t) ==
    \/ t = s
    \/ \E sender \in Addr, c \in ExecuteMsg : t \in execute(s, sender, c)
    \/ \E f : /\ FrameInv(f) /\ f.reply_on = "success"
              /\ Registers(f) => f.to \in Modules \ Registered(s)
              /\ t \in reply(s, f.reply_id, f.to)

\* The transaction is undone.
Undone == stack # <<>> /\ stack' = <<>> /\ store' = stack[1].saved

\* The transaction goes on, with the same root.
GoesOn ==
    /\ stack # <<>> /\ stack' # <<>> /\ Changes(store, store')
    /\ stack'[1].saved = stack[1].saved /\ stack'[1].to = stack[1].to

\* A transaction starts with a call.
Starts ==
    /\ stack = <<>> /\ stack' # <<>> /\ stack'[1].saved = store
    /\ Changes(store, store')

\* No transaction is left, and the storage stays.
Rests == stack' = <<>> /\ store' = store

\* A call of sender.
LEMMA CallShape ==
    ASSUME IInv, NEW sender \in Peer, NEW c \in ExecuteMsg, Call(sender, c)
    PROVE  Starts \/ GoesOn
  <1>1. store' \in execute(store, sender, c) /\ Respond(sender, Messages(c)) /\ sender \in Addr
    BY DEF Call, Peer
  <1>2. Changes(store, store')
    BY <1>1 DEF Changes
  <1>3. CASE stack = <<>>
    <2> DEFINE f == Frame(Msg(sender, [kind |-> "tx"]), store, Messages(c), TRUE)
    <2>1. stack' = <<f>>
      BY <1>1, <1>3 DEF Respond
    <2>2. f.saved = store
      BY DEF Frame
    <2> HIDE DEF f
    <2>3. stack'[1] = f /\ stack' # <<>>
      BY <2>1
    <2> QED BY <1>2, <1>3, <2>2, <2>3 DEF Starts
  <1>4. CASE stack # <<>>
    <2>1. /\ stack \in Seq(FrameShape) /\ Len(stack) \in Nat \ {0} /\ DOMAIN stack = 1 .. Len(stack)
          /\ 1 \in DOMAIN stack
      BY <1>4, TopInv DEF IInv
    <2>2. stack' = [stack EXCEPT ![Len(stack)].pending = Messages(c),
                                 ![Len(stack)].called = TRUE]
      BY <1>1, <1>4 DEF Respond
    <2>3. DOMAIN stack' = DOMAIN stack /\ stack' # <<>>
      BY <2>1, <2>2
    <2>4. stack[1] \in FrameShape
      BY <2>1
    <2>5. stack'[1].saved = stack[1].saved /\ stack'[1].to = stack[1].to
      BY <2>1, <2>2, <2>4 DEF FrameShape
    <2> QED BY <1>2, <1>4, <2>3, <2>5 DEF GoesOn
  <1> QED BY <1>3, <1>4

\* The next message is taken from the topmost call.
LEMMA PendingShape ==
    ASSUME IInv, stack # <<>>, NEW msgs
    PROVE  LET st == [stack EXCEPT ![Len(stack)].pending = msgs]
           IN  /\ DOMAIN st = DOMAIN stack /\ st # <<>>
               /\ st[1].saved = stack[1].saved /\ st[1].to = stack[1].to
  <1>1. /\ stack \in Seq(FrameShape) /\ Len(stack) \in Nat \ {0} /\ DOMAIN stack = 1 .. Len(stack)
        /\ 1 \in DOMAIN stack
    BY TopInv DEF IInv
  <1>2. stack[1] \in FrameShape
    BY <1>1
  <1> DEFINE st == [stack EXCEPT ![Len(stack)].pending = msgs]
  <1>3. st[1] = stack[1] \/ st[1] = [stack[1] EXCEPT !.pending = msgs]
    BY <1>1
  <1>4. DOMAIN st = DOMAIN stack
    OBVIOUS
  <1> HIDE DEF st
  <1>5. st[1].saved = stack[1].saved /\ st[1].to = stack[1].to
    BY <1>2, <1>3 DEF FrameShape
  <1>6. st # <<>>
    BY <1>1, <1>4
  <1> QED BY <1>4, <1>5, <1>6 DEF st

\* A message becomes a call.
LEMMA PushShape ==
    ASSUME IInv, Running, Top.pending # <<>>, NEW f,
           stack' = Append(Advance(stack), f), store' = store
    PROVE  GoesOn
  <1> DEFINE st == Advance(stack)
             S == FrameShape \cup {f}
  <1>1. stack # <<>> /\ Top = stack[Len(stack)] /\ MsgsInv(Tail(Top.pending))
    BY NextMsgInv DEF Running
  <1>2. st = [stack EXCEPT ![Len(stack)].pending = Tail(Top.pending)]
    BY <1>1 DEF Advance
  <1> HIDE DEF st
  <1>3. StackInv(st) /\ st # <<>>
    BY <1>1, <1>2, PendingReplaced
  <1>4. st[1].saved = stack[1].saved /\ st[1].to = stack[1].to
    BY <1>1, <1>2, PendingShape
  <1>5. st \in Seq(S) /\ f \in S /\ Len(st) \in Nat \ {0}
    BY <1>3, TopInv
  <1> HIDE DEF S
  <1>6. Append(st, f)[1] = st[1] /\ Append(st, f) # <<>>
    BY <1>5
  <1>7. stack' = Append(st, f)
    BY DEF st
  <1> QED BY <1>1, <1>4, <1>6, <1>7 DEF GoesOn, Changes

\* A call ends well.
LEMMA ReturnShape ==
    ASSUME IInv, Return
    PROVE  GoesOn \/ Rests
  <1> DEFINE n == Len(stack)
             fr == Front(stack)
  <1>1. /\ stack # <<>> /\ StackInv(stack) /\ NewModules(stack, store) /\ RootInv(stack)
    BY DEF IInv, Return, Running
  <1>2. Top = stack[n] /\ FrameInv(Top) /\ n \in DOMAIN stack /\ n \in Nat \ {0}
    BY <1>1, TopInv DEF Top
  <1>3. /\ StackInv(fr) /\ DOMAIN fr = 1 .. n - 1 /\ Len(fr) = n - 1
        /\ \A k \in DOMAIN fr : fr[k] = stack[k]
        /\ n > 1 => fr # <<>>
    BY <1>1, Pop
  <1> HIDE DEF n, fr
  <1>4. CASE Top.reply_on = "success"
    <2>1. PICK msgs \in CallbackLists(Top.reply_id) :
              stack' = [fr EXCEPT ![n - 1].pending = msgs \o @]
      BY <1>4 DEF Return, n, fr
    <2>2. store' \in reply(store, Top.reply_id, Top.to)
      BY <1>4 DEF Return
    <2>3. Registers(Top) => Top.to \in Modules \ Registered(store)
      BY <1>1, <1>2 DEF NewModules
    <2>4. Changes(store, store')
      BY <1>2, <1>4, <2>2, <2>3 DEF Changes
    <2>5. n > 1
      <3>1. n # 1
        BY <1>1, <1>2, <1>4 DEF RootInv
      <3> QED BY <1>2, <3>1
    <2>6. 1 \in DOMAIN fr /\ fr \in Seq(FrameShape) /\ fr # <<>> /\ fr[1] = stack[1]
      BY <1>2, <1>3, <2>5 DEF StackInv
    <2>7. fr[1] \in FrameShape /\ DOMAIN stack' = DOMAIN fr
      BY <2>1, <2>6
    <2>8. stack'[1].saved = fr[1].saved /\ stack'[1].to = fr[1].to
      BY <2>1, <2>6, <2>7 DEF FrameShape
    <2>9. stack' # <<>>
      BY <2>6, <2>7
    <2> QED BY <1>1, <2>4, <2>6, <2>8, <2>9 DEF GoesOn
  <1>5. CASE Top.reply_on # "success"
    <2>1. stack' = fr /\ store' = store
      BY <1>5 DEF Return, fr
    <2>2. CASE n = 1
      <3>1. fr = <<>>
        BY <1>3, <2>2 DEF StackInv
      <3> QED BY <2>1, <3>1 DEF Rests
    <2>3. CASE n > 1
      <3>1. 1 \in DOMAIN fr
        BY <1>2, <1>3, <2>3
      <3> QED BY <1>1, <1>3, <2>1, <2>3, <3>1 DEF GoesOn, Changes
    <2> QED BY <1>2, <2>2, <2>3
  <1> QED BY <1>4, <1>5

\* Every step starts a transaction, goes on with it, ends it or undoes it, or is
\* outside of transactions.
LEMMA StepShape ==
    ASSUME IInv, [Next]_vars
    PROVE  Starts \/ GoesOn \/ Rests \/ Undone
  <1>1. ASSUME NEW call \in Calls, Call(call[1], call[2])
        PROVE  Starts \/ GoesOn
    <2>1. call[1] \in Peer /\ call[2] \in ExecuteMsg
      BY MsgAssumption DEF MsgAssumption
    <2> QED BY <1>1, <2>1, CallShape
  <1>2. CASE DispatchSelf
    <2>1. /\ Running /\ Top.pending # <<>> /\ NextMsg.to = Dao /\ stack # <<>>
      BY <1>2 DEF DispatchSelf, Running
    <2>2. NextMsg.body \in ExecuteMsg /\ Dao \in Addr
      BY <2>1, NextMsgInv, AddrAssumption DEF MsgInv, AddrAssumption
    <2>3. CASE Abort
      BY <2>1, <2>3 DEF Abort, Undone
    <2>4. CASE /\ store' \in execute(store, Dao, NextMsg.body)
               /\ stack' = [stack EXCEPT ![Len(stack)].pending =
                                             Messages(NextMsg.body) \o Tail(@)]
      <3>1. Changes(store, store')
        BY <2>2, <2>4 DEF Changes
      <3> DEFINE msgs == Messages(NextMsg.body) \o Tail(stack[Len(stack)].pending)
      <3>2. stack' = [stack EXCEPT ![Len(stack)].pending = msgs]
        BY <2>4
      <3> HIDE DEF msgs
      <3>3. stack' # <<>> /\ stack'[1].saved = stack[1].saved /\ stack'[1].to = stack[1].to
        BY <2>1, <3>2, PendingShape
      <3> QED BY <2>1, <3>1, <3>3 DEF GoesOn
    <2> QED BY <1>2, <2>3, <2>4 DEF DispatchSelf
  <1>3. CASE Dispatch
    <2>1. Running /\ Top.pending # <<>> /\ store' = store
          /\ stack' = Append(Advance(stack), Frame(NextMsg, store, <<>>, FALSE))
      BY <1>3 DEF Dispatch
    <2> QED BY <2>1, PushShape
  <1>4. CASE Instantiate
    <2>1. Running /\ Top.pending # <<>> /\ store' = store
      BY <1>4 DEF Instantiate
    <2>2. PICK f : stack' = Append(Advance(stack), f)
      BY <1>4 DEF Instantiate
    <2> QED BY <2>1, <2>2, PushShape
  <1>5. CASE Return
    BY <1>5, ReturnShape
  <1>6. CASE Raise
    BY <1>6 DEF Raise, Running, Abort, Undone
  <1>7. CASE Tick
    BY <1>7 DEF Tick, Rests
  <1>8. CASE UNCHANGED vars
    BY <1>8 DEF vars, Rests, GoesOn, Changes
  <1> QED BY <1>1, <1>2, <1>3, <1>4, <1>5, <1>6, <1>7, <1>8 DEF Next, TransactionStep

----------------------------------------------------------------------------
(* Disabled modules *)

\* In t no module of s is forgotten, and what is disabled in s still is.
LaterModules(s, t) ==
    \A m \in Modules :
        /\ s.proposal_modules[m].status = "disabled" => t.proposal_modules[m].status = "disabled"
        /\ s.proposal_modules[m].status = "enabled" => t.proposal_modules[m].status # "absent"

\* All handlers but one leave the modules alone.
LEMMA OtherHandlers ==
    ASSUME NEW s, StoreInv(s), NEW sender \in Addr, NEW c \in ExecuteMsg,
           c.kind # "update_proposal_modules", NEW t \in execute(s, sender, c)
    PROVE  /\ t.total_proposal_module_count = s.total_proposal_module_count
           /\ \A m \in Modules : t.proposal_modules[m] = s.proposal_modules[m]
  <1>1. s \in StoreWith(Letterings)
    BY DEF StoreInv
  <1> USE DEF StoreWith, Ok
  <1>2. CASE c.kind \in {"nominate_admin", "accept_admin_nomination",
                         "withdraw_admin_nomination"}
    BY <1>1, <1>2
    DEF execute, execute_nominate_admin, execute_accept_admin_nomination,
        execute_withdraw_admin_nomination
  <1>3. CASE c.kind \in {"execute_admin_msgs", "execute_proposal_hook", "pause", "unpause",
                         "update_config", "update_voting_module"}
    BY <1>1, <1>3
    DEF execute, execute_pause, execute_unpause, execute_admin_msgs, execute_proposal_hook,
        execute_update_config, execute_update_voting_module
  <1>4. CASE c.kind \in {"receive", "receive_nft", "remove_item", "set_item"}
    BY <1>1, <1>4
    DEF execute, execute_receive_cw20, execute_receive_cw721, execute_set_item,
        execute_remove_item
  <1>5. CASE c.kind \in {"update_cw20_list", "update_cw721_list", "update_sub_daos"}
    BY <1>1, <1>5
    DEF execute, execute_update_cw20_list, execute_update_cw721_list,
        execute_update_sub_daos_list
  <1> QED BY <1>2, <1>3, <1>4, <1>5, ExecuteMsgFields

\* A handler only disables modules.
LEMMA ExecuteLater ==
    ASSUME NEW s, StoreInv(s), NEW sender \in Addr, height \in Nat, NEW c \in ExecuteMsg,
           NEW t \in execute(s, sender, c)
    PROVE  LaterModules(s, t)
  <1>1. s \in StoreWith(Letterings)
    BY DEF StoreInv
  <1>2. CASE c.kind = "update_proposal_modules"
    <2> DEFINE D == Range(c.to_disable)
               mods == [m \in Modules |->
                            IF m \in D THEN [s.proposal_modules[m] EXCEPT !.status = "disabled"]
                            ELSE s.proposal_modules[m]]
               n == s.active_proposal_module_count - Len(c.to_disable)
    <2>1. t \in execute_update_proposal_modules(s, sender, c.to_add, c.to_disable)
      BY <1>2 DEF execute
    <2>2. t = [s EXCEPT !.proposal_modules = mods, !.active_proposal_module_count = n]
      BY <2>1 DEF execute_update_proposal_modules, Ok
    <2>3. \A m \in Modules : mods[m].status \in {"disabled", s.proposal_modules[m].status}
      BY <1>1 DEF StoreWith, ProposalModule
    <2> HIDE DEF mods, n
    <2>4. t.proposal_modules = mods
      BY <1>1, <2>2 DEF StoreWith
    <2> QED BY <2>3, <2>4 DEF LaterModules
  <1>3. CASE c.kind # "update_proposal_modules"
    <2>1. \A m \in Modules : t.proposal_modules[m] = s.proposal_modules[m]
      BY <1>3, OtherHandlers
    <2> QED BY <2>1 DEF LaterModules
  <1> QED BY <1>2, <1>3

\* A reply only enables a module that was never registered.
LEMMA ReplyLater ==
    ASSUME NEW s, StoreInv(s), NEW f, FrameInv(f), f.reply_on = "success",
           Registers(f) => f.to \in Modules \ Registered(s),
           NEW t \in reply(s, f.reply_id, f.to)
    PROVE  LaterModules(s, t)
  <1>1. f.reply_id \in 0 .. 2 /\ f.to \in Addr /\ s \in StoreWith(Letterings)
    BY DEF FrameInv, FrameShape, StoreInv
  <1>2. CASE f.reply_id = 0
    <2>1. Registers(f) /\ t = reply_proposal_module(s, f.to)
      BY <1>2 DEF Registers, PROPOSAL_MODULE_REPLY_ID, reply, Ok,
         VOTE_MODULE_INSTANTIATE_REPLY_ID, VOTE_MODULE_UPDATE_REPLY_ID
    <2> HIDE DEF Registers
    <2>2. f.to \in Modules /\ s.proposal_modules[f.to].status = "absent"
      BY <2>1 DEF Registered
    <2> HIDE DEF derive_proposal_module_prefix
    <2>3. \A m \in Modules : m # f.to => t.proposal_modules[m] = s.proposal_modules[m]
      BY <1>1, <2>1, <2>2 DEF StoreWith, reply_proposal_module
    <2> QED BY <2>2, <2>3 DEF LaterModules
  <1>3. CASE f.reply_id # 0
    <2>1. t = [s EXCEPT !.voting_module = f.to]
      BY <1>1, <1>3 DEF PROPOSAL_MODULE_REPLY_ID, reply, Ok,
         VOTE_MODULE_INSTANTIATE_REPLY_ID, VOTE_MODULE_UPDATE_REPLY_ID
    <2>2. t.proposal_modules = s.proposal_modules
      BY <1>1, <2>1 DEF StoreWith
    <2> QED BY <2>2 DEF LaterModules
  <1> QED BY <1>2, <1>3

\* Nothing that happens in a transaction enables a disabled module.
LEMMA ChangesLater ==
    ASSUME NEW s, StoreInv(s), height \in Nat, NEW t, Changes(s, t)
    PROVE  LaterModules(s, t)
  <1>1. CASE t = s
    BY <1>1 DEF LaterModules
  <1>2. ASSUME NEW sender \in Addr, NEW c \in ExecuteMsg, t \in execute(s, sender, c)
        PROVE  LaterModules(s, t)
    BY <1>2, ExecuteLater
  <1>3. ASSUME NEW f, FrameInv(f), f.reply_on = "success",
               Registers(f) => f.to \in Modules \ Registered(s),
               t \in reply(s, f.reply_id, f.to)
        PROVE  LaterModules(s, t)
    BY <1>3, ReplyLater
  <1> QED BY <1>1, <1>2, <1>3 DEF Changes

\* The storage while a transaction runs is later than the one it started from.
LaterInv == stack # <<>> => LaterModules(stack[1].saved, store)

\* The modules' statuses have no other values.
LEMMA LaterTransitive ==
    ASSUME NEW r, NEW s, NEW t, StoreInv(s), LaterModules(r, s), LaterModules(s, t)
    PROVE  LaterModules(r, t)
  <1>1. \A m \in Modules : s.proposal_modules[m].status \in {"absent", "enabled", "disabled"}
    BY DEF StoreInv, StoreWith, ProposalModule
  <1> QED BY <1>1 DEF LaterModules

\* A step keeps LaterInv, and what is committed afterwards is later than what was
\* before.
LEMMA NextLater ==
    ASSUME IInv, LaterInv, [Next]_vars
    PROVE  LaterInv' /\ LaterModules(Committed, Committed')
  <1>1. StoreInv(store) /\ height \in Nat
    BY DEF IInv
  <1>2. \A s : LaterModules(s, s)
    BY DEF LaterModules
  <1>3. CASE Starts
    <2>1. LaterModules(store, store') /\ stack'[1].saved = store /\ stack = <<>> /\ stack' # <<>>
      BY <1>1, <1>3, ChangesLater DEF Starts
    <2> QED BY <1>2, <2>1 DEF LaterInv, Committed
  <1>4. CASE GoesOn
    <2>1. /\ LaterModules(store, store') /\ stack'[1].saved = stack[1].saved
          /\ stack # <<>> /\ stack' # <<>>
      BY <1>1, <1>4, ChangesLater DEF GoesOn
    <2>2. LaterModules(stack[1].saved, store')
      BY <1>1, <2>1, LaterTransitive DEF LaterInv
    <2> QED BY <1>2, <2>1, <2>2 DEF LaterInv, Committed
  <1>5. CASE Rests
    BY <1>2, <1>5 DEF Rests, LaterInv, Committed
  <1>6. CASE Undone
    BY <1>2, <1>6 DEF Undone, LaterInv, Committed
  <1> QED BY <1>3, <1>4, <1>5, <1>6, StepShape

\* Whatever the messages of a proposal, the contracts they call and failing
\* transactions do, a disabled proposal module stays disabled and registered.
THEOREM DisabledIsForGood == Spec => DisabledForGood
  <1>1. Init => LaterInv
    <2> SUFFICES ASSUME Init PROVE LaterInv
      OBVIOUS
    <2>1. \E msgs : stack = <<Frame(Msg(Dao, [kind |-> "tx"]), store, msgs, TRUE)>>
      BY DEF Init
    <2>2. stack[1].saved = store
      BY <2>1 DEF Frame
    <2> QED BY <2>2 DEF LaterInv, LaterModules
  <1>2. IInv /\ LaterInv /\ [Next]_vars => LaterInv'
    BY NextLater
  <1>3. IInv /\ LaterInv /\ [Next]_vars =>
            [\A m \in Modules :
                 LET now == Committed.proposal_modules[m].status
                     next == Committed'.proposal_modules[m].status
                 IN  /\ now = "disabled" => next = "disabled"
                     /\ now = "enabled" => next # "absent"]_vars
    <2> SUFFICES ASSUME IInv, LaterInv, [Next]_vars
                 PROVE  \A m \in Modules :
                            LET now == Committed.proposal_modules[m].status
                                next == Committed'.proposal_modules[m].status
                            IN  /\ now = "disabled" => next = "disabled"
                                /\ now = "enabled" => next # "absent"
      OBVIOUS
    <2>1. LaterModules(Committed, Committed')
      BY NextLater
    <2> QED BY <2>1 DEF LaterModules
  <1> QED BY <1>1, <1>2, <1>3, InvariantHolds, PTL DEF Spec, DisabledForGood

----------------------------------------------------------------------------
(* Who changes the settings *)

\* Someone who neither is the admin nor an enabled module can have tokens listed
\* and accept a nomination: no setting changes and no message follows.
LEMMA OthersChangeNothing ==
    ASSUME NEW s, StoreInv(s), NEW sender \in Addr \ {Dao}, sender \notin Governing(s),
           NEW c \in ExecuteMsg, NEW t \in execute(s, sender, c)
    PROVE  Settings(t) = Settings(s) /\ Messages(c) = <<>>
  <1>1. s \in StoreWith(Letterings) /\ sender # Dao /\ sender # s.admin /\ sender \notin Enabled(s)
    BY DEF StoreInv, Governing
  <1>2. CASE c.kind \in {"receive", "receive_nft", "accept_admin_nomination"}
    <2>1. Messages(c) = <<>>
      BY <1>2 DEF Messages
    <2>2. \/ t = s
          \/ \E tokens : \/ t = [s EXCEPT !.cw20_list = tokens]
                         \/ t = [s EXCEPT !.cw721_list = tokens]
          \/ t = [s EXCEPT !.nominated_admin = NoAddr, !.nominator = NoAddr, !.admin = sender]
      BY <1>2 DEF execute, execute_receive_cw20, execute_receive_cw721,
         execute_accept_admin_nomination, Ok
    <2>3. Settings(t) = Settings(s)
      BY <1>1, <2>2 DEF StoreWith, Settings
    <2> QED BY <2>1, <2>3
  <1>3. CASE c.kind \in {"execute_admin_msgs", "execute_proposal_hook", "pause", "unpause",
                         "update_config", "update_voting_module", "nominate_admin",
                         "withdraw_admin_nomination"}
    BY <1>1, <1>3
    DEF execute, Ok, execute_pause, execute_unpause, execute_admin_msgs, execute_proposal_hook,
        execute_update_config, execute_update_voting_module, execute_nominate_admin,
        execute_withdraw_admin_nomination
  <1>4. CASE c.kind \in {"remove_item", "set_item", "update_cw20_list", "update_cw721_list",
                         "update_sub_daos", "update_proposal_modules"}
    BY <1>1, <1>4
    DEF execute, Ok, execute_set_item, execute_remove_item, execute_update_cw20_list,
        execute_update_cw721_list, execute_update_sub_daos_list,
        execute_update_proposal_modules
  <1> QED BY <1>2, <1>3, <1>4, ExecuteMsgFields

\* A transaction started by someone else has nothing more to do.
OthersInv ==
    stack # <<>> /\ stack[1].to # Dao /\ stack[1].to \notin Governing(stack[1].saved) =>
        /\ Len(stack) = 1 /\ stack[1].called /\ stack[1].pending = <<>>
        /\ Settings(store) = Settings(stack[1].saved)

\* Such a transaction only ends.
LEMMA OthersOnlyEnd ==
    ASSUME IInv, OthersInv, [Next]_vars, stack # <<>>, stack[1].to # Dao,
           stack[1].to \notin Governing(stack[1].saved)
    PROVE  Rests \/ Undone \/ UNCHANGED vars
  <1>1. /\ Len(stack) = 1 /\ stack[1].called /\ stack[1].pending = <<>>
        /\ stack[1].reply_on = "never" /\ Top = stack[1] /\ StackInv(stack)
    BY TopInv DEF OthersInv, IInv, RootInv, Top
  <1>2. ASSUME NEW sender, NEW c, Call(sender, c)
        PROVE  FALSE
    BY <1>1, <1>2 DEF Call, Begin
  <1>3. ~DispatchSelf /\ ~Dispatch /\ ~Instantiate
    BY <1>1 DEF DispatchSelf, Dispatch, Instantiate
  <1>4. CASE Return
    <2>1. stack' = Front(stack) /\ store' = store
      BY <1>1, <1>4 DEF Return
    <2>2. DOMAIN Front(stack) = 1 .. 0 /\ StackInv(Front(stack))
      BY <1>1, Pop
    <2>3. Front(stack) = <<>>
      BY <2>2 DEF StackInv
    <2> QED BY <2>1, <2>3 DEF Rests
  <1>5. CASE Raise
    BY <1>5 DEF Raise, Abort, Undone
  <1>6. CASE Tick
    BY <1>6 DEF Tick
  <1> QED BY <1>2, <1>3, <1>4, <1>5, <1>6 DEF Next, TransactionStep

\* The invariant is kept.
LEMMA NextOthers ==
    ASSUME IInv, OthersInv, [Next]_vars
    PROVE  OthersInv'
  <1>1. CASE stack # <<>> /\ stack[1].to # Dao /\ stack[1].to \notin Governing(stack[1].saved)
    BY <1>1, OthersOnlyEnd DEF OthersInv, Rests, Undone, vars
  <1>2. CASE stack # <<>> /\ ~(stack[1].to # Dao /\ stack[1].to \notin Governing(stack[1].saved))
    <2>1. CASE GoesOn
      BY <1>2, <2>1 DEF GoesOn, OthersInv
    <2>2. CASE ~GoesOn
      BY <1>2, <2>2, StepShape DEF Starts, Rests, Undone, OthersInv
    <2> QED BY <2>1, <2>2
  <1>3. CASE stack = <<>>
    <2>1. SUFFICES ASSUME stack' # <<>>, stack'[1].to # Dao,
                          stack'[1].to \notin Governing(stack'[1].saved)
                   PROVE  /\ Len(stack') = 1 /\ stack'[1].called /\ stack'[1].pending = <<>>
                          /\ Settings(store') = Settings(stack'[1].saved)
      BY DEF OthersInv
    <2>2. ~TransactionStep /\ ~Tick /\ ~UNCHANGED vars
      BY <1>3, <2>1
      DEF TransactionStep, DispatchSelf, Dispatch, Instantiate, Return, Raise, Running, Tick, vars
    <2>3. PICK call \in Calls : Call(call[1], call[2])
      BY <2>2 DEF Next
    <2> DEFINE sender == call[1]
               c == call[2]
               f == Frame(Msg(sender, [kind |-> "tx"]), store, Messages(c), TRUE)
    <2>4. sender \in Addr \ {Dao} /\ c \in ExecuteMsg
      BY MsgAssumption DEF MsgAssumption, Peer
    <2>5. store' \in execute(store, sender, c) /\ stack' = <<f>>
      BY <1>3, <2>3 DEF Call, Respond
    <2>6. f.to = sender /\ f.saved = store /\ f.called /\ f.pending = Messages(c)
      BY DEF Frame, Msg
    <2> HIDE DEF sender, c, f
    <2>7. stack'[1] = f /\ Len(stack') = 1
      BY <2>5
    <2>8. sender \notin Governing(store)
      BY <2>1, <2>6, <2>7
    <2>9. Settings(store') = Settings(store) /\ Messages(c) = <<>>
      BY <2>4, <2>5, <2>8, OthersChangeNothing DEF IInv
    <2> QED BY <2>6, <2>7, <2>9
  <1> QED BY <1>1, <1>2, <1>3

\* The settings of a DAO change only in transactions that its admin or an enabled
\* module started, whoever else is called or becomes admin in them.
THEOREM ChangesAreGoverned == Spec => GovernedChange
  <1>1. Init => OthersInv
    <2> SUFFICES ASSUME Init PROVE OthersInv
      OBVIOUS
    <2>1. \E msgs : stack = <<Frame(Msg(Dao, [kind |-> "tx"]), store, msgs, TRUE)>>
      BY DEF Init
    <2>2. stack[1].to = Dao
      BY <2>1 DEF Frame, Msg
    <2> QED BY <2>2 DEF OthersInv
  <1>2. IInv /\ OthersInv /\ [Next]_vars => OthersInv'
    BY NextOthers
  <1>3. IInv /\ OthersInv /\ [Next]_vars =>
            [(/\ Running /\ ~Instantiating /\ stack' = <<>>
              /\ Settings(store') # Settings(stack[1].saved))
                 => stack[1].to \in Governing(stack[1].saved)]_vars
    <2> SUFFICES ASSUME IInv, OthersInv, [Next]_vars, Running, ~Instantiating, stack' = <<>>,
                        stack[1].to \notin Governing(stack[1].saved)
                 PROVE  Settings(store') = Settings(stack[1].saved)
      OBVIOUS
    <2>1. stack # <<>> /\ stack[1].to # Dao
      BY DEF Running, Instantiating
    <2>2. store' = store \/ store' = stack[1].saved
      BY <2>1, OthersOnlyEnd DEF Rests, Undone, vars
    <2> QED BY <2>1, <2>2 DEF OthersInv
  <1> QED BY <1>1, <1>2, <1>3, InvariantHolds, PTL DEF Spec, GovernedChange

----------------------------------------------------------------------------
(* Prefixes: the recursion of derive_proposal_module_prefix ends, and no two
   numbers have the same prefix *)

Digit(d) == (d - 1) % Letters
Rest(d) == (d - Digit(d)) \div Letters

\* A product of a positive integer with another integer is zero or far from zero.
LEMMA ProductGap ==
    ASSUME NEW a \in Nat \ {0}, NEW k \in Int
    PROVE  k >= 1 => a * k >= a
  <1>1. CASE k >= 1
    <2>1. k - 1 \in Nat /\ a * k = a * (k - 1) + a
      BY <1>1
    <2>2. a * (k - 1) \in Nat
      BY <2>1
    <2> QED BY <2>1, <2>2
  <1> QED BY <1>1

\* Quotient and remainder.
LEMMA DivisionRule ==
    ASSUME NEW a \in Nat, NEW b \in Nat \ {0}
    PROVE  a = b * (a \div b) + (a % b) /\ a \div b \in Nat /\ a % b \in 0 .. b - 1
  <1>1. a \div b \in Int /\ a % b \in 0 .. b - 1
    OBVIOUS
  <1>2. a = b * (a \div b) + (a % b)
    OBVIOUS
  <1>3. a \div b \in Nat
    OBVIOUS
  <1> QED BY <1>1, <1>2, <1>3

\* The last letter of a number and the number of what stands before it.
LEMMA Digits ==
    ASSUME NEW d \in Nat \ {0}
    PROVE  /\ Digit(d) \in 0 .. Letters - 1 /\ Rest(d) \in 0 .. d - 1
           /\ d = Letters * Rest(d) + Digit(d) + 1
  <1> DEFINE L == Letters
             r == Digit(d)
             k == (d - 1) \div Letters
             q == Rest(d)
  <1>1. L \in Nat \ {0, 1} /\ d - 1 \in Nat
    BY BoundAssumption DEF BoundAssumption
  <1>2. d - 1 = L * k + r /\ k \in Nat /\ r \in 0 .. L - 1
    BY <1>1, DivisionRule DEF Digit
  <1> HIDE DEF k
  <1>3. d - r = L * k + 1 /\ L * k \in Nat
    BY <1>1, <1>2
  <1>4. L * k + 1 = L * q + ((L * k + 1) % L) /\ q \in Nat /\ (L * k + 1) % L \in 0 .. L - 1
    <2>1. L * k + 1 \in Nat /\ q = (L * k + 1) \div L
      BY <1>3 DEF Rest
    <2> QED BY <1>1, <2>1, DivisionRule
  <1> DEFINE s == (L * k + 1) % L
  <1> HIDE DEF L, r, q, s
  <1>5. L * k + 1 = L * q + s /\ s \in 0 .. L - 1
    BY <1>4 DEF s
  <1>6. L * (k - q) = s - 1 /\ L * (q - k) = 1 - s
    <2> DEFINE X == L * k
               Y == L * q
    <2>1. L * (k - q) = X - Y /\ L * (q - k) = Y - X /\ X \in Int /\ Y \in Int
      BY <1>1, <1>2, <1>4
    <2>2. X + 1 = Y + s /\ s \in Int
      BY <1>5
    <2> HIDE DEF X, Y
    <2> QED BY <2>1, <2>2
  <1>7. ~(k - q >= 1)
    <2>1. k - q >= 1 => L * (k - q) >= L
      BY <1>1, <1>2, <1>4, ProductGap
    <2> DEFINE P == L * (k - q)
    <2>2. P = s - 1 /\ (k - q >= 1 => P >= L)
      BY <1>6, <2>1
    <2> HIDE DEF P
    <2> QED BY <1>1, <1>5, <2>2
  <1>8. ~(q - k >= 1)
    <2>1. q - k >= 1 => L * (q - k) >= L
      BY <1>1, <1>2, <1>4, ProductGap
    <2> DEFINE P == L * (q - k)
    <2>2. P = 1 - s /\ (q - k >= 1 => P >= L)
      BY <1>6, <2>1
    <2> HIDE DEF P
    <2> QED BY <1>1, <1>5, <2>2
  <1>9. k = q
    BY <1>2, <1>4, <1>7, <1>8
  <1>10. d = L * q + r + 1
    <2> DEFINE P == L * k
    <2>1. d - 1 = P + r /\ P \in Nat
      BY <1>2, <1>3
    <2> HIDE DEF P
    <2>2. d = P + r + 1
      BY <1>2, <2>1
    <2> QED BY <1>9, <2>2 DEF P
  <1>11. L * q >= q
    <2>1. L * q = (L - 1) * q + q /\ (L - 1) * q \in Nat
      BY <1>1, <1>4
    <2> QED BY <1>1, <1>4, <2>1
  <1>12. q \in 0 .. d - 1
    <2> DEFINE P == L * q
    <2>1. d = P + r + 1 /\ P >= q /\ P \in Int
      BY <1>1, <1>4, <1>10, <1>11
    <2> HIDE DEF P
    <2> QED BY <1>2, <1>4, <2>1
  <1> QED BY <1>2, <1>10, <1>12 DEF L, r, q

\* g gives the prefixes of the numbers in S.
PrefixMap(g, S) ==
    g = [d \in S |-> IF d = 0 THEN <<>> ELSE Append(g[Rest(d)], Digit(d))]

\* Two such functions agree.
LEMMA PrefixesAgree ==
    ASSUME NEW n \in Nat, NEW m \in Nat, NEW g, NEW h,
           PrefixMap(g, 0 .. n), PrefixMap(h, 0 .. m), NEW d \in 0 .. n, d \in 0 .. m
    PROVE  g[d] = h[d]
  <1> DEFINE C == {e \in 0 .. n : e \in 0 .. m /\ g[e] # h[e]}
  <1>1. SUFFICES ASSUME C # {} PROVE FALSE
    OBVIOUS
  <1>2. C \in SUBSET Nat
    OBVIOUS
  <1> HIDE DEF C
  <1>3. \E e \in C : \A k \in C : e <= k
    BY <1>1, <1>2, LeastNatural
  <1>4. PICK e \in C : \A k \in C : e <= k
    BY <1>3
  <1>5. e \in 0 .. n /\ e \in 0 .. m /\ g[e] # h[e]
    BY DEF C
  <1>6. /\ g[e] = IF e = 0 THEN <<>> ELSE Append(g[Rest(e)], Digit(e))
        /\ h[e] = IF e = 0 THEN <<>> ELSE Append(h[Rest(e)], Digit(e))
    BY <1>5 DEF PrefixMap
  <1>7. e \in Nat \ {0}
    BY <1>5, <1>6
  <1>8. Rest(e) \in 0 .. e - 1
    BY <1>7, Digits
  <1>9. Rest(e) \in 0 .. n /\ Rest(e) \in 0 .. m /\ ~(e <= Rest(e))
    BY <1>5, <1>8
  <1>10. g[Rest(e)] = h[Rest(e)]
    BY <1>4, <1>9 DEF C
  <1> QED BY <1>5, <1>6, <1>7, <1>10

\* They exist up to every number.
LEMMA PrefixesExist ==
    ASSUME NEW n \in Nat
    PROVE  \E g : PrefixMap(g, 0 .. n)
  <1> DEFINE C == {e \in Nat : ~\E g : PrefixMap(g, 0 .. e)}
  <1>1. SUFFICES ASSUME C # {} PROVE FALSE
    OBVIOUS
  <1>2. C \in SUBSET Nat
    OBVIOUS
  <1> HIDE DEF C
  <1>3. \E e \in C : \A k \in C : e <= k
    BY <1>1, <1>2, LeastNatural
  <1>4. PICK e \in C : \A k \in C : e <= k
    BY <1>3
  <1>5. e \in Nat /\ ~\E g : PrefixMap(g, 0 .. e)
    BY DEF C
  <1>6. CASE e = 0
    <2> DEFINE g == [d \in 0 .. e |-> <<>>]
    <2>1. \A d \in 0 .. e : d = 0
      BY <1>6
    <2>2. PrefixMap(g, 0 .. e)
      BY <2>1 DEF PrefixMap
    <2> QED BY <1>5, <2>2
  <1>7. CASE e # 0
    <2>1. e - 1 \in Nat /\ ~(e <= e - 1) /\ e \in Nat \ {0}
      BY <1>5, <1>7
    <2>2. PICK g : PrefixMap(g, 0 .. e - 1)
      BY <1>4, <2>1 DEF C
    <2> DEFINE v == Append(g[Rest(e)], Digit(e))
               h == [d \in 0 .. e |-> IF d = e THEN v ELSE g[d]]
    <2>3. \A d \in 0 .. e : d # e => d \in 0 .. e - 1
      BY <2>1
    <2>4. \A d \in 0 .. e : d # 0 => Rest(d) \in 0 .. e - 1 /\ Rest(d) \in 0 .. e /\ Rest(d) # e
      <3> SUFFICES ASSUME NEW d \in 0 .. e, d # 0
                   PROVE  Rest(d) \in 0 .. e - 1 /\ Rest(d) \in 0 .. e /\ Rest(d) # e
        OBVIOUS
      <3>1. d \in Nat \ {0}
        OBVIOUS
      <3>2. Rest(d) \in 0 .. d - 1
        BY <3>1, Digits
      <3> QED BY <2>1, <3>1, <3>2
    <2>5. ASSUME NEW d \in 0 .. e
          PROVE  h[d] = IF d = 0 THEN <<>> ELSE Append(h[Rest(d)], Digit(d))
      <3>1. CASE d = e
        BY <2>1, <2>4, <3>1
      <3>2. CASE d # e
        <4>1. h[d] = g[d]
          BY <3>2
        <4>2. g[d] = IF d = 0 THEN <<>> ELSE Append(g[Rest(d)], Digit(d))
          BY <2>2, <2>3, <3>2 DEF PrefixMap
        <4>3. d # 0 => h[Rest(d)] = g[Rest(d)]
          BY <2>4
        <4> QED BY <4>1, <4>2, <4>3
      <3> QED BY <3>1, <3>2
    <2>6. h = [d \in 0 .. e |-> h[d]]
      OBVIOUS
    <2> HIDE DEF h
    <2>7. PrefixMap(h, 0 .. e)
      BY <2>5, <2>6 DEF PrefixMap
    <2> QED BY <1>5, <2>7
  <1> QED BY <1>6, <1>7

\* prefix_of is defined by its recursion.
LEMMA PrefixRule ==
    PrefixMap(prefix_of, Nat)
  <1> DEFINE G(d) == CHOOSE g : PrefixMap(g, 0 .. d)
             F == [d \in Nat |-> G(d)[d]]
  <1>1. \A d \in Nat : PrefixMap(G(d), 0 .. d)
    BY PrefixesExist
  <1> HIDE DEF G
  <1>2. ASSUME NEW d \in Nat
        PROVE  F[d] = IF d = 0 THEN <<>> ELSE Append(F[Rest(d)], Digit(d))
    <2>1. F[d] = G(d)[d] /\ d \in 0 .. d
      OBVIOUS
    <2>2. G(d)[d] = IF d = 0 THEN <<>> ELSE Append(G(d)[Rest(d)], Digit(d))
      BY <1>1, <2>1 DEF PrefixMap
    <2>3. CASE d = 0
      BY <2>1, <2>2, <2>3
    <2>4. CASE d # 0
      <3>1. d \in Nat \ {0}
        BY <2>4
      <3>2. Rest(d) \in 0 .. d - 1
        BY <3>1, Digits
      <3> DEFINE e == Rest(d)
      <3> HIDE DEF e
      <3>3. e \in Nat /\ e \in 0 .. d /\ e \in 0 .. e
        BY <3>2 DEF e
      <3>4. PrefixMap(G(d), 0 .. d) /\ PrefixMap(G(e), 0 .. e)
        BY <1>1, <3>3
      <3>5. G(d)[e] = G(e)[e]
        BY <3>3, <3>4, PrefixesAgree
      <3>6. F[e] = G(e)[e]
        BY <3>3
      <3> QED BY <2>1, <2>2, <2>4, <3>5, <3>6 DEF e
    <2> QED BY <2>3, <2>4
  <1>3. F = [d \in Nat |-> F[d]]
    OBVIOUS
  <1> HIDE DEF F
  <1>4. PrefixMap(F, Nat)
    BY <1>2, <1>3 DEF PrefixMap
  <1>5. prefix_of = CHOOSE g : PrefixMap(g, Nat)
    BY DEF prefix_of, PrefixMap, Rest, Digit
  <1> QED BY <1>4, <1>5

\* A prefix is a sequence of letters, and it is the prefix of one number only.
LEMMA PrefixType ==
    ASSUME NEW n \in Nat
    PROVE  prefix_of[n] \in Seq(Nat)
  <1> DEFINE C == {e \in Nat : prefix_of[e] \notin Seq(Nat)}
  <1>1. SUFFICES ASSUME C # {} PROVE FALSE
    OBVIOUS
  <1>2. C \in SUBSET Nat
    OBVIOUS
  <1> HIDE DEF C
  <1>3. \E e \in C : \A k \in C : e <= k
    BY <1>1, <1>2, LeastNatural
  <1>4. PICK e \in C : \A k \in C : e <= k
    BY <1>3
  <1>5. e \in Nat /\ prefix_of[e] \notin Seq(Nat)
    BY DEF C
  <1>6. prefix_of[e] = IF e = 0 THEN <<>> ELSE Append(prefix_of[Rest(e)], Digit(e))
    BY <1>5, PrefixRule DEF PrefixMap
  <1>7. <<>> \in Seq(Nat)
    OBVIOUS
  <1>8. e \in Nat \ {0}
    BY <1>5, <1>6, <1>7
  <1>9. Rest(e) \in 0 .. e - 1 /\ Digit(e) \in Nat
    BY <1>8, Digits
  <1>10. Rest(e) \in Nat /\ ~(e <= Rest(e))
    BY <1>8, <1>9
  <1>11. prefix_of[Rest(e)] \in Seq(Nat)
    BY <1>4, <1>10 DEF C
  <1>12. Append(prefix_of[Rest(e)], Digit(e)) \in Seq(Nat)
    BY <1>9, <1>11
  <1> QED BY <1>5, <1>6, <1>8, <1>12

\* Append returns at least one element.
LEMMA AppendNotEmpty ==
    ASSUME NEW a \in Seq(Nat), NEW x \in Nat
    PROVE  Append(a, x) # <<>>
  <1>1. Len(Append(a, x)) = Len(a) + 1 /\ Len(a) \in Nat
    OBVIOUS
  <1>2. Len(<<>>) = 0
    OBVIOUS
  <1> QED BY <1>1, <1>2

\* What Append was given can be told from what it returns.
LEMMA AppendCancels ==
    \A a, b \in Seq(Nat) : \A x, y \in Nat : Append(a, x) = Append(b, y) => a = b /\ x = y
  <1> SUFFICES ASSUME NEW a \in Seq(Nat), NEW b \in Seq(Nat), NEW x \in Nat, NEW y \in Nat,
                      Append(a, x) = Append(b, y)
               PROVE  a = b /\ x = y
    OBVIOUS
  <1>1. /\ Len(Append(a, x)) = Len(a) + 1 /\ Len(Append(b, y)) = Len(b) + 1
        /\ Len(a) \in Nat /\ Len(b) \in Nat
    OBVIOUS
  <1>2. Len(a) = Len(b)
    BY <1>1
  <1>3. Append(a, x)[Len(a) + 1] = x /\ Append(b, y)[Len(b) + 1] = y
    OBVIOUS
  <1>4. \A i \in 1 .. Len(a) : a[i] = b[i]
    <2>1. \A i \in 1 .. Len(a) : Append(a, x)[i] = a[i] /\ Append(b, y)[i] = b[i]
      BY <1>2
    <2> QED BY <2>1
  <1>5. a = [i \in 1 .. Len(a) |-> a[i]] /\ b = [i \in 1 .. Len(b) |-> b[i]]
    OBVIOUS
  <1>6. a = b
    BY <1>2, <1>4, <1>5
  <1> QED BY <1>2, <1>3, <1>6

\* Different numbers have different prefixes.
LEMMA PrefixInjective ==
    ASSUME NEW n \in Nat, NEW m \in Nat, prefix_of[n] = prefix_of[m]
    PROVE  n = m
  <1> DEFINE C == {e \in Nat : \E k \in Nat : prefix_of[e] = prefix_of[k] /\ e # k}
  <1>1. SUFFICES ASSUME C # {} PROVE FALSE
    OBVIOUS
  <1>2. C \in SUBSET Nat
    OBVIOUS
  <1> HIDE DEF C
  <1>3. \E e \in C : \A k \in C : e <= k
    BY <1>1, <1>2, LeastNatural
  <1>4. PICK e \in C : \A k \in C : e <= k
    BY <1>3
  <1>5. PICK k \in Nat : prefix_of[e] = prefix_of[k] /\ e # k
    BY DEF C
  <1>6. e \in Nat /\ k \in Nat
    BY <1>2
  <1>7. /\ prefix_of[e] = IF e = 0 THEN <<>> ELSE Append(prefix_of[Rest(e)], Digit(e))
        /\ prefix_of[k] = IF k = 0 THEN <<>> ELSE Append(prefix_of[Rest(k)], Digit(k))
    BY <1>6, PrefixRule DEF PrefixMap
  <1>8. ASSUME NEW d \in Nat \ {0}
        PROVE  /\ Rest(d) \in Nat /\ Rest(d) < d /\ Digit(d) \in Nat
               /\ prefix_of[Rest(d)] \in Seq(Nat)
               /\ Append(prefix_of[Rest(d)], Digit(d)) # <<>>
    <2>1. Rest(d) \in 0 .. d - 1 /\ Digit(d) \in 0 .. Letters - 1 /\ Letters \in Nat
      BY Digits, BoundAssumption DEF BoundAssumption
    <2>2. Rest(d) \in Nat /\ Rest(d) < d /\ Digit(d) \in Nat
      BY <2>1
    <2>3. prefix_of[Rest(d)] \in Seq(Nat)
      BY <2>2, PrefixType
    <2>4. Append(prefix_of[Rest(d)], Digit(d)) # <<>>
      BY <2>2, <2>3, AppendNotEmpty
    <2> QED BY <2>2, <2>3, <2>4
  <1>9. e # 0 /\ k # 0
    BY <1>5, <1>6, <1>7, <1>8
  <1>10. e \in Nat \ {0} /\ k \in Nat \ {0}
    BY <1>6, <1>9
  <1>11. Append(prefix_of[Rest(e)], Digit(e)) = Append(prefix_of[Rest(k)], Digit(k))
    BY <1>5, <1>7, <1>9
  <1>12. prefix_of[Rest(e)] = prefix_of[Rest(k)] /\ Digit(e) = Digit(k)
    <2> DEFINE a == prefix_of[Rest(e)]
               b == prefix_of[Rest(k)]
               x == Digit(e)
               y == Digit(k)
    <2>1. a \in Seq(Nat) /\ b \in Seq(Nat) /\ x \in Nat /\ y \in Nat
      BY <1>8, <1>10
    <2>2. Append(a, x) = Append(b, y)
      BY <1>11
    <2> HIDE DEF a, b, x, y
    <2>3. a = b /\ x = y
      BY <2>1, <2>2, AppendCancels
    <2> QED BY <2>3 DEF a, b, x, y
  <1>13. Rest(e) = Rest(k)
    <2>1. Rest(e) \in Nat /\ ~(e <= Rest(e)) /\ Rest(k) \in Nat
      BY <1>8, <1>10
    <2>2. Rest(e) \notin C
      BY <1>4, <2>1
    <2> QED BY <1>12, <2>1, <2>2 DEF C
  <1>14. /\ e = Letters * Rest(e) + Digit(e) + 1
         /\ k = Letters * Rest(k) + Digit(k) + 1
    BY <1>10, Digits
  <1> QED BY <1>5, <1>12, <1>13, <1>14

----------------------------------------------------------------------------
(* Prefixes of modules *)

\* Every module has the prefix of a number that was the total when it was
\* registered, and no two modules of the same one.
PrefixInv(s) ==
    /\ \A m \in Registered(s) : \E k \in 0 .. s.total_proposal_module_count - 1 :
           s.proposal_modules[m].prefix = derive_proposal_module_prefix(k)
    /\ \A m, n \in Registered(s) :
           m # n => s.proposal_modules[m].prefix # s.proposal_modules[n].prefix

\* The handlers change neither prefixes nor the total.
LEMMA ExecutePrefixes ==
    ASSUME NEW s, StoreInv(s), NEW sender \in Addr, height \in Nat, NEW c \in ExecuteMsg,
           NEW t \in execute(s, sender, c)
    PROVE  /\ t.total_proposal_module_count = s.total_proposal_module_count
           /\ \A m \in Modules : t.proposal_modules[m].prefix = s.proposal_modules[m].prefix
  <1>1. s \in StoreWith(Letterings)
    BY DEF StoreInv
  <1>2. CASE c.kind = "update_proposal_modules"
    <2> DEFINE D == Range(c.to_disable)
               mods == [m \in Modules |->
                            IF m \in D THEN [s.proposal_modules[m] EXCEPT !.status = "disabled"]
                            ELSE s.proposal_modules[m]]
               n == s.active_proposal_module_count - Len(c.to_disable)
    <2>1. t \in execute_update_proposal_modules(s, sender, c.to_add, c.to_disable)
      BY <1>2 DEF execute
    <2>2. t = [s EXCEPT !.proposal_modules = mods, !.active_proposal_module_count = n]
      BY <2>1 DEF execute_update_proposal_modules, Ok
    <2>3. \A m \in Modules : mods[m].prefix = s.proposal_modules[m].prefix
      BY <1>1 DEF StoreWith, ProposalModule
    <2> HIDE DEF mods, n
    <2>4. /\ t.proposal_modules = mods
          /\ t.total_proposal_module_count = s.total_proposal_module_count
      BY <1>1, <2>2 DEF StoreWith
    <2> QED BY <2>3, <2>4
  <1>3. CASE c.kind # "update_proposal_modules"
    BY <1>3, OtherHandlers
  <1> QED BY <1>2, <1>3

\* Registering a module gives it a prefix that no other has.
LEMMA RegisterPrefix ==
    ASSUME NEW s, StoreInv(s), PrefixInv(s), NEW addr \in Modules \ Registered(s)
    PROVE  PrefixInv(reply_proposal_module(s, addr))
  <1> DEFINE n == s.total_proposal_module_count
             p == derive_proposal_module_prefix(n)
             t == reply_proposal_module(s, addr)
  <1>1. s \in StoreWith(Letterings) /\ n \in Nat
    BY DEF StoreInv, StoreWith
  <1>2. Registered(t) = Registered(s) \cup {addr}
    BY RegisterModule
  <1> HIDE DEF p
  <1>3. t = [s EXCEPT !.proposal_modules[addr] = [status |-> "enabled", prefix |-> p],
                      !.active_proposal_module_count = @ + 1,
                      !.total_proposal_module_count = @ + 1]
    BY DEF p, reply_proposal_module
  <1> HIDE DEF t
  <1>4. /\ t.total_proposal_module_count = n + 1
        /\ t.proposal_modules[addr].prefix = p
        /\ \A m \in Modules : m # addr => t.proposal_modules[m] = s.proposal_modules[m]
    BY <1>1, <1>3 DEF StoreWith
  <1> HIDE DEF n
  <1>5. ASSUME NEW m \in Registered(s)
        PROVE  /\ m \in Modules /\ m # addr
               /\ t.proposal_modules[m].prefix = s.proposal_modules[m].prefix
               /\ \E k \in 0 .. n - 1 : t.proposal_modules[m].prefix = derive_proposal_module_prefix(k)
    <2>1. m \in Modules /\ m # addr
      BY DEF Registered
    <2>2. \E k \in 0 .. n - 1 : s.proposal_modules[m].prefix = derive_proposal_module_prefix(k)
      BY DEF PrefixInv, n
    <2> QED BY <1>4, <2>1, <2>2
  <1>6. ASSUME NEW k \in 0 .. n - 1
        PROVE  derive_proposal_module_prefix(k) # p /\ k \in 0 .. n
    <2>1. k + 1 \in Nat /\ n + 1 \in Nat /\ k + 1 # n + 1
      BY <1>1
    <2>2. prefix_of[k + 1] # prefix_of[n + 1]
      BY <2>1, PrefixInjective
    <2>3. k \in 0 .. n
      BY <1>1
    <2> QED BY <2>2, <2>3 DEF p, derive_proposal_module_prefix
  <1>7. ASSUME NEW m \in Registered(t)
        PROVE  \E k \in 0 .. n : t.proposal_modules[m].prefix = derive_proposal_module_prefix(k)
    <2>1. CASE m = addr
      <3>1. n \in 0 .. n
        BY <1>1
      <3> QED BY <1>4, <2>1, <3>1 DEF p
    <2>2. CASE m \in Registered(s)
      BY <1>5, <1>6, <2>2
    <2> QED BY <1>2, <2>1, <2>2
  <1>8. ASSUME NEW l \in Registered(t), NEW m \in Registered(t), l # m
        PROVE  t.proposal_modules[l].prefix # t.proposal_modules[m].prefix
    <2>1. CASE l \in Registered(s) /\ m \in Registered(s)
      BY <1>5, <1>8, <2>1 DEF PrefixInv
    <2>2. CASE l = addr /\ m \in Registered(s)
      BY <1>4, <1>5, <1>6, <2>2
    <2>3. CASE m = addr /\ l \in Registered(s)
      BY <1>4, <1>5, <1>6, <2>3
    <2> QED BY <1>2, <1>8, <2>1, <2>2, <2>3
  <1>9. (n + 1) - 1 = n
    BY <1>1
  <1> QED BY <1>4, <1>7, <1>8, <1>9 DEF PrefixInv, t

\* Nothing that happens in a transaction gives a prefix twice.
LEMMA ChangesPrefixes ==
    ASSUME NEW s, StoreInv(s), PrefixInv(s), height \in Nat, NEW t, Changes(s, t)
    PROVE  PrefixInv(t)
  <1>1. CASE t = s
    BY <1>1
  <1>2. ASSUME NEW sender \in Addr, NEW c \in ExecuteMsg, t \in execute(s, sender, c)
        PROVE  PrefixInv(t)
    <2>1. HandlerOK(s, t)
      BY <1>2, ExecuteKeepsStore
    <2>2. /\ t.total_proposal_module_count = s.total_proposal_module_count
          /\ \A m \in Modules : t.proposal_modules[m].prefix = s.proposal_modules[m].prefix
      BY <1>2, ExecutePrefixes
    <2>3. Registered(t) = Registered(s) /\ Registered(s) \subseteq Modules
      BY <2>1 DEF HandlerOK, Registered
    <2> QED BY <2>2, <2>3 DEF PrefixInv
  <1>3. ASSUME NEW f, FrameInv(f), f.reply_on = "success",
               Registers(f) => f.to \in Modules \ Registered(s),
               t \in reply(s, f.reply_id, f.to)
        PROVE  PrefixInv(t)
    <2>1. f.reply_id \in 0 .. 2 /\ s \in StoreWith(Letterings)
      BY <1>3 DEF FrameInv, FrameShape, StoreInv
    <2>2. CASE f.reply_id = 0
      <3>1. Registers(f) /\ t = reply_proposal_module(s, f.to)
        BY <1>3, <2>2 DEF Registers, PROPOSAL_MODULE_REPLY_ID, reply, Ok,
           VOTE_MODULE_INSTANTIATE_REPLY_ID, VOTE_MODULE_UPDATE_REPLY_ID
      <3> HIDE DEF Registers
      <3>2. f.to \in Modules \ Registered(s)
        BY <1>3, <3>1
      <3> QED BY <3>1, <3>2, RegisterPrefix
    <2>3. CASE f.reply_id # 0
      <3>1. t = [s EXCEPT !.voting_module = f.to]
        BY <1>3, <2>1, <2>3 DEF PROPOSAL_MODULE_REPLY_ID, reply, Ok,
           VOTE_MODULE_INSTANTIATE_REPLY_ID, VOTE_MODULE_UPDATE_REPLY_ID
      <3>2. /\ t.proposal_modules = s.proposal_modules
            /\ t.total_proposal_module_count = s.total_proposal_module_count
        BY <2>1, <3>1 DEF StoreWith
      <3> QED BY <3>2 DEF PrefixInv, Registered
    <2> QED BY <2>2, <2>3
  <1> QED BY <1>1, <1>2, <1>3 DEF Changes

PrefixesInv == PrefixInv(store) /\ (stack # <<>> => PrefixInv(stack[1].saved))

\* Proposal ids, prefix and number, are unique in a DAO: whatever modules were
\* disabled, added or rolled back, no two registered modules share a prefix.
THEOREM PrefixesAreDistinct == Spec => []PrefixesDistinct
  <1>1. Init => PrefixesInv
    <2> SUFFICES ASSUME Init PROVE PrefixesInv
      OBVIOUS
    <2>1. \E msgs : stack = <<Frame(Msg(Dao, [kind |-> "tx"]), store, msgs, TRUE)>>
      BY DEF Init
    <2>2. stack[1].saved = store
      BY <2>1 DEF Frame
    <2>3. \A m \in Modules : store.proposal_modules[m] = Absent
      BY DEF Init
    <2>4. Registered(store) = {}
      BY <2>3 DEF Registered, Absent
    <2> QED BY <2>2, <2>4 DEF PrefixesInv, PrefixInv
  <1>2. IInv /\ PrefixesInv /\ [Next]_vars => PrefixesInv'
    <2> SUFFICES ASSUME IInv, PrefixesInv, [Next]_vars PROVE PrefixesInv'
      OBVIOUS
    <2>1. StoreInv(store) /\ height \in Nat
      BY DEF IInv
    <2>2. CASE Starts \/ GoesOn
      <3>1. PrefixInv(store')
        BY <2>1, <2>2, ChangesPrefixes DEF Starts, GoesOn, PrefixesInv
      <3> QED BY <2>2, <3>1 DEF Starts, GoesOn, PrefixesInv
    <2>3. CASE Rests \/ Undone
      BY <2>3 DEF Rests, Undone, PrefixesInv
    <2> QED BY <2>2, <2>3, StepShape
  <1>3. PrefixesInv => PrefixesDistinct
    BY DEF PrefixesInv, PrefixInv, PrefixesDistinct
  <1> QED BY <1>1, <1>2, <1>3, InvariantHolds, PTL DEF Spec

\* Storage, saved storages and running calls keep their types; no count underflows,
\* and every prefix is a sequence of letters.
THEOREM TypesCorrect == Spec => []TypeOK
  <1> DEFINE HeightInv == height \in 0 .. MaxHeight
  <1>1. Init => HeightInv
    BY BoundAssumption DEF Init, BoundAssumption
  <1>2. HeightInv /\ [Next]_vars => HeightInv'
    <2> SUFFICES ASSUME HeightInv, [Next]_vars PROVE HeightInv'
      OBVIOUS
    <2>1. MaxHeight \in Nat
      BY BoundAssumption DEF BoundAssumption
    <2>2. CASE Tick
      BY <2>1, <2>2 DEF Tick
    <2>3. CASE ~Tick
      <3>1. height' = height
        BY <2>3 DEF Next, TransactionStep, Call, DispatchSelf, Dispatch, Instantiate, Return,
           Raise, Abort, vars
      <3> QED BY <3>1
    <2> QED BY <2>2, <2>3
  <1>3. Letterings \subseteq Seq(Nat)
    <2>1. ASSUME NEW k \in Nat
          PROVE  derive_proposal_module_prefix(k) \in Seq(Nat)
      <3>1. k + 1 \in Nat
        OBVIOUS
      <3> QED BY <3>1, PrefixType DEF derive_proposal_module_prefix
    <2>2. <<>> \in Seq(Nat)
      OBVIOUS
    <2> QED BY <2>1, <2>2 DEF Letterings
  <1>4. StoreWith(Letterings) \subseteq Store
    <2>1. ProposalModule(Letterings) \subseteq ProposalModule(Seq(Nat))
      BY <1>3 DEF ProposalModule
    <2> HIDE DEF ProposalModule
    <2>2. [Modules -> ProposalModule(Letterings)] \subseteq [Modules -> ProposalModule(Seq(Nat))]
      BY <2>1
    <2> QED BY <2>2 DEF Store, StoreWith
  <1>5. FrameShape \subseteq FrameType
    BY <1>4 DEF FrameShape, FrameType
  <1>6. IInv /\ HeightInv => TypeOK
    <2> SUFFICES ASSUME IInv, HeightInv PROVE TypeOK
      OBVIOUS
    <2>1. store \in Store
      BY <1>4 DEF IInv, StoreInv
    <2>2. stack \in Seq(FrameShape)
      BY DEF IInv, StackInv
    <2>3. stack \in Seq(FrameType)
      BY <1>5, <2>2
    <2> QED BY <2>1, <2>3 DEF TypeOK
  <1> QED BY <1>1, <1>2, <1>6, InvariantHolds, PTL DEF Spec
=============================================================================
