------------------------------ MODULE CosmWasm ------------------------------
(***************************************************************************)
(* How the chain runs a transaction (external to the repository, modelled  *)
(* from how its contracts use it).  A handler returns messages, which run  *)
(* in order, each with everything it spawns before the next one.  A        *)
(* message that fails takes its effects with it; if it was sent with       *)
(* reply_on_error the sender's reply entry point runs and the transaction  *)
(* goes on, otherwise the failure is the sender's failure too.             *)
(*                                                                         *)
(* The running calls form a stack of frames.  A frame keeps the storage    *)
(* from before its call and the messages that remain to be run for it.     *)
(***************************************************************************)
EXTENDS Integers, SequencesExt

NoReply == 0

\* add_message
Msg(to, body) ==
    [to |-> to, body |-> body, reply_on |-> "never", reply_id |-> NoReply]

\* SubMsg::reply_on_error
MsgReplyOnError(to, body, reply_id) ==
    [to |-> to, body |-> body, reply_on |-> "error", reply_id |-> reply_id]

\* SubMsg::reply_on_success
MsgReplyOnSuccess(to, body, reply_id) ==
    [to |-> to, body |-> body, reply_on |-> "success", reply_id |-> reply_id]

\* The call that runs message m from storage saved, with messages of its own.
Frame(m, saved, pending, called) ==
    [to |-> m.to, body |-> m.body, reply_on |-> m.reply_on,
     reply_id |-> m.reply_id, saved |-> saved, pending |-> pending,
     called |-> called]

\* The topmost frame handles its first pending message.
Advance(stack) == [stack EXCEPT ![Len(stack)].pending = Tail(@)]
=============================================================================
