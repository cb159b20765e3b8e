------------------------------ MODULE ReplyId ------------------------------
(***************************************************************************)
(* Reply identifiers of the proposal modules:                              *)
(* packages/dao-voting/src/reply.rs.  The low three bits of an identifier  *)
(* tag the kind of reply, the others carry a proposal id or a hook index.  *)
(* The shifts drop the top three bits of a u64; ids and indices here are   *)
(* far below 2^61.                                                         *)
(***************************************************************************)
EXTENDS Integers

FAILED_PROPOSAL_EXECUTION_MASK == 0
FAILED_PROPOSAL_HOOK_MASK == 1
FAILED_VOTE_HOOK_MASK == 2
PRE_PROPOSE_MODULE_INSTANTIATION_ID == 3
FAILED_PRE_PROPOSE_MODULE_HOOK_ID == 4

\* 1 << BITS_RESERVED_FOR_REPLY_TYPE
ReplyTypes == 8

mask_proposal_execution_proposal_id(proposal_id) ==
    FAILED_PROPOSAL_EXECUTION_MASK + proposal_id * ReplyTypes

mask_proposal_hook_index(index) == FAILED_PROPOSAL_HOOK_MASK + index * ReplyTypes

mask_vote_hook_index(index) == FAILED_VOTE_HOOK_MASK + index * ReplyTypes

\* The two halves of TaggedReplyId::new: the tag and the payload.
reply_type(reply_id) == reply_id % ReplyTypes
id_after_shift(reply_id) == reply_id \div ReplyTypes
=============================================================================
