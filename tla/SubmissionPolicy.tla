-------------------------- MODULE SubmissionPolicy --------------------------
(***************************************************************************)
(* Who may submit proposals to a pre-propose module: the submission policy *)
(* of packages/dao-voting/src/pre_propose.rs and its update in             *)
(* packages/dao-pre-propose-base/src/execute.rs.  The lists are sets:      *)
(* their order is never read, and removal takes every copy of an address   *)
(* out.  An optional argument is the set of its values, {} or {v}.         *)
(***************************************************************************)
EXTENDS Integers

CONSTANTS
    Addr,       \* addresses of accounts and contracts
    Members     \* those with voting power in the DAO

\* enum PreProposeSubmissionPolicy.  Anyone has no use for the first two lists.
PreProposeSubmissionPolicy ==
    [kind : {"anyone", "specific"}, dao_members : BOOLEAN,
     allowlist : SUBSET Addr, denylist : SUBSET Addr]

validate(policy) ==
    policy.kind = "specific" =>
        /\ policy.allowlist \cap policy.denylist = {}
        /\ policy.dao_members \/ policy.allowlist # {}

\* check_can_submit: the denylist overrides all other settings.
permits(policy, who) ==
    /\ who \notin policy.denylist
    /\ \/ policy.kind = "anyone"
       \/ who \in policy.allowlist
       \/ policy.dao_members /\ who \in Members

\* The arguments of UpdateSubmissionPolicy.
PolicyUpdate ==
    LET Optional(S) == {{}} \cup {{v} : v \in S} IN
    [set_dao_members : Optional(BOOLEAN),
     allowlist_add : Optional(SUBSET Addr), allowlist_remove : Optional(SUBSET Addr),
     denylist_add : Optional(SUBSET Addr), denylist_remove : Optional(SUBSET Addr)]

\* Additions come before removals.
edited(list, add, remove) == (list \cup UNION add) \ UNION remove

\* Anyone only has a denylist.
update_applies(policy, u) ==
    policy.kind = "anyone" =>
        u.set_dao_members = {} /\ u.allowlist_add = {} /\ u.allowlist_remove = {}

updated(policy, u) ==
    [policy EXCEPT
        !.dao_members = IF u.set_dao_members = {} THEN @
                        ELSE CHOOSE b \in u.set_dao_members : TRUE,
        !.allowlist = edited(@, u.allowlist_add, u.allowlist_remove),
        !.denylist = edited(@, u.denylist_add, u.denylist_remove)]
=============================================================================
