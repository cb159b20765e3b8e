-------------------------- MODULE PrePropose_proofs --------------------------
(***************************************************************************)
(* Theorems about PrePropose, for every set of accounts, tokens and calls, *)
(* every configuration and every bound.                                    *)
(*                                                                         *)
(* Pre writes a deposit down for an id that the proposal module has yet to *)
(* give out, and pays deposits out on the word of hooks that are still     *)
(* under way while other contracts run.  IInv says what is known           *)
(* meanwhile: the entries of the storage (StoreInv), also of every storage *)
(* that a failing call goes back to; that a proposal Pre has announced is  *)
(* the next thing that happens (HeadInv); and that the hooks under way are *)
(* about different proposals, which are completed and not paid for, in     *)
(* every storage the transaction may go back to before the hook is         *)
(* delivered (HooksInv).  That no deposit is left behind needs the other   *)
(* direction, CarriedInv: for every deposit that is due, the hook or the   *)
(* payment is under way, in the storage and in every storage that an error *)
(* goes back to without costing Pre its place.                             *)
(***************************************************************************)
EXTENDS PrePropose, TLAPS

----------------------------------------------------------------------------
(* The storage *)

\* The parts of the invariants that are about one storage.
OutcomeIn(s, r) ==
    LET proposal == IF s.flow = "single" THEN r ELSE s.completed[r].created IN
    IF s.flow = "approval" /\ s.completed[r].status = "rejected" THEN "rejected"
    ELSE IF proposal \in DOMAIN s.pm[Pm].proposals THEN s.pm[Pm].proposals[proposal].status
    ELSE "open"

Passed(outcome) == outcome \in {"executed", "execution_failed"}

PromisedIn(s, r) ==
    IF \/ s.terms[r].info.refund_policy = "always"
       \/ s.terms[r].info.refund_policy = "only_passed" /\ Passed(OutcomeIn(s, r))
    THEN s.terms[r].proposer ELSE Dao

PaidIn(s) ==
    \A r \in Ids : s.paid[r] # <<>> =>
        OutcomeIn(s, r) # "open" /\ s.paid[r] = <<PromisedIn(s, r)>>

EntriesIn(s) ==
    \A id \in DOMAIN s.pm[Pm].proposals : s.pm[Pm].proposals[id].creator = Pre =>
        id \in Ids /\ s.deposits[id].proposer = s.pm[Pm].proposals[id].proposer

\* The terms that an entry records.
TermsOf(entry) == [info |-> entry.info, proposer |-> entry.proposer]

\* Without an approver, the submissions are the proposals.
SingleIn(s) ==
    /\ \A p \in Ids :
           /\ s.deposits[p] # NoEntry =>
                  s.deposits[p].ref = p /\ s.terms[p] = TermsOf(s.deposits[p])
           /\ s.pending[p] = NoSubmission /\ s.completed[p] = NoSubmission
           /\ s.created_to_completed[p] = 0
    /\ s.current_id = 0

\* A submission that waits for the approver.
PendingIn(s, r) ==
    s.pending[r] # NoSubmission =>
        /\ s.pending[r].status = "pending" /\ s.pending[r].created = 0
        /\ s.terms[r] = [info |-> s.pending[r].deposit, proposer |-> s.pending[r].proposer]

CompletedIn(s, r) ==
    /\ s.completed[r].status = "rejected" => s.completed[r].created = 0
    /\ s.completed[r].created # 0 => s.created_to_completed[s.completed[r].created] = r

\* A proposal made of a submission has its entry, and no other does.
CreatedIn(s, p) ==
    /\ s.deposits[p] # NoEntry => s.created_to_completed[p] # 0
    /\ LET r == s.created_to_completed[p] IN
       r # 0 => /\ s.deposits[p].ref = r /\ s.deposits[p] # NoEntry
                /\ s.completed[r].status = "approved" /\ s.completed[r].created = p
                /\ s.terms[r] = TermsOf(s.deposits[p])

\* The submissions so far.
CountedIn(s, r) ==
    /\ r <= s.current_id <=> (s.pending[r] # NoSubmission \/ s.completed[r] # NoSubmission)
    /\ s.pending[r] = NoSubmission \/ s.completed[r] = NoSubmission

ApprovalIn(s) ==
    \A r \in Ids : PendingIn(s, r) /\ CompletedIn(s, r) /\ CreatedIn(s, r) /\ CountedIn(s, r)

SubmissionsIn(s) ==
    /\ s.flow \in {"single", "approval"}
    /\ s.flow = "single" => SingleIn(s)
    /\ s.flow = "approval" => ApprovalIn(s)

StoreInv(s) ==
    /\ s \in Store
    /\ validate(s.config.submission_policy)
    /\ SubmissionsIn(s)
    /\ EntriesIn(s)
    /\ PaidIn(s)

\* Entries are only there for the first n proposals.
Below(s, n) == \A p \in Ids : s.deposits[p] # NoEntry => p <= n

\* The id the proposal module gives out next.
NextId(s) == Len(s.pm[Pm].proposals) + 1

Settled(s) == StoreInv(s) /\ Below(s, Len(s.pm[Pm].proposals))

----------------------------------------------------------------------------
(* Messages *)

\* What the contracts send each other.
Body ==
    Propose \cup PreMsg \cup ApproverMsg \cup PmMsg \cup [kind : {"execute"}]
    \cup [kind : {"transfer"}, to : Addr, amount : Nat, ref : 0 .. MaxProposals]
    \cup [kind : {"transfer_from"}, owner : Users, to : {Pre}, amount : Nat]

Message == [to : Addr, body : Body, reply_on : {"never", "error"}, reply_id : Nat]

\* Who sends what.  Only proposal modules ask for replies, and only about
\* their hooks and about the messages of a proposal.
MsgInv(from, m) ==
    /\ m \in Message
    /\ m.body.kind = "propose" => from \in Users
    /\ m.body.kind \in {"transfer", "transfer_from"} => from = Pre
    /\ from = Pre /\ m.body.kind = "propose_internal" => m.to = Pm
    /\ from \in Pms => m.body.kind \in {"completed", "execute"}
    /\ m.reply_on = "error" => from \in Pms
    /\ m.reply_on = "error" /\ reply_type(m.reply_id) # FAILED_PRE_PROPOSE_MODULE_HOOK_ID =>
           from = Pm /\ m.body.kind = "execute"

\* Messages of Pre that rely on the storage of the moment: a proposal it has
\* announced and a deposit that it pays out.
Announces(from, m) == from = Pre /\ m.body.kind = "propose_internal"
Pays(from, m) == from = Pre /\ m.body.kind = "transfer" /\ m.body.ref # 0
Special(from, m) == Announces(from, m) \/ Pays(from, m)

Plain(from, msgs) == \A i \in DOMAIN msgs : ~Special(from, msgs[i])

\* A list of messages to send: only the first may be special.
MsgsInv(from, msgs) ==
    /\ msgs \in Seq(Message)
    /\ \A i \in DOMAIN msgs : MsgInv(from, msgs[i]) /\ (i # 1 => ~Special(from, msgs[i]))

\* The proposal whose messages failed, or are to be run.
Ran(s, id) ==
    id \in DOMAIN s.pm[Pm].proposals /\ Passed(s.pm[Pm].proposals[id].status)

\* A proposal that is completed, with a deposit that is not paid out.
Owed(s, id, status) ==
    /\ id \in DOMAIN s.pm[Pm].proposals /\ id \in Ids
    /\ status \in {"closed", "executed", "vetoed"}
    /\ IF status = "executed" THEN Passed(s.pm[Pm].proposals[id].status)
       ELSE s.pm[Pm].proposals[id].status = status
    /\ s.deposits[id] # NoEntry => s.paid[s.deposits[id].ref] = <<>>

IsHook(from, m) == from = Pm /\ m.body.kind = "completed"
IsRun(from, m) == from = Pm /\ m.body.kind = "execute"

\* What a message of the proposal module takes for granted.
Expected(s, from, m) ==
    /\ IsHook(from, m) => Owed(s, m.body.id, m.body.status)
    /\ IsRun(from, m) => Ran(s, id_after_shift(m.reply_id))

\* The entry is that of the proposal which comes next.
AnnouncedIn(s, who) ==
    /\ Below(s, NextId(s)) /\ NextId(s) \in Ids
    /\ s.deposits[NextId(s)].proposer = who

\* A deposit is due.
DueIn(s, r, to) ==
    /\ r \in Ids /\ s.paid[r] = <<>>
    /\ OutcomeIn(s, r) # "open" /\ to = PromisedIn(s, r)

\* The storage while messages msgs of contract from are about to be sent.
HeadInv(s, from, msgs) ==
    /\ msgs = <<>> => Below(s, Len(s.pm[Pm].proposals))
    /\ msgs # <<>> =>
           /\ IF Announces(from, Head(msgs)) THEN AnnouncedIn(s, Head(msgs).body.proposer)
              ELSE Below(s, Len(s.pm[Pm].proposals))
           /\ Pays(from, Head(msgs)) => DueIn(s, Head(msgs).body.ref, Head(msgs).body.to)

----------------------------------------------------------------------------
(* Running calls *)

Call1 == [to : Addr, body : Body \cup [kind : {"tx"}], reply_on : {"never", "error"},
          reply_id : Nat, saved : Store, pending : Seq(Message), called : BOOLEAN]

FrameInv(f) ==
    /\ f \in Call1
    /\ Settled(f.saved)
    /\ MsgsInv(f.to, f.pending)

\* Whoever hears of an error is a proposal module.
ReplyInv(st, k) ==
    st[k].reply_on = "error" =>
        /\ k # 1 /\ st[k - 1].to \in Pms
        /\ reply_type(st[k].reply_id) # FAILED_PRE_PROPOSE_MODULE_HOOK_ID =>
               st[k - 1].to = Pm /\ Ran(st[k].saved, id_after_shift(st[k].reply_id))

StackInv(st) ==
    /\ st \in Seq(Call1)
    /\ \A k \in DOMAIN st : /\ FrameInv(st[k]) /\ ReplyInv(st, k)
                            /\ k # Len(st) => Plain(st[k].to, st[k].pending)

\* What the pending messages take for granted holds in s, for the calls below n.
ExpectedBelow(st, n, s) ==
    \A k \in DOMAIN st : \A i \in DOMAIN st[k].pending :
        k < n => Expected(s, st[k].to, st[k].pending[i])

\* Hooks are about different proposals.
DifferentHooks(st) ==
    \A k, l \in DOMAIN st : \A i \in DOMAIN st[k].pending, j \in DOMAIN st[l].pending :
        /\ IsHook(st[k].to, st[k].pending[i]) /\ IsHook(st[l].to, st[l].pending[j])
        /\ st[k].pending[i].body.id = st[l].pending[j].body.id
        => k = l /\ i = j

\* A due deposit is not also the matter of a hook.
Undisputed(st, s, r) ==
    \A k \in DOMAIN st : \A i \in DOMAIN st[k].pending :
        LET m == st[k].pending[i] IN
        IsHook(st[k].to, m) /\ s.deposits[m.body.id] # NoEntry =>
            s.deposits[m.body.id].ref # r

HooksInv(st, s) ==
    /\ ExpectedBelow(st, Len(st) + 1, s)
    /\ \A k \in DOMAIN st : ExpectedBelow(st, k, st[k].saved)
    /\ DifferentHooks(st)

TopInv(st, s) ==
    /\ st = <<>> => Below(s, Len(s.pm[Pm].proposals))
    /\ st # <<>> =>
           /\ HeadInv(s, Last(st).to, Last(st).pending)
           /\ Last(st).pending # <<>> /\ Pays(Last(st).to, Head(Last(st).pending)) =>
                  Undisputed(st, s, Head(Last(st).pending).body.ref)

Inv(st, s) == StoreInv(s) /\ StackInv(st) /\ HooksInv(st, s) /\ TopInv(st, s)

IInv == Inv(stack, store)

----------------------------------------------------------------------------
(* Addresses and fields *)

\* The contracts are different from each other and from users.
LEMMA Addresses ==
    /\ {Pre, Approver, Dao, ApproverDao, Pm, ApproverPm} \subseteq Addr
    /\ Users \subseteq Addr /\ Denom \subseteq Addr /\ Pms \subseteq Addr
    /\ Pre # Pm /\ Pre # ApproverPm /\ Pre # Approver /\ Pre # Dao /\ Pre # ApproverDao
    /\ Approver # Pm /\ Approver # ApproverPm /\ Pm # ApproverPm
    /\ {Pre, Approver, Dao, ApproverDao, Pm, ApproverPm} \cap Denom = {}
    /\ {Pre, Approver, Pm, ApproverPm} \subseteq Contracts
    /\ Users \cap Contracts = {} /\ Dao \notin Contracts
    /\ Anyone \notin Addr /\ "none" \notin Addr /\ "none" \notin Denom
  <1> DEFINE a == <<Pre, Approver, Dao, ApproverDao, Pm, ApproverPm>>
  <1>1. /\ a[1] = Pre /\ a[2] = Approver /\ a[3] = Dao /\ a[4] = ApproverDao /\ a[5] = Pm
        /\ a[6] = ApproverPm /\ DOMAIN a = 1 .. 6
    OBVIOUS
  <1>2. \A i, j \in DOMAIN a : a[i] = a[j] => i = j
    BY AddrAssumption DEF AddrAssumption, IsInjective
  <1> HIDE DEF a
  <1>3. /\ Pre # Pm /\ Pre # ApproverPm /\ Pre # Approver /\ Pre # Dao /\ Pre # ApproverDao
        /\ Approver # Pm /\ Approver # ApproverPm /\ Pm # ApproverPm
        /\ Dao # Approver /\ Dao # Pm /\ Dao # ApproverPm
    BY <1>1, <1>2
  <1> QED BY <1>3, AddrAssumption DEF AddrAssumption, Contracts, Pms

\* A message has the fields its kind says.
LEMMA BodyFields ==
    ASSUME NEW c \in Body
    PROVE  /\ c.kind = "propose" => c.funds \in [denom : Denom, amount : Nat]
           /\ c.kind = "update_config" => /\ c.deposit_info \in DepositInfo \cup {NoDeposit}
                                          /\ c.policy \in SUBSET PreProposeSubmissionPolicy
           /\ c.kind = "update_submission_policy" => c.update \in PolicyUpdate
           /\ c.kind = "withdraw" => c.denom \in SUBSET Denom
           /\ c.kind \in {"add_hook", "remove_hook", "update_approver"} => c.addr \in Addr
           /\ c.kind \in {"approve", "reject"} => c.id \in Ids
           /\ c.kind = "completed" => c.id \in Ids /\ c.status \in ProposalStatus
           /\ c.kind = "submitted" => c.ref \in Ids
           /\ c.kind = "propose_internal" => c.proposer \in Addr
           /\ c.kind = "complete" => /\ c.id \in Ids /\ c.has_msgs \in BOOLEAN
                                     /\ c.status \in {"closed", "executed", "vetoed"}
           /\ c.kind = "transfer" => /\ c.to \in Addr /\ c.amount \in Nat
                                     /\ c.ref \in 0 .. MaxProposals
           /\ c.kind = "transfer_from" => /\ c.owner \in Users /\ c.to = Pre
                                          /\ c.amount \in Nat
  BY DEF Body, Propose, PreMsg, ApproverMsg, PmMsg, Completed

----------------------------------------------------------------------------
(* Storages that agree on submissions *)

\* Storages that differ in configuration, hooks, balances or on the approver's
\* side.
Same(s, t) ==
    /\ t.flow = s.flow /\ t.deposits = s.deposits /\ t.current_id = s.current_id
    /\ t.pending = s.pending /\ t.completed = s.completed
    /\ t.created_to_completed = s.created_to_completed
    /\ t.terms = s.terms /\ t.paid = s.paid
    /\ t.pm[Pm].proposals = s.pm[Pm].proposals

\* What has been settled in s still is in t.
Kept(s, t) ==
    /\ t.paid = s.paid
    /\ \A id \in DOMAIN s.pm[Pm].proposals :
           /\ id \in DOMAIN t.pm[Pm].proposals
           /\ id \in Ids => t.deposits[id] = s.deposits[id]
           /\ s.pm[Pm].proposals[id].status # "open" =>
                  \/ t.pm[Pm].proposals[id].status = s.pm[Pm].proposals[id].status
                  \/ /\ Passed(s.pm[Pm].proposals[id].status)
                     /\ Passed(t.pm[Pm].proposals[id].status)

LEMMA KeptExpected ==
    ASSUME NEW s, NEW t, Kept(s, t), NEW from, NEW m, Expected(s, from, m)
    PROVE  Expected(t, from, m)
  <1>1. ASSUME NEW id, Ran(s, id)
        PROVE  Ran(t, id)
    BY <1>1 DEF Ran, Kept, Passed
  <1>2. ASSUME NEW id, NEW status, Owed(s, id, status)
        PROVE  Owed(t, id, status)
    BY <1>2 DEF Owed, Kept, Passed
  <1> QED BY <1>1, <1>2 DEF Expected

LEMMA SameOutcome ==
    ASSUME NEW s, NEW t, Same(s, t)
    PROVE  \A r : OutcomeIn(t, r) = OutcomeIn(s, r) /\ PromisedIn(t, r) = PromisedIn(s, r)
  <1>1. \A r : OutcomeIn(t, r) = OutcomeIn(s, r)
    BY DEF Same, OutcomeIn
  <1> QED BY <1>1 DEF Same, PromisedIn

LEMMA SameKeeps ==
    ASSUME NEW s, NEW t, Same(s, t), SubmissionsIn(s), EntriesIn(s), PaidIn(s)
    PROVE  SubmissionsIn(t) /\ EntriesIn(t) /\ PaidIn(t) /\ Kept(s, t)
  <1>1. SubmissionsIn(t)
    BY DEF Same, SubmissionsIn, SingleIn, ApprovalIn, PendingIn, CompletedIn, CreatedIn, CountedIn
  <1>2. EntriesIn(t)
    BY DEF Same, EntriesIn
  <1>3. PaidIn(t)
    BY SameOutcome DEF Same, PaidIn
  <1>4. Kept(s, t)
    BY DEF Same, Kept
  <1> QED BY <1>1, <1>2, <1>3, <1>4

\* A storage that only differs elsewhere and has the right type.
Quiet(s, t) ==
    /\ Same(s, t) /\ t \in Store /\ validate(t.config.submission_policy)

LEMMA QuietKeeps ==
    ASSUME NEW s, NEW t, Quiet(s, t), Settled(s)
    PROVE  Settled(t) /\ Kept(s, t)
  <1>1. SubmissionsIn(t) /\ EntriesIn(t) /\ PaidIn(t) /\ Kept(s, t)
    BY SameKeeps DEF Quiet, Settled, StoreInv
  <1>2. Below(t, Len(t.pm[Pm].proposals))
    BY DEF Quiet, Same, Settled, Below
  <1> QED BY <1>1, <1>2 DEF Settled, StoreInv, Quiet

----------------------------------------------------------------------------
(* Handlers that leave the submissions alone *)

\* Storages of which only one of these fields differs.
LEMMA Elsewhere ==
    ASSUME NEW s, Settled(s), NEW t, t \in Store,
           t.flow = s.flow, t.deposits = s.deposits, t.current_id = s.current_id,
           t.pending = s.pending, t.completed = s.completed,
           t.created_to_completed = s.created_to_completed, t.terms = s.terms,
           t.paid = s.paid, t.pm[Pm].proposals = s.pm[Pm].proposals,
           validate(t.config.submission_policy)
    PROVE  Quiet(s, t)
  BY DEF Quiet, Same

LEMMA UpdateConfig ==
    ASSUME NEW s, Settled(s), NEW sender, NEW info \in DepositInfo \cup {NoDeposit},
           NEW policy \in SUBSET PreProposeSubmissionPolicy,
           NEW r \in execute_update_config(s, sender, info, policy)
    PROVE  Quiet(s, r.store) /\ r.msgs = <<>>
  <1> DEFINE p == IF policy = {} THEN s.config.submission_policy ELSE CHOOSE q \in policy : TRUE
  <1>1. s \in Store /\ validate(s.config.submission_policy)
    BY DEF Settled, StoreInv
  <1>2. /\ info # NoDeposit => into_checked(info)
        /\ \A q \in policy : validate(q)
        /\ r.store = [s EXCEPT !.config.deposit_info = info, !.config.submission_policy = p]
        /\ r.msgs = <<>>
    BY DEF execute_update_config, Ok
  <1>3. s.config \in Config
    BY <1>1 DEF Store
  <1>4. p \in PreProposeSubmissionPolicy /\ validate(p)
    BY <1>1, <1>2, <1>3 DEF Config
  <1>5. info \in CheckedDepositInfo \cup {NoDeposit}
    BY <1>2 DEF into_checked, DepositInfo, CheckedDepositInfo
  <1> HIDE DEF p
  <1>6. /\ r.store.config.submission_policy = p /\ r.store.config \in Config
    <2> DEFINE D == CheckedDepositInfo \cup {NoDeposit}
    <2>1. /\ s.config \in [deposit_info : D, submission_policy : PreProposeSubmissionPolicy]
          /\ info \in D /\ "config" \in DOMAIN s
      BY <1>1, <1>3, <1>5 DEF Config, Store
    <2> HIDE DEF D
    <2>2. /\ r.store.config \in [deposit_info : D, submission_policy : PreProposeSubmissionPolicy]
          /\ r.store.config.submission_policy = p
      BY <1>2, <1>4, <2>1, ZenonT(40)
    <2> QED BY <2>2 DEF Config, D
  <1>7. r.store \in Store
    BY <1>1, <1>2, <1>6 DEF Store
  <1> QED BY <1>1, <1>2, <1>4, <1>6, <1>7 DEF Quiet, Same, Store

LEMMA UpdatePolicy ==
    ASSUME NEW s, Settled(s), NEW sender, NEW u \in PolicyUpdate,
           NEW r \in execute_update_submission_policy(s, sender, u)
    PROVE  Quiet(s, r.store) /\ r.msgs = <<>>
  <1> DEFINE old == s.config.submission_policy
             p == updated(old, u)
  <1>1. s \in Store
    BY DEF Settled, StoreInv
  <1>2. validate(p) /\ r.store = [s EXCEPT !.config.submission_policy = p] /\ r.msgs = <<>>
    BY DEF execute_update_submission_policy, Ok
  <1>3. s.config \in Config /\ old \in PreProposeSubmissionPolicy
    BY <1>1 DEF Store, Config
  <1>4. p \in PreProposeSubmissionPolicy
    <2>1. /\ UNION u.allowlist_add \subseteq Addr /\ UNION u.denylist_add \subseteq Addr
          /\ u.set_dao_members # {} => (CHOOSE b \in u.set_dao_members : TRUE) \in BOOLEAN
      BY DEF PolicyUpdate
    <2> HIDE DEF old
    <2> QED BY <1>3, <2>1 DEF updated, edited, PreProposeSubmissionPolicy
  <1> HIDE DEF p
  <1>5. r.store \in Store /\ r.store.config.submission_policy = p
    BY <1>1, <1>2, <1>4, ZenonT(40) DEF Store, Config
  <1> QED BY <1>1, <1>2, <1>5 DEF Quiet, Same, Store

LEMMA UpdateHooks ==
    ASSUME NEW s, Settled(s), NEW allowed, NEW addr \in Addr, NEW r,
           \/ r \in execute_add_proposal_submitted_hook(s, allowed, addr)
           \/ r \in execute_remove_proposal_submitted_hook(s, allowed, addr)
    PROVE  Quiet(s, r.store) /\ r.msgs = <<>>
  <1>1. s \in Store /\ s.hooks \in Seq(Addr) /\ validate(s.config.submission_policy)
    BY DEF Settled, StoreInv, Store
  <1>2. Append(s.hooks, addr) \in Seq(Addr)
    BY <1>1
  <1>3. ASSUME NEW i \in DOMAIN s.hooks
        PROVE  RemoveAt(s.hooks, i) \in Seq(Addr)
    <2>1. SubSeq(s.hooks, 1, i - 1) \in Seq(Addr) /\ SubSeq(s.hooks, i + 1, Len(s.hooks)) \in Seq(Addr)
      BY <1>1, <1>3
    <2> QED BY <2>1 DEF RemoveAt
  <1>4. can_remove_hook(s.hooks, addr) => remove_hook(s.hooks, addr) \in Seq(Addr)
    <2> SUFFICES ASSUME can_remove_hook(s.hooks, addr) PROVE remove_hook(s.hooks, addr) \in Seq(Addr)
      OBVIOUS
    <2>1. \E i \in DOMAIN s.hooks : s.hooks[i] = addr
      BY <1>1 DEF can_remove_hook, Contains
    <2>2. (CHOOSE i \in DOMAIN s.hooks : s.hooks[i] = addr) \in DOMAIN s.hooks
      BY <2>1
    <2> QED BY <1>3, <2>2 DEF remove_hook
  <1>5. CASE r \in execute_add_proposal_submitted_hook(s, allowed, addr)
    <2>1. r.store = [s EXCEPT !.hooks = Append(s.hooks, addr)] /\ r.msgs = <<>>
      BY <1>5 DEF execute_add_proposal_submitted_hook, Ok, add_hook
    <2> QED BY <1>1, <1>2, <2>1 DEF Quiet, Same, Store
  <1>6. CASE r \in execute_remove_proposal_submitted_hook(s, allowed, addr)
    <2>1. /\ can_remove_hook(s.hooks, addr) /\ r.msgs = <<>>
          /\ r.store = [s EXCEPT !.hooks = remove_hook(s.hooks, addr)]
      BY <1>6 DEF execute_remove_proposal_submitted_hook, Ok
    <2> QED BY <1>1, <1>4, <2>1 DEF Quiet, Same, Store
  <1> QED BY <1>5, <1>6

LEMMA UpdateApprover ==
    ASSUME NEW s, Settled(s), NEW sender, NEW addr \in Addr,
           NEW r \in execute_update_approver(s, sender, addr)
    PROVE  Quiet(s, r.store) /\ r.msgs = <<>>
  <1>1. s \in Store /\ validate(s.config.submission_policy)
    BY DEF Settled, StoreInv
  <1>2. r.store = [s EXCEPT !.approver = addr] /\ r.msgs = <<>>
    BY DEF execute_update_approver, Ok
  <1> QED BY <1>1, <1>2 DEF Quiet, Same, Store

\* Tokens move.
LEMMA MovedQuiet ==
    ASSUME NEW s, Settled(s), NEW d \in Denom, NEW from, NEW to, NEW amount \in Nat,
           from \in Holders => s.bank[d][from] >= amount
    PROVE  Quiet(s, Moved(s, d, from, to, amount))
  <1> DEFINE one == [s.bank[d] EXCEPT ![from] = @ - amount]
             two == [one EXCEPT ![to] = @ + amount]
  <1>1. /\ s \in Store /\ s.bank \in [Denom -> [Holders -> Nat]]
        /\ validate(s.config.submission_policy)
    BY DEF Settled, StoreInv, Store
  <1>2. one \in [Holders -> Nat]
    <2>1. CASE from \in Holders
      BY <1>1, <2>1
    <2>2. CASE from \notin Holders
      BY <1>1, <2>2
    <2> QED BY <2>1, <2>2
  <1> HIDE DEF one
  <1>3. two \in [Holders -> Nat]
    <2>1. CASE to \in Holders
      BY <1>2, <2>1
    <2>2. CASE to \notin Holders
      BY <1>2, <2>2
    <2> QED BY <2>1, <2>2
  <1> DEFINE t == Moved(s, d, from, to, amount)
  <1>4. t = [s EXCEPT !.bank[d] = two]
    BY DEF Moved, one
  <1> HIDE DEF two, t
  <1>5. t.bank \in [Denom -> [Holders -> Nat]]
    BY <1>1, <1>3, <1>4 DEF Store
  <1>6. t \in Store
    BY <1>1, <1>4, <1>5 DEF Store
  <1>7. Quiet(s, t)
    BY <1>1, <1>4, <1>6 DEF Quiet, Same, Store
  <1> QED BY <1>7 DEF t

----------------------------------------------------------------------------
(* What a handler leaves *)

\* Only the hook that is being handled may be about this deposit.
Disputes(s, ref, from, m) ==
    \A id \in Ids : s.deposits[id] # NoEntry /\ s.deposits[id].ref = ref =>
        IsHook(from, m) /\ id = m.body.id

\* New messages of the contract to: they may take for granted what they do, and
\* a hook is about a proposal that was open.
NewMsgs(s, to, t, msgs) ==
    \A i \in DOMAIN msgs :
        /\ Expected(t, to, msgs[i])
        /\ IsHook(to, msgs[i]) =>
               /\ s.pm[Pm].proposals[msgs[i].body.id].status = "open"
               /\ \A j \in DOMAIN msgs : IsHook(to, msgs[j]) => i = j

\* The storage t and the messages that are left of handling m from s.
Result(s, from, m, t, msgs) ==
    /\ StoreInv(t) /\ Kept(s, t)
    /\ MsgsInv(m.to, msgs) /\ HeadInv(t, m.to, msgs)
    /\ NewMsgs(s, m.to, t, msgs)
    /\ msgs # <<>> /\ Pays(m.to, Head(msgs)) =>
           Disputes(t, Head(msgs).body.ref, from, m)

\* No messages.
LEMMA NoMsgs ==
    ASSUME NEW s, NEW from, NEW m, NEW t, StoreInv(t), Kept(s, t),
           Below(t, Len(t.pm[Pm].proposals))
    PROVE  Result(s, from, m, t, <<>>)
  BY DEF Result, MsgsInv, HeadInv, NewMsgs

\* The head of a list.
LEMMA HeadMsg ==
    ASSUME NEW msgs \in Seq(Message), msgs # <<>>
    PROVE  Head(msgs) = msgs[1] /\ 1 \in DOMAIN msgs /\ Head(msgs) \in Message
  OBVIOUS

\* One list after another.
IsJoined(S, q, a, b) ==
    /\ q \in Seq(S) /\ Len(q) = Len(a) + Len(b) /\ DOMAIN q = 1 .. Len(a) + Len(b)
    /\ Len(a) \in Nat /\ Len(b) \in Nat
    /\ \A i \in 1 .. Len(a) : q[i] = a[i]
    /\ \A i \in 1 .. Len(b) : q[Len(a) + i] = b[i]
    /\ \A i \in DOMAIN q : i \in 1 .. Len(a) \/ i - Len(a) \in 1 .. Len(b)

LEMMA Joined ==
    ASSUME NEW S, NEW a \in Seq(S), NEW b \in Seq(S)
    PROVE  IsJoined(S, a \o b, a, b)
  <1> DEFINE q == a \o b
  <1>1. /\ q \in Seq(S) /\ Len(q) = Len(a) + Len(b) /\ DOMAIN q = 1 .. Len(a) + Len(b)
        /\ Len(a) \in Nat /\ Len(b) \in Nat
        /\ \A i \in 1 .. Len(a) + Len(b) : q[i] = IF i <= Len(a) THEN a[i] ELSE b[i - Len(a)]
    OBVIOUS
  <1>2. ASSUME NEW i \in 1 .. Len(b)
        PROVE  q[Len(a) + i] = b[i]
    <2>1. Len(a) + i \in 1 .. Len(a) + Len(b) /\ ~(Len(a) + i <= Len(a)) /\ (Len(a) + i) - Len(a) = i
      BY <1>1
    <2> QED BY <1>1, <2>1
  <1>3. \A i \in 1 .. Len(a) : i \in 1 .. Len(a) + Len(b) /\ i <= Len(a)
    BY <1>1
  <1>4. \A i \in 1 .. Len(a) + Len(b) : i \in 1 .. Len(a) \/ i - Len(a) \in 1 .. Len(b)
    BY <1>1
  <1> HIDE DEF q
  <1>5. IsJoined(S, q, a, b)
    BY <1>1, <1>2, <1>3, <1>4 DEF IsJoined
  <1> QED BY <1>5 DEF q

\* Messages that rely on nothing.
LEMMA PlainMsgs ==
    ASSUME NEW s, NEW from, NEW m, NEW t, Settled(t), Kept(s, t), m.to # Pm, NEW msgs,
           msgs \in Seq(Message), \A i \in DOMAIN msgs : MsgInv(m.to, msgs[i]),
           Plain(m.to, msgs)
    PROVE  Result(s, from, m, t, msgs)
  <1>1. msgs # <<>> => Head(msgs) = msgs[1] /\ 1 \in DOMAIN msgs
    BY HeadMsg
  <1>2. msgs # <<>> => ~Announces(m.to, Head(msgs)) /\ ~Pays(m.to, Head(msgs))
    BY <1>1 DEF Plain, Special
  <1>3. HeadInv(t, m.to, msgs)
    BY <1>2 DEF HeadInv, Settled
  <1>4. NewMsgs(s, m.to, t, msgs)
    BY DEF NewMsgs, Expected, IsHook, IsRun
  <1>5. MsgsInv(m.to, msgs)
    BY DEF MsgsInv, Plain
  <1> QED BY <1>2, <1>3, <1>4, <1>5 DEF Result, Settled

\* A single message.
LEMMA OneMsg ==
    ASSUME NEW from, NEW x, MsgInv(from, x)
    PROVE  /\ <<x>> \in Seq(Message) /\ <<x>> # <<>> /\ Head(<<x>>) = x
           /\ DOMAIN <<x>> = {1} /\ <<x>>[1] = x
           /\ \A i \in DOMAIN <<x>> : MsgInv(from, <<x>>[i])
           /\ MsgsInv(from, <<x>>)
           /\ ~Special(from, x) => Plain(from, <<x>>)
  <1>1. x \in Message
    BY DEF MsgInv
  <1>2. /\ <<x>> \in Seq(Message) /\ <<x>> # <<>> /\ Head(<<x>>) = x
        /\ DOMAIN <<x>> = {1} /\ <<x>>[1] = x
    BY <1>1
  <1> QED BY <1>2 DEF MsgsInv, Plain

----------------------------------------------------------------------------
(* The ledgers *)

\* A handler that returns no error.
LEMMA OkFields ==
    ASSUME NEW g \in BOOLEAN, NEW t, NEW msgs, NEW r \in Ok(g, t, msgs)
    PROVE  g /\ r.store = t /\ r.msgs = msgs
  BY DEF Ok

LEMMA TokenHandler ==
    ASSUME NEW s, Settled(s), NEW from, NEW m, MsgInv(from, m), m.to \in Denom,
           ~Special(from, m), NEW r \in execute_token(s, m.to, from, m.body)
    PROVE  Result(s, from, m, r.store, r.msgs)
  <1> DEFINE c == m.body
  <1>1. /\ m \in Message /\ c \in Body
        /\ c.kind \in {"transfer", "transfer_from"} => from = Pre
    BY DEF MsgInv, Message
  <1>2. Pre \in Holders
    BY DEF Holders
  <1>3. Quiet(s, r.store) /\ r.msgs = <<>>
    <2>1. CASE c.kind = "transfer"
      <3> DEFINE t == Moved(s, m.to, Pre, c.to, c.amount)
      <3>1. c.ref = 0 /\ c.amount \in Nat
        BY <1>1, <2>1, BodyFields DEF Special, Pays
      <3>2. r \in transfer(s, m.to, Pre, c.to, c.amount, 0)
        BY <1>1, <2>1, <3>1 DEF execute_token
      <3> DEFINE g == s.bank[m.to][Pre] >= c.amount
                 u == [t EXCEPT !.withdrawn = @ \cup {m.to}]
      <3>a. transfer(s, m.to, Pre, c.to, c.amount, 0) = Ok(g, u, <<>>)
        BY DEF transfer
      <3>b. g \in BOOLEAN
        OBVIOUS
      <3> HIDE DEF g, u
      <3>c. g /\ r.store = u /\ r.msgs = <<>>
        BY <3>2, <3>a, <3>b, OkFields
      <3>3. /\ s.bank[m.to][Pre] >= c.amount /\ r.msgs = <<>>
            /\ r.store = [t EXCEPT !.withdrawn = @ \cup {m.to}]
        BY <3>c DEF g, u
      <3>4. Quiet(s, t)
        BY <3>1, <3>3, MovedQuiet
      <3> HIDE DEF t
      <3>5. t \in Store /\ Same(s, t) /\ validate(t.config.submission_policy)
        BY <3>4 DEF Quiet
      <3>d. t.withdrawn \cup {m.to} \in SUBSET Denom
        BY <3>5 DEF Store
      <3>6. r.store \in Store
        BY <3>3, <3>5, <3>d DEF Store
      <3>7. Same(s, r.store) /\ r.store.config = t.config
        BY <3>3, <3>5 DEF Same, Store
      <3> QED BY <3>3, <3>5, <3>6, <3>7 DEF Quiet
    <2>2. CASE c.kind = "transfer_from"
      <3> DEFINE t == Moved(s, m.to, c.owner, c.to, c.amount)
      <3>1. c.amount \in Nat
        BY <1>1, <2>2, BodyFields
      <3>2. r \in transfer_from(s, m.to, c.owner, c.to, c.amount)
        BY <1>1, <2>2 DEF execute_token
      <3>3. s.bank[m.to][c.owner] >= c.amount /\ r.msgs = <<>> /\ r.store = t
        BY <3>2 DEF transfer_from, Ok
      <3>4. Quiet(s, t)
        BY <3>1, <3>3, MovedQuiet
      <3> QED BY <3>3, <3>4
    <2>3. CASE c.kind \notin {"transfer", "transfer_from"}
      BY <2>3 DEF execute_token
    <2> QED BY <2>1, <2>2, <2>3
  <1>4. Settled(r.store) /\ Kept(s, r.store)
    BY <1>3, QuietKeeps
  <1> QED BY <1>3, <1>4, NoMsgs DEF Settled

----------------------------------------------------------------------------
(* The approver module *)

LEMMA ApproverHandler ==
    ASSUME NEW s, Settled(s), NEW from, NEW m, MsgInv(from, m), m.to = Approver,
           NEW r \in execute_approver(s, from, m.body)
    PROVE  Result(s, from, m, r.store, r.msgs)
  <1> DEFINE c == m.body
  <1>1. m \in Message /\ c \in Body
    BY DEF MsgInv, Message
  <1>2. m.to # Pm /\ m.to # Pre /\ m.to \notin Users /\ m.to \notin Pms /\ {Pre, ApproverPm, Approver, ApproverDao} \subseteq Addr
    BY Addresses DEF Pms
  <1>3. s \in Store /\ validate(s.config.submission_policy)
    BY DEF Settled, StoreInv
  <1>4. \A msgs : ~Special(m.to, msgs)
    BY <1>2 DEF Special, Announces, Pays
  <1>5. ASSUME NEW to \in {Pre, ApproverPm}, NEW b \in PreMsg \cup PmMsg
        PROVE  MsgInv(m.to, Msg(to, b))
    <2>1. b \in Body /\ b.kind \notin {"propose", "transfer", "transfer_from"}
      BY <1>5 DEF Body, PreMsg, PmMsg, Completed
    <2> QED BY <1>2, <1>5, <2>1 DEF MsgInv, Message, Msg, NoReply
  <1>6. Quiet(s, r.store) /\ r.msgs \in Seq(Message) /\ \A i \in DOMAIN r.msgs : MsgInv(m.to, r.msgs[i])
    <2>1. CASE c.kind = "submitted"
      <3> DEFINE id == next_proposal_id(s, ApproverPm)
      <3>1. c.ref \in Ids
        BY <1>1, <2>1, BodyFields
      <3>2. r \in approver_execute_propose(s, from, c.ref)
        BY <2>1 DEF execute_approver
      <3>3. /\ id \in Ids /\ r.msgs = <<ProposeMsg(ApproverPm, Pre)>>
            /\ r.store = [s EXCEPT !.proposal_to_pre_propose[id] = c.ref,
                                   !.pre_propose_to_proposal[c.ref] = id]
        BY <3>2 DEF approver_execute_propose, Ok
      <3> HIDE DEF id
      <3>4. Quiet(s, r.store)
        <4>1. id \in 0 .. MaxProposals /\ c.ref \in 0 .. MaxProposals
          BY <3>1, <3>3 DEF Ids
        <4>a. /\ s.proposal_to_pre_propose \in [Ids -> 0 .. MaxProposals]
              /\ s.pre_propose_to_proposal \in [Ids -> 0 .. MaxProposals]
          BY <1>3 DEF Store
        <4>b. /\ [s.proposal_to_pre_propose EXCEPT ![id] = c.ref] \in [Ids -> 0 .. MaxProposals]
              /\ [s.pre_propose_to_proposal EXCEPT ![c.ref] = id] \in [Ids -> 0 .. MaxProposals]
          BY <4>1, <4>a
        <4>2. r.store \in Store
          BY <1>3, <3>1, <3>3, <4>b DEF Store
        <4> QED BY <1>3, <3>3, <4>2 DEF Quiet, Same, Store
      <3>5. MsgInv(m.to, ProposeMsg(ApproverPm, Pre))
        BY <1>2, <1>5 DEF ProposeMsg, PmMsg
      <3> QED BY <3>3, <3>4, <3>5, OneMsg
    <2>2. CASE c.kind = "completed"
      <3> DEFINE id == s.proposal_to_pre_propose[c.id]
                 k == IF c.status = "executed" THEN "approve" ELSE "reject"
                 b == [kind |-> k, id |-> id]
      <3>1. c.id \in Ids
        BY <1>1, <2>2, BodyFields
      <3>2. r \in execute_proposal_completed(s, from, c.id, c.status)
        BY <2>2 DEF execute_approver
      <3>3. id # 0 /\ r.store = s /\ r.msgs = <<Msg(Pre, b)>>
        BY <3>2 DEF execute_proposal_completed, Ok
      <3>4. Quiet(s, r.store)
        BY <1>3, <3>3 DEF Quiet, Same
      <3>a. s.proposal_to_pre_propose \in [Ids -> 0 .. MaxProposals]
        BY <1>3 DEF Store
      <3>b. id \in 0 .. MaxProposals
        BY <3>1, <3>a
      <3>5. id \in Ids
        BY <3>3, <3>b DEF Ids
      <3>6. k \in {"approve", "reject"}
        OBVIOUS
      <3> HIDE DEF id, k
      <3>7. b \in [kind : {"approve", "reject"}, id : Ids]
        BY <3>5, <3>6
      <3>8. b \in PreMsg
        BY <3>7 DEF PreMsg
      <3>9. MsgInv(m.to, Msg(Pre, b))
        BY <1>5, <3>8
      <3> QED BY <3>3, <3>4, <3>9, OneMsg
    <2>3. CASE c.kind = "reset_approver"
      <3> DEFINE x == Msg(Pre, [kind |-> "remove_hook", addr |-> Approver])
                 y == Msg(Pre, [kind |-> "update_approver", addr |-> ApproverDao])
      <3>1. r \in execute_reset_approver(s, from)
        BY <2>3 DEF execute_approver
      <3>2. r.store = s /\ r.msgs = <<x, y>>
        BY <3>1 DEF execute_reset_approver, Ok
      <3>3. Quiet(s, r.store)
        BY <1>3, <3>2 DEF Quiet, Same
      <3>4. MsgInv(m.to, x) /\ MsgInv(m.to, y)
        BY <1>2, <1>5 DEF PreMsg
      <3> HIDE DEF x, y
      <3>5. x \in Message /\ y \in Message
        BY <3>4 DEF MsgInv
      <3>6. /\ <<x, y>> \in Seq(Message) /\ DOMAIN <<x, y>> = {1, 2}
            /\ <<x, y>>[1] = x /\ <<x, y>>[2] = y
        BY <3>5
      <3> QED BY <3>2, <3>3, <3>4, <3>6
    <2>4. CASE c.kind \notin {"submitted", "completed", "reset_approver"}
      BY <2>4 DEF execute_approver
    <2> QED BY <2>1, <2>2, <2>3, <2>4
  <1>7. Settled(r.store) /\ Kept(s, r.store)
    BY <1>6, QuietKeeps
  <1>8. Plain(m.to, r.msgs)
    BY <1>4 DEF Plain
  <1> HIDE DEF Plain
  <1> QED BY <1>2, <1>6, <1>7, <1>8, PlainMsgs

----------------------------------------------------------------------------
(* The proposal modules *)

\* The proposals of one module are replaced.
WithProposals(s, p, q) == [s EXCEPT !.pm[p].proposals = q]

LEMMA ProposalsReplaced ==
    ASSUME NEW s \in Store, NEW p \in Pms, NEW q \in Seq(Proposal), NEW t,
           t = WithProposals(s, p, q)
    PROVE  /\ t \in Store /\ t.pm[p].proposals = q /\ t.pm[p].policy = s.pm[p].policy
           /\ \A o \in Pms : o # p => t.pm[o] = s.pm[o]
           /\ t.flow = s.flow /\ t.deposits = s.deposits /\ t.current_id = s.current_id
           /\ t.pending = s.pending /\ t.completed = s.completed
           /\ t.created_to_completed = s.created_to_completed
           /\ t.terms = s.terms /\ t.paid = s.paid /\ t.config = s.config
           /\ t.bank = s.bank /\ t.withdrawn = s.withdrawn
  <1> DEFINE M == [proposals : Seq(Proposal), policy : Addr \cup {Anyone}]
             old == s.pm[p]
             new == [old EXCEPT !.proposals = q]
             all == [s.pm EXCEPT ![p] = new]
  <1>1. s.pm \in [Pms -> M] /\ old \in M
    BY DEF Store
  <1> HIDE DEF old
  <1>2. new \in M /\ new.proposals = q /\ new.policy = old.policy
    BY <1>1
  <1>3. t = [s EXCEPT !.pm[p] = new]
    BY DEF WithProposals, old, Store
  <1> HIDE DEF M, new
  <1>4. /\ t.pm \in [Pms -> M] /\ t.pm[p] = new
        /\ \A o \in Pms : o # p => t.pm[o] = s.pm[o]
    BY <1>1, <1>2, <1>3 DEF Store
  <1>5. t.pm[p].proposals = q /\ t.pm[p].policy = s.pm[p].policy
    BY <1>2, <1>4 DEF old
  <1>6. t \in Store
    BY <1>3, <1>4 DEF Store, M
  <1> QED BY <1>3, <1>4, <1>5, <1>6 DEF Store

\* The approver's proposal module.
LEMMA OtherProposals ==
    ASSUME NEW s, Settled(s), NEW q \in Seq(Proposal), NEW t, t = WithProposals(s, ApproverPm, q)
    PROVE  Quiet(s, t)
  <1>1. s \in Store /\ validate(s.config.submission_policy)
    BY DEF Settled, StoreInv
  <1>2. ApproverPm \in Pms /\ Pm \in Pms /\ Pm # ApproverPm
    BY Addresses DEF Pms
  <1> QED BY <1>1, <1>2, ProposalsReplaced DEF Quiet, Same

\* One more proposal, with the entry that was announced for it.
LEMMA ProposalAdded ==
    ASSUME NEW s, StoreInv(s), NEW x \in Proposal, x.status = "open", NextId(s) \in Ids,
           x.creator = Pre => AnnouncedIn(s, x.proposer),
           x.creator # Pre => Below(s, Len(s.pm[Pm].proposals)),
           NEW t, t = WithProposals(s, Pm, Append(s.pm[Pm].proposals, x))
    PROVE  Settled(t) /\ Kept(s, t)
  <1> DEFINE old == s.pm[Pm].proposals
             q == Append(old, x)
             n == Len(old)
  <1>1. s \in Store /\ validate(s.config.submission_policy) /\ old \in Seq(Proposal) /\ Pm \in Pms
    BY DEF StoreInv, Store, Pms
  <1>2. /\ q \in Seq(Proposal) /\ DOMAIN q = 1 .. n + 1 /\ DOMAIN old = 1 .. n
        /\ n \in Nat /\ q[n + 1] = x /\ Len(q) = n + 1
        /\ \A i \in 1 .. n : q[i] = old[i]
    BY <1>1
  <1>3. /\ t \in Store /\ t.pm[Pm].proposals = q /\ t.config = s.config
        /\ t.flow = s.flow /\ t.deposits = s.deposits /\ t.current_id = s.current_id
        /\ t.pending = s.pending /\ t.completed = s.completed
        /\ t.created_to_completed = s.created_to_completed
        /\ t.terms = s.terms /\ t.paid = s.paid
    <2>1. t = WithProposals(s, Pm, q)
      OBVIOUS
    <2> HIDE DEF q
    <2> QED BY <1>1, <1>2, <2>1, ProposalsReplaced
  <1> HIDE DEF q, n, old
  <1>4. SubmissionsIn(t)
    BY <1>3 DEF StoreInv, SubmissionsIn, SingleIn, ApprovalIn, PendingIn, CompletedIn, CreatedIn, CountedIn
  <1>5. n + 1 = NextId(s)
    BY DEF NextId, n, old
  <1>6. EntriesIn(t)
    <2> SUFFICES ASSUME NEW id \in 1 .. n + 1, q[id].creator = Pre
                 PROVE  id \in Ids /\ s.deposits[id].proposer = q[id].proposer
      BY <1>2, <1>3 DEF EntriesIn
    <2>1. CASE id = n + 1
      BY <1>2, <1>5, <2>1 DEF AnnouncedIn
    <2>2. CASE id # n + 1
      <3>1. id \in 1 .. n
        BY <1>2, <2>2
      <3> QED BY <1>2, <3>1 DEF StoreInv, EntriesIn, old
    <2> QED BY <2>1, <2>2
  <1>7. ASSUME NEW r, OutcomeIn(s, r) # "open"
        PROVE  OutcomeIn(t, r) = OutcomeIn(s, r)
    <2> DEFINE p == IF s.flow = "single" THEN r ELSE s.completed[r].created
    <2>1. CASE s.flow = "approval" /\ s.completed[r].status = "rejected"
      BY <1>3, <2>1 DEF OutcomeIn
    <2>2. CASE ~(s.flow = "approval" /\ s.completed[r].status = "rejected")
      <3>1. p \in 1 .. n
        BY <1>2, <1>7, <2>2 DEF OutcomeIn, old
      <3>2. p \in 1 .. n + 1 /\ q[p] = old[p]
        BY <1>2, <3>1
      <3> QED BY <1>2, <1>3, <2>2, <3>1, <3>2 DEF OutcomeIn, old
    <2> QED BY <2>1, <2>2
  <1>8. PaidIn(t)
    <2> SUFFICES ASSUME NEW r \in Ids, s.paid[r] # <<>>
                 PROVE  OutcomeIn(t, r) # "open" /\ s.paid[r] = <<PromisedIn(t, r)>>
      BY <1>3 DEF PaidIn
    <2>1. OutcomeIn(s, r) # "open" /\ s.paid[r] = <<PromisedIn(s, r)>>
      BY DEF StoreInv, PaidIn
    <2>2. OutcomeIn(t, r) = OutcomeIn(s, r)
      BY <1>7, <2>1
    <2> QED BY <1>3, <2>1, <2>2 DEF PromisedIn
  <1>9. Below(t, Len(t.pm[Pm].proposals))
    <2>1. CASE x.creator = Pre
      BY <1>2, <1>3, <1>5, <2>1 DEF AnnouncedIn, Below
    <2>2. CASE x.creator # Pre
      <3>1. Below(s, n)
        BY <2>2 DEF n, old
      <3> QED BY <1>2, <1>3, <3>1 DEF Below, Ids
    <2> QED BY <2>1, <2>2
  <1>10. Kept(s, t)
    <2>1. \A i \in 1 .. n : i \in 1 .. n + 1 /\ q[i] = old[i]
      BY <1>2
    <2>2. s.pm[Pm].proposals = old
      BY DEF old
    <2> QED BY <1>2, <1>3, <2>1, <2>2 DEF Kept
  <1> QED BY <1>1, <1>3, <1>4, <1>6, <1>8, <1>9, <1>10 DEF Settled, StoreInv

\* One proposal has another status.
WithStatus(s, id, status) ==
    WithProposals(s, Pm, [s.pm[Pm].proposals EXCEPT ![id].status = status])

\* A proposal's status changes: it is completed, or its messages have failed.
LEMMA StatusChanged ==
    ASSUME NEW s, Settled(s), NEW id \in DOMAIN s.pm[Pm].proposals, NEW status \in ProposalStatus,
           status # "open",
           \/ s.pm[Pm].proposals[id].status = "open"
           \/ Passed(s.pm[Pm].proposals[id].status) /\ Passed(status),
           NEW t, t = WithStatus(s, id, status)
    PROVE  /\ Settled(t) /\ Kept(s, t)
           /\ id \in DOMAIN t.pm[Pm].proposals /\ t.pm[Pm].proposals[id].status = status
           /\ t.deposits = s.deposits /\ t.paid = s.paid
  <1> DEFINE old == s.pm[Pm].proposals
             q == [old EXCEPT ![id].status = status]
  <1>1. s \in Store /\ validate(s.config.submission_policy) /\ old \in Seq(Proposal) /\ Pm \in Pms
    BY DEF Settled, StoreInv, Store, Pms
  <1>2. /\ q \in Seq(Proposal) /\ DOMAIN q = DOMAIN old /\ Len(q) = Len(old)
        /\ \A i \in DOMAIN old : /\ q[i].creator = old[i].creator /\ q[i].proposer = old[i].proposer
                                 /\ q[i].status = IF i = id THEN status ELSE old[i].status
    <2>a. id \in DOMAIN old /\ old[id] \in Proposal
      BY <1>1
    <2>1. [old[id] EXCEPT !.status = status] \in Proposal
      BY <2>a DEF Proposal
    <2>2. q = [old EXCEPT ![id] = [old[id] EXCEPT !.status = status]]
      OBVIOUS
    <2> HIDE DEF q, old
    <2>3. q \in Seq(Proposal) /\ DOMAIN q = DOMAIN old /\ Len(q) = Len(old)
      BY <1>1, <2>a, <2>1, <2>2
    <2>4. \A i \in DOMAIN old : q[i] = IF i = id THEN [old[id] EXCEPT !.status = status] ELSE old[i]
      BY <2>2
    <2>5. \A i \in DOMAIN old : old[i] \in Proposal
      BY <1>1
    <2>6. ASSUME NEW i \in DOMAIN old
          PROVE  /\ q[i].creator = old[i].creator /\ q[i].proposer = old[i].proposer
                 /\ q[i].status = IF i = id THEN status ELSE old[i].status
      <3>1. CASE i = id
        BY <2>1, <2>4, <2>5, <3>1 DEF Proposal
      <3>2. CASE i # id
        BY <2>4, <3>2
      <3> QED BY <3>1, <3>2
    <2> QED BY <2>3, <2>6
  <1>3. /\ t \in Store /\ t.pm[Pm].proposals = q /\ t.config = s.config
        /\ t.flow = s.flow /\ t.deposits = s.deposits /\ t.current_id = s.current_id
        /\ t.pending = s.pending /\ t.completed = s.completed
        /\ t.created_to_completed = s.created_to_completed
        /\ t.terms = s.terms /\ t.paid = s.paid
    <2>1. t = WithProposals(s, Pm, q)
      BY DEF WithStatus
    <2> HIDE DEF q
    <2> QED BY <1>1, <1>2, <2>1, ProposalsReplaced
  <1>a. s.pm[Pm].proposals = old /\ id \in DOMAIN old
    OBVIOUS
  <1> HIDE DEF q, old
  <1>4. SubmissionsIn(t)
    BY <1>3 DEF Settled, StoreInv, SubmissionsIn, SingleIn, ApprovalIn, PendingIn, CompletedIn, CreatedIn, CountedIn
  <1>5. EntriesIn(t)
    BY <1>2, <1>3, <1>a DEF Settled, StoreInv, EntriesIn
  <1>6. ASSUME NEW r, OutcomeIn(s, r) # "open"
        PROVE  /\ OutcomeIn(t, r) # "open"
               /\ Passed(OutcomeIn(t, r)) <=> Passed(OutcomeIn(s, r))
    <2> DEFINE p == IF s.flow = "single" THEN r ELSE s.completed[r].created
    <2>1. CASE s.flow = "approval" /\ s.completed[r].status = "rejected"
      BY <1>3, <2>1 DEF OutcomeIn
    <2>2. CASE ~(s.flow = "approval" /\ s.completed[r].status = "rejected")
      <3>1. p \in DOMAIN old /\ OutcomeIn(s, r) = old[p].status
        BY <1>6, <1>a, <2>2 DEF OutcomeIn
      <3>2. OutcomeIn(t, r) = q[p].status
        BY <1>2, <1>3, <2>2, <3>1 DEF OutcomeIn
      <3> QED BY <1>2, <1>6, <1>a, <3>1, <3>2
    <2> QED BY <2>1, <2>2
  <1>7. PaidIn(t)
    <2> SUFFICES ASSUME NEW r \in Ids, s.paid[r] # <<>>
                 PROVE  OutcomeIn(t, r) # "open" /\ s.paid[r] = <<PromisedIn(t, r)>>
      BY <1>3 DEF PaidIn
    <2>1. OutcomeIn(s, r) # "open" /\ s.paid[r] = <<PromisedIn(s, r)>>
      BY DEF Settled, StoreInv, PaidIn
    <2>2. OutcomeIn(t, r) # "open" /\ (Passed(OutcomeIn(t, r)) <=> Passed(OutcomeIn(s, r)))
      BY <1>6, <2>1
    <2> QED BY <1>3, <2>1, <2>2 DEF PromisedIn
  <1>8. Below(t, Len(t.pm[Pm].proposals))
    BY <1>2, <1>3, <1>a DEF Settled, Below
  <1>9. Kept(s, t)
    BY <1>2, <1>3, <1>a DEF Kept
  <1>10. q[id].status = status /\ id \in DOMAIN q
    BY <1>2, <1>a
  <1> QED BY <1>1, <1>3, <1>4, <1>5, <1>7, <1>8, <1>9, <1>10 DEF Settled, StoreInv

\* An entry tells which submission its proposal was made of.
LEMMA EntryRef ==
    ASSUME NEW s, StoreInv(s), NEW id \in Ids, s.deposits[id] # NoEntry
    PROVE  /\ s.deposits[id] \in Entry /\ s.deposits[id].ref \in Ids
           /\ s.terms[s.deposits[id].ref] = TermsOf(s.deposits[id])
           /\ id \in DOMAIN s.pm[Pm].proposals =>
                  OutcomeIn(s, s.deposits[id].ref) = s.pm[Pm].proposals[id].status
           /\ \A o \in Ids : s.deposits[o] # NoEntry /\ s.deposits[o].ref = s.deposits[id].ref
                  => o = id
           /\ s.flow = "approval" => s.completed[s.deposits[id].ref].created = id
  <1>1. s.deposits[id] \in Entry /\ s.deposits[id].ref \in Ids
    BY DEF StoreInv, Store, Entry
  <1>2. s.flow \in {"single", "approval"}
    BY DEF StoreInv, SubmissionsIn
  <1>3. CASE s.flow = "single"
    <2>1. \A p \in Ids : s.deposits[p] # NoEntry =>
              s.deposits[p].ref = p /\ s.terms[p] = TermsOf(s.deposits[p])
      BY <1>3 DEF StoreInv, SubmissionsIn, SingleIn
    <2>2. s.flow # "approval"
      BY <1>3
    <2>3. s.deposits[id].ref = id /\ s.terms[id] = TermsOf(s.deposits[id])
      BY <2>1
    <2>4. id \in DOMAIN s.pm[Pm].proposals => OutcomeIn(s, id) = s.pm[Pm].proposals[id].status
      BY <1>3, <2>2 DEF OutcomeIn
    <2> QED BY <1>1, <2>1, <2>2, <2>3, <2>4
  <1>4. CASE s.flow = "approval"
    <2>1. \A p \in Ids : s.deposits[p] # NoEntry =>
              /\ s.completed[s.deposits[p].ref].status = "approved"
              /\ s.completed[s.deposits[p].ref].created = p
              /\ s.terms[s.deposits[p].ref] = TermsOf(s.deposits[p])
      BY <1>4 DEF StoreInv, SubmissionsIn, ApprovalIn, CreatedIn
    <2> DEFINE r == s.deposits[id].ref
    <2>2. /\ s.completed[r].status = "approved" /\ s.completed[r].created = id
          /\ s.terms[r] = TermsOf(s.deposits[id])
      BY <2>1
    <2>3. \A o \in Ids : s.deposits[o] # NoEntry /\ s.deposits[o].ref = r => o = id
      BY <2>1, <2>2
    <2>4. id \in DOMAIN s.pm[Pm].proposals => OutcomeIn(s, r) = s.pm[Pm].proposals[id].status
      <3> HIDE DEF r
      <3> QED BY <1>4, <2>2 DEF OutcomeIn
    <2> QED BY <1>1, <2>2, <2>3, <2>4
  <1> QED BY <1>2, <1>3, <1>4

\* The reply to an execution names its proposal.
LEMMA ReplyIds ==
    ASSUME NEW id \in Ids
    PROVE  /\ mask_proposal_execution_proposal_id(id) \in Nat
           /\ reply_type(mask_proposal_execution_proposal_id(id)) # FAILED_PRE_PROPOSE_MODULE_HOOK_ID
           /\ id_after_shift(mask_proposal_execution_proposal_id(id)) = id
           /\ reply_type(FAILED_PRE_PROPOSE_MODULE_HOOK_ID) = FAILED_PRE_PROPOSE_MODULE_HOOK_ID
           /\ FAILED_PRE_PROPOSE_MODULE_HOOK_ID \in Nat
  BY DEF Ids, mask_proposal_execution_proposal_id, reply_type, id_after_shift, ReplyTypes,
     FAILED_PROPOSAL_EXECUTION_MASK, FAILED_PRE_PROPOSE_MODULE_HOOK_ID

\* A proposal is made.
LEMMA ProposeHandler ==
    ASSUME NEW s, StoreInv(s), NEW from \in Addr, NEW p \in Pms, NEW proposer \in Addr,
           from = Pre => p = Pm /\ AnnouncedIn(s, proposer),
           from # Pre => Below(s, Len(s.pm[Pm].proposals)),
           NEW r \in pm_propose(s, p, from, proposer)
    PROVE  Settled(r.store) /\ Kept(s, r.store) /\ r.msgs = <<>>
  <1> DEFINE x == [creator |-> from, proposer |-> proposer, status |-> "open"]
  <1>1. /\ next_proposal_id(s, p) \in Ids /\ r.msgs = <<>>
        /\ r.store = WithProposals(s, p, Append(s.pm[p].proposals, x))
    BY DEF pm_propose, Ok, WithProposals
  <1>2. x \in Proposal /\ x.creator = from /\ x.proposer = proposer /\ x.status = "open"
    BY DEF Proposal, ProposalStatus
  <1>3. s \in Store /\ s.pm[p].proposals \in Seq(Proposal)
    BY DEF StoreInv, Store
  <1> HIDE DEF x
  <1>4. Append(s.pm[p].proposals, x) \in Seq(Proposal)
    BY <1>2, <1>3
  <1>5. CASE p = Pm
    <2>1. NextId(s) \in Ids
      BY <1>1, <1>5 DEF NextId, next_proposal_id
    <2> QED BY <1>1, <1>2, <1>5, <2>1, ProposalAdded
  <1>6. CASE p # Pm
    <2>1. p = ApproverPm /\ from # Pre
      BY <1>6 DEF Pms
    <2>2. Settled(s)
      BY <2>1 DEF Settled
    <2>3. Quiet(s, r.store)
      BY <1>1, <1>4, <2>1, <2>2, OtherProposals
    <2> QED BY <1>1, <2>2, <2>3, QuietKeeps
  <1> QED BY <1>5, <1>6

\* The messages of a proposal that is completed.
Execution(id, status, has_msgs) ==
    IF status = "executed" /\ has_msgs
    THEN <<MsgReplyOnError(Dao, [kind |-> "execute"], mask_proposal_execution_proposal_id(id))>>
    ELSE <<>>

HookMsg(policy, id, status) ==
    MsgReplyOnError(policy, [kind |-> "completed", id |-> id, status |-> status],
                    FAILED_PRE_PROPOSE_MODULE_HOOK_ID)

CompletedHook(policy, id, status) ==
    IF policy = Anyone THEN <<>> ELSE <<HookMsg(policy, id, status)>>

\* Completing a proposal leaves storage t and messages msgs.
Completes(s, p, id, status, has_msgs, t, msgs) ==
    /\ id \in DOMAIN s.pm[p].proposals /\ s.pm[p].proposals[id].status = "open"
    /\ has_msgs => p = Pm
    /\ t = WithProposals(s, p, [s.pm[p].proposals EXCEPT ![id].status = status])
    /\ msgs = Execution(id, status, has_msgs) \o CompletedHook(s.pm[p].policy, id, status)

LEMMA CompleteFields ==
    ASSUME NEW s, NEW p, NEW id, NEW status, NEW has_msgs,
           NEW r \in pm_complete(s, p, id, status, has_msgs)
    PROVE  Completes(s, p, id, status, has_msgs, r.store, r.msgs)
  <1> DEFINE g == /\ id \in DOMAIN s.pm[p].proposals
                  /\ s.pm[p].proposals[id].status = "open"
                  /\ has_msgs => p = Pm
             t == [s EXCEPT !.pm[p].proposals[id].status = status]
             ms == Execution(id, status, has_msgs) \o CompletedHook(s.pm[p].policy, id, status)
  <1>1. pm_complete(s, p, id, status, has_msgs) = Ok(g, t, ms)
    BY DEF pm_complete, Execution, CompletedHook, HookMsg
  <1>2. t = WithProposals(s, p, [s.pm[p].proposals EXCEPT ![id].status = status])
    BY DEF WithProposals
  <1>3. g \in BOOLEAN
    OBVIOUS
  <1> HIDE DEF g, t, ms
  <1>4. g /\ r.store = t /\ r.msgs = ms
    BY <1>1, <1>3, OkFields
  <1> QED BY <1>2, <1>4 DEF g, ms, Completes

\* The messages of a completed proposal, in order.
CompleteMsgsInv(p, policy, id, status, msgs) ==
    /\ MsgsInv(p, msgs) /\ Plain(p, msgs)
    /\ \A i \in DOMAIN msgs :
           \/ msgs[i] = HookMsg(policy, id, status) /\ i = Len(msgs)
           \/ /\ ~IsHook(p, msgs[i]) /\ msgs[i].body.kind = "execute"
              /\ status = "executed" /\ id_after_shift(msgs[i].reply_id) = id

LEMMA CompleteMsgs ==
    ASSUME NEW s, NEW p \in Pms, NEW id \in Ids, NEW status \in {"closed", "executed", "vetoed"},
           NEW has_msgs \in BOOLEAN, has_msgs => p = Pm, NEW policy \in Addr \cup {Anyone}, NEW msgs,
           msgs = Execution(id, status, has_msgs) \o CompletedHook(policy, id, status)
    PROVE  CompleteMsgsInv(p, policy, id, status, msgs)
  <1> DEFINE e == MsgReplyOnError(Dao, [kind |-> "execute"], mask_proposal_execution_proposal_id(id))
             h == HookMsg(policy, id, status)
  <1>1. p # Pre /\ p \notin Users /\ Dao \in Addr
    BY Addresses DEF Pms
  <1>2. policy # Anyone => MsgInv(p, h)
    <2>1. policy # Anyone => policy \in Addr
      OBVIOUS
    <2>2. [kind |-> "completed", id |-> id, status |-> status] \in Body
      BY DEF Body, PreMsg, Completed, ProposalStatus
    <2> QED BY <1>1, <2>1, <2>2, ReplyIds DEF HookMsg, MsgReplyOnError, MsgInv, Message
  <1>3. has_msgs => MsgInv(p, e)
    <2>1. [kind |-> "execute"] \in Body
      BY DEF Body
    <2> QED BY <1>1, <2>1, ReplyIds DEF MsgReplyOnError, MsgInv, Message
  <1>4. /\ h.body.kind = "completed" /\ e.body.kind = "execute"
        /\ id_after_shift(e.reply_id) = id
    BY ReplyIds DEF HookMsg, MsgReplyOnError
  <1>5. \A x : ~Special(p, x)
    BY <1>1 DEF Special, Announces, Pays
  <1>6. \/ msgs = <<>>
        \/ policy # Anyone /\ msgs = <<h>>
        \/ has_msgs /\ status = "executed" /\ msgs = <<e>>
        \/ has_msgs /\ status = "executed" /\ policy # Anyone /\ msgs = <<e>> \o <<h>>
    <2> HIDE DEF e, h
    <2>1. ASSUME NEW x, NEW y
          PROVE  <<>> \o <<>> = <<>> /\ <<>> \o <<y>> = <<y>> /\ <<x>> \o <<>> = <<x>>
      OBVIOUS
    <2>2. /\ Execution(id, status, has_msgs) = IF status = "executed" /\ has_msgs THEN <<e>> ELSE <<>>
          /\ CompletedHook(policy, id, status) = IF policy = Anyone THEN <<>> ELSE <<h>>
      BY DEF Execution, CompletedHook, e, h
    <2> QED BY <2>1, <2>2
  <1> HIDE DEF e, h
  <1>7. CASE msgs = <<>>
    BY <1>7 DEF MsgsInv, Plain, CompleteMsgsInv
  <1>8. CASE policy # Anyone /\ msgs = <<h>>
    <2>1. DOMAIN msgs = {1} /\ msgs[1] = h /\ Len(msgs) = 1 /\ MsgsInv(p, msgs)
      BY <1>2, <1>8, OneMsg
    <2> QED BY <1>4, <1>5, <2>1 DEF Plain, IsHook, CompleteMsgsInv, h
  <1>9. CASE has_msgs /\ status = "executed" /\ msgs = <<e>>
    <2>1. DOMAIN msgs = {1} /\ msgs[1] = e /\ MsgsInv(p, msgs)
      BY <1>3, <1>9, OneMsg
    <2> QED BY <1>4, <1>5, <1>9, <2>1 DEF Plain, IsHook, CompleteMsgsInv
  <1>10. CASE has_msgs /\ status = "executed" /\ policy # Anyone /\ msgs = <<e>> \o <<h>>
    <2>1. MsgInv(p, e) /\ MsgInv(p, h) /\ e \in Message /\ h \in Message
      BY <1>2, <1>3, <1>10 DEF MsgInv
    <2>2. /\ msgs \in Seq(Message) /\ DOMAIN msgs = {1, 2} /\ Len(msgs) = 2
          /\ msgs[1] = e /\ msgs[2] = h
      <3>1. /\ <<e>> \in Seq(Message) /\ <<h>> \in Seq(Message) /\ Len(<<e>>) = 1 /\ Len(<<h>>) = 1
            /\ <<e>>[1] = e /\ <<h>>[1] = h
        BY <2>1
      <3>2. /\ msgs \in Seq(Message) /\ Len(msgs) = 2 /\ DOMAIN msgs = 1 .. 2
            /\ msgs[1] = e /\ msgs[2] = h
        <4> DEFINE a == <<e>>
                   b == <<h>>
        <4>1. /\ msgs = a \o b /\ a \in Seq(Message) /\ b \in Seq(Message) /\ Len(a) = 1
              /\ Len(b) = 1 /\ a[1] = e /\ b[1] = h
          BY <1>10, <3>1
        <4> HIDE DEF a, b
        <4>2. IsJoined(Message, msgs, a, b)
          BY <4>1, Joined
        <4>3. 1 \in 1 .. 1 /\ 1 + 1 = 2
          OBVIOUS
        <4> QED BY <4>1, <4>2, <4>3 DEF IsJoined
      <3> QED BY <3>2
    <2>3. MsgsInv(p, msgs)
      BY <1>5, <1>10, <2>1, <2>2 DEF MsgsInv
    <2> QED BY <1>4, <1>5, <1>10, <2>2, <2>3 DEF Plain, IsHook, CompleteMsgsInv, h
  <1> QED BY <1>6, <1>7, <1>8, <1>9, <1>10

\* A proposal module handles a message.
LEMMA PmHandler ==
    ASSUME NEW s, Settled(s), NEW from \in Addr, NEW m, MsgInv(from, m), m.to \in Pms,
           ~Special(from, m), NEW r \in execute_pm(s, m.to, from, m.body)
    PROVE  Result(s, from, m, r.store, r.msgs)
  <1> DEFINE c == m.body
             p == m.to
  <1>1. m \in Message /\ c \in Body
    BY DEF MsgInv, Message
  <1>2. StoreInv(s) /\ s \in Store
    BY DEF Settled, StoreInv
  <1>3. CASE c.kind = "propose_internal"
    <2>1. c.proposer \in Addr /\ from # Pre
      BY <1>1, <1>3, BodyFields DEF Special, Announces
    <2>2. r \in pm_propose(s, p, from, c.proposer)
      BY <1>3 DEF execute_pm
    <2>3. Below(s, Len(s.pm[Pm].proposals))
      BY DEF Settled
    <2>4. Settled(r.store) /\ Kept(s, r.store) /\ r.msgs = <<>>
      BY <1>2, <2>1, <2>2, <2>3, ProposeHandler
    <2> QED BY <2>4, NoMsgs DEF Settled
  <1>4. CASE c.kind = "complete"
    <2> DEFINE id == c.id
               status == c.status
               policy == s.pm[p].policy
    <2>1. /\ id \in Ids /\ c.has_msgs \in BOOLEAN /\ status \in {"closed", "executed", "vetoed"}
      BY <1>1, <1>4, BodyFields
    <2>2. r \in pm_complete(s, p, id, status, c.has_msgs)
      BY <1>4 DEF execute_pm
    <2>3. /\ id \in DOMAIN s.pm[p].proposals /\ s.pm[p].proposals[id].status = "open"
          /\ c.has_msgs => p = Pm
          /\ r.store = WithProposals(s, p, [s.pm[p].proposals EXCEPT ![id].status = status])
          /\ r.msgs = Execution(id, status, c.has_msgs) \o CompletedHook(policy, id, status)
      <3> DEFINE has == c.has_msgs
      <3>1. r \in pm_complete(s, p, id, status, has)
        BY <2>2
      <3> HIDE DEF has, id, status, policy, p
      <3>2. Completes(s, p, id, status, has, r.store, r.msgs)
        BY <3>1, CompleteFields
      <3> QED BY <3>2 DEF Completes, has, policy
    <2>4. policy \in Addr \cup {Anyone} /\ s.pm[p].proposals \in Seq(Proposal)
      BY <1>2 DEF Store
    <2> HIDE DEF id, status, policy, p
    <2>5. CompleteMsgsInv(p, policy, id, status, r.msgs)
      <3> DEFINE has == c.has_msgs
      <3>1. /\ p \in Pms /\ has \in BOOLEAN /\ (has => p = Pm)
            /\ r.msgs = Execution(id, status, has) \o CompletedHook(policy, id, status)
        BY <2>1, <2>3 DEF p
      <3> HIDE DEF has
      <3> QED BY <2>1, <2>4, <3>1, CompleteMsgs
    <2>6. r.msgs # <<>> => ~Announces(p, Head(r.msgs)) /\ ~Pays(p, Head(r.msgs))
      BY <2>5, HeadMsg DEF CompleteMsgsInv, MsgsInv, Plain, Special
    <2>7. CASE p = Pm
      <3>1. status \in ProposalStatus /\ status # "open"
        BY <2>1 DEF ProposalStatus
      <3>2. r.store = WithStatus(s, id, status)
        BY <2>3, <2>7 DEF WithStatus
      <3>3. /\ Settled(r.store) /\ Kept(s, r.store)
            /\ id \in DOMAIN r.store.pm[Pm].proposals /\ r.store.pm[Pm].proposals[id].status = status
            /\ r.store.deposits = s.deposits /\ r.store.paid = s.paid
        BY <2>3, <2>7, <3>1, <3>2, StatusChanged
      <3>4. s.deposits[id] # NoEntry => s.paid[s.deposits[id].ref] = <<>>
        BY <1>2, <2>1, <2>3, <2>7, EntryRef DEF StoreInv, PaidIn
      <3>5. Owed(r.store, id, status)
        BY <2>1, <3>3, <3>4 DEF Owed, Passed
      <3>6. status = "executed" => Ran(r.store, id)
        BY <3>3 DEF Ran, Passed
      <3>7. NewMsgs(s, p, r.store, r.msgs)
        <4>1. HookMsg(policy, id, status).body.id = id /\ HookMsg(policy, id, status).body.status = status
              /\ HookMsg(policy, id, status).body.kind = "completed"
          BY DEF HookMsg, MsgReplyOnError
        <4>2. ASSUME NEW i \in DOMAIN r.msgs
              PROVE  /\ Expected(r.store, p, r.msgs[i])
                     /\ IsHook(p, r.msgs[i]) => r.msgs[i].body.id = id /\ i = Len(r.msgs)
          <5>1. CASE r.msgs[i] = HookMsg(policy, id, status) /\ i = Len(r.msgs)
            BY <3>5, <4>1, <5>1 DEF Expected, IsRun
          <5>2. CASE /\ ~IsHook(p, r.msgs[i]) /\ r.msgs[i].body.kind = "execute"
                     /\ status = "executed" /\ id_after_shift(r.msgs[i].reply_id) = id
            BY <3>6, <5>2 DEF Expected
          <5> QED BY <2>5, <5>1, <5>2 DEF CompleteMsgsInv
        <4>3. s.pm[Pm].proposals[id].status = "open"
          BY <2>3, <2>7
        <4> DEFINE ms == r.msgs
        <4>4. \A i \in DOMAIN ms : /\ Expected(r.store, p, ms[i])
                                   /\ IsHook(p, ms[i]) => ms[i].body.id = id /\ i = Len(ms)
          BY <4>2
        <4> HIDE DEF ms
        <4>5. NewMsgs(s, p, r.store, ms)
          BY <4>3, <4>4 DEF NewMsgs
        <4> QED BY <4>5 DEF ms
      <3> QED BY <2>5, <2>6, <3>3, <3>7 DEF Result, HeadInv, Settled, p, CompleteMsgsInv
    <2>8. CASE p # Pm
      <3>1. p = ApproverPm
        BY <2>8 DEF p, Pms
      <3>2. [s.pm[p].proposals EXCEPT ![id].status = status] \in Seq(Proposal)
        <4>1. s.pm[p].proposals[id] \in Proposal
          BY <2>3, <2>4
        <4>2. [s.pm[p].proposals[id] EXCEPT !.status = status] \in Proposal
          BY <2>1, <4>1 DEF Proposal, ProposalStatus
        <4> QED BY <2>3, <2>4, <4>2
      <3>3. Quiet(s, r.store)
        BY <2>3, <3>1, <3>2, OtherProposals
      <3>4. Settled(r.store) /\ Kept(s, r.store)
        BY <3>3, QuietKeeps
      <3>5. m.to # Pm /\ MsgsInv(m.to, r.msgs) /\ Plain(m.to, r.msgs)
        BY <2>5, <2>8 DEF p, CompleteMsgsInv
      <3> QED BY <3>4, <3>5, PlainMsgs DEF MsgsInv
    <2> QED BY <2>7, <2>8
  <1>5. CASE c.kind \notin {"propose_internal", "complete"}
    BY <1>5 DEF execute_pm
  <1> QED BY <1>3, <1>4, <1>5

----------------------------------------------------------------------------
(* Submissions *)

OptInfo == CheckedDepositInfo \cup {NoDeposit}

\* An entry is written for a proposal of the flow without an approver.
Noted(s, id, info, who) ==
    [s EXCEPT !.deposits[id] = [info |-> info, proposer |-> who, ref |-> id],
              !.terms[id] = [info |-> info, proposer |-> who]]

LEMMA NotedFields ==
    ASSUME NEW s \in Store, NEW id \in Ids, NEW info \in OptInfo, NEW who \in Addr, NEW t,
           t = Noted(s, id, info, who)
    PROVE  /\ t \in Store /\ t.config = s.config /\ t.pm = s.pm
           /\ t.flow = s.flow /\ t.current_id = s.current_id
           /\ t.pending = s.pending /\ t.completed = s.completed
           /\ t.created_to_completed = s.created_to_completed /\ t.paid = s.paid
           /\ t.bank = s.bank /\ t.withdrawn = s.withdrawn /\ t.approver = s.approver
           /\ t.deposits[id] = [info |-> info, proposer |-> who, ref |-> id]
           /\ t.terms[id] = [info |-> info, proposer |-> who]
           /\ \A p \in Ids : p # id => t.deposits[p] = s.deposits[p] /\ t.terms[p] = s.terms[p]
           /\ t.deposits[id] # NoEntry
  <1> DEFINE e == [info |-> info, proposer |-> who, ref |-> id]
             x == [info |-> info, proposer |-> who]
             T == [info : OptInfo, proposer : Addr \cup {"none"}]
             deposits == [s.deposits EXCEPT ![id] = e]
             terms == [s.terms EXCEPT ![id] = x]
  <1>1. e \in Entry /\ x \in T /\ e # NoEntry
    <2>1. who # "none"
      BY Addresses
    <2> QED BY <2>1 DEF Entry, NoEntry, OptInfo
  <1>2. s.deposits \in [Ids -> Entry \cup {NoEntry}] /\ s.terms \in [Ids -> T]
    BY DEF Store, OptInfo
  <1>3. t = [s EXCEPT !.deposits = deposits, !.terms = terms]
    BY DEF Noted
  <1> HIDE DEF e, x
  <1>4. /\ deposits \in [Ids -> Entry \cup {NoEntry}] /\ deposits[id] = e
        /\ terms \in [Ids -> T] /\ terms[id] = x
        /\ \A p \in Ids : p # id => deposits[p] = s.deposits[p] /\ terms[p] = s.terms[p]
    BY <1>1, <1>2
  <1> HIDE DEF deposits, terms
  <1>5. t.deposits = deposits /\ t.terms = terms
    BY <1>3 DEF Store
  <1>6. t \in Store
    BY <1>3, <1>4, ZenonT(40) DEF Store, OptInfo
  <1>7. /\ t.config = s.config /\ t.pm = s.pm
        /\ t.flow = s.flow /\ t.current_id = s.current_id
        /\ t.pending = s.pending /\ t.completed = s.completed
        /\ t.created_to_completed = s.created_to_completed /\ t.paid = s.paid
        /\ t.bank = s.bank /\ t.withdrawn = s.withdrawn /\ t.approver = s.approver
    BY <1>3 DEF Store
  <1> QED BY <1>1, <1>4, <1>5, <1>6, <1>7 DEF e, x

LEMMA NotedKeeps ==
    ASSUME NEW s, Settled(s), s.flow = "single", NEW info \in OptInfo, NEW who \in Addr,
           NextId(s) \in Ids, NEW t, t = Noted(s, NextId(s), info, who)
    PROVE  StoreInv(t) /\ Kept(s, t) /\ AnnouncedIn(t, who)
  <1> DEFINE id == NextId(s)
             n == Len(s.pm[Pm].proposals)
  <1>1. s \in Store /\ validate(s.config.submission_policy) /\ SingleIn(s)
    BY DEF Settled, StoreInv, SubmissionsIn
  <1>2. /\ t \in Store /\ t.config = s.config /\ t.pm = s.pm
        /\ t.flow = s.flow /\ t.current_id = s.current_id
        /\ t.pending = s.pending /\ t.completed = s.completed
        /\ t.created_to_completed = s.created_to_completed /\ t.paid = s.paid
        /\ t.deposits[id] = [info |-> info, proposer |-> who, ref |-> id]
        /\ t.terms[id] = [info |-> info, proposer |-> who]
        /\ \A p \in Ids : p # id => t.deposits[p] = s.deposits[p] /\ t.terms[p] = s.terms[p]
        /\ t.deposits[id] # NoEntry
    <2>1. id \in Ids /\ t = Noted(s, id, info, who)
      OBVIOUS
    <2> HIDE DEF id
    <2> QED BY <1>1, <2>1, NotedFields
  <1>3. /\ n \in Nat /\ id = n + 1 /\ DOMAIN s.pm[Pm].proposals = 1 .. n
        /\ s.pm[Pm].proposals \in Seq(Proposal)
    BY <1>1 DEF Store, Pms, NextId
  <1>4. id \notin DOMAIN s.pm[Pm].proposals
    BY <1>3
  <1> HIDE DEF id, n
  <1>5. SubmissionsIn(t)
    <2>1. t.deposits[id].ref = id /\ t.terms[id] = TermsOf(t.deposits[id])
      BY <1>2 DEF TermsOf
    <2> QED BY <1>1, <1>2, <2>1 DEF SubmissionsIn, SingleIn
  <1>6. EntriesIn(t)
    BY <1>2, <1>4 DEF Settled, StoreInv, EntriesIn
  <1>7. \A r : OutcomeIn(t, r) = OutcomeIn(s, r)
    BY <1>2 DEF OutcomeIn
  <1>8. PaidIn(t)
    <2> SUFFICES ASSUME NEW r \in Ids, s.paid[r] # <<>>
                 PROVE  OutcomeIn(t, r) # "open" /\ s.paid[r] = <<PromisedIn(t, r)>>
      BY <1>2 DEF PaidIn
    <2>1. OutcomeIn(s, r) # "open" /\ s.paid[r] = <<PromisedIn(s, r)>>
      BY DEF Settled, StoreInv, PaidIn
    <2>2. r # id
      BY <1>4, <2>1 DEF OutcomeIn
    <2> QED BY <1>2, <1>7, <2>1, <2>2 DEF PromisedIn
  <1>9. Kept(s, t)
    BY <1>2, <1>4 DEF Kept
  <1>10. AnnouncedIn(t, who)
    <2>1. NextId(t) = id
      BY <1>2 DEF NextId, id
    <2>2. Below(s, n)
      BY DEF Settled, n
    <2>3. Below(t, id)
      BY <1>2, <1>3, <2>2 DEF Below, Ids
    <2> QED BY <1>2, <2>1, <2>3 DEF AnnouncedIn, id
  <1> QED BY <1>1, <1>2, <1>5, <1>6, <1>8, <1>9, <1>10 DEF StoreInv

\* A submission without the approver's decision is open and not paid.
LEMMA UndecidedOpen ==
    ASSUME NEW s, StoreInv(s), s.flow = "approval", NEW r \in Ids, s.completed[r] = NoSubmission
    PROVE  OutcomeIn(s, r) = "open" /\ s.paid[r] = <<>>
  <1>1. s.completed[r].created = 0 /\ s.completed[r].status = "none"
    BY DEF NoSubmission
  <1>2. s.pm[Pm].proposals \in Seq(Proposal)
    BY DEF StoreInv, Store, Pms
  <1>3. 0 \notin DOMAIN s.pm[Pm].proposals
    BY <1>2
  <1>4. OutcomeIn(s, r) = "open"
    BY <1>1, <1>3 DEF OutcomeIn
  <1> QED BY <1>4 DEF StoreInv, PaidIn

\* A submission is made.
Awaiting(s, id, sub) ==
    [s EXCEPT !.current_id = id, !.pending[id] = sub,
              !.terms[id] = [info |-> sub.deposit, proposer |-> sub.proposer]]

LEMMA AwaitingFields ==
    ASSUME NEW s \in Store, NEW id \in Ids, NEW sub \in Submission, NEW t,
           t = Awaiting(s, id, sub)
    PROVE  /\ t \in Store /\ t.config = s.config /\ t.pm = s.pm /\ t.deposits = s.deposits
           /\ t.flow = s.flow /\ t.current_id = id /\ t.completed = s.completed
           /\ t.created_to_completed = s.created_to_completed /\ t.paid = s.paid
           /\ t.bank = s.bank /\ t.withdrawn = s.withdrawn /\ t.approver = s.approver
           /\ t.pending[id] = sub
           /\ t.terms[id] = [info |-> sub.deposit, proposer |-> sub.proposer]
           /\ \A r \in Ids : r # id => t.pending[r] = s.pending[r] /\ t.terms[r] = s.terms[r]
  <1> DEFINE x == [info |-> sub.deposit, proposer |-> sub.proposer]
             T == [info : OptInfo, proposer : Addr \cup {"none"}]
             S == Submission \cup {NoSubmission}
             pending == [s.pending EXCEPT ![id] = sub]
             terms == [s.terms EXCEPT ![id] = x]
  <1>1. x \in T /\ sub \in S
    BY DEF Submission, OptInfo
  <1>2. s.pending \in [Ids -> S] /\ s.terms \in [Ids -> T]
    BY DEF Store, OptInfo
  <1>3. t = [s EXCEPT !.current_id = id, !.pending = pending, !.terms = terms]
    BY DEF Awaiting
  <1> HIDE DEF x, S
  <1>4. /\ pending \in [Ids -> S] /\ pending[id] = sub
        /\ terms \in [Ids -> T] /\ terms[id] = x
        /\ \A r \in Ids : r # id => pending[r] = s.pending[r] /\ terms[r] = s.terms[r]
    BY <1>1, <1>2
  <1>5. id \in 0 .. MaxProposals
    BY DEF Ids
  <1> HIDE DEF pending, terms
  <1>6. t.pending = pending /\ t.terms = terms
    BY <1>3 DEF Store
  <1>7. t \in Store
    BY <1>3, <1>4, <1>5, ZenonT(40) DEF Store, OptInfo, S
  <1>8. /\ t.config = s.config /\ t.pm = s.pm /\ t.deposits = s.deposits
        /\ t.flow = s.flow /\ t.current_id = id /\ t.completed = s.completed
        /\ t.created_to_completed = s.created_to_completed /\ t.paid = s.paid
        /\ t.bank = s.bank /\ t.withdrawn = s.withdrawn /\ t.approver = s.approver
    BY <1>3 DEF Store
  <1> QED BY <1>4, <1>6, <1>7, <1>8 DEF x

LEMMA AwaitingKeeps ==
    ASSUME NEW s, Settled(s), s.flow = "approval", NEW id \in Ids, id = s.current_id + 1,
           NEW sub \in Submission, sub.status = "pending", sub.created = 0,
           NEW t, t = Awaiting(s, id, sub)
    PROVE  Settled(t) /\ Kept(s, t)
  <1>1. s \in Store /\ validate(s.config.submission_policy) /\ ApprovalIn(s) /\ StoreInv(s)
    BY DEF Settled, StoreInv, SubmissionsIn
  <1>2. /\ t \in Store /\ t.config = s.config /\ t.pm = s.pm /\ t.deposits = s.deposits
        /\ t.flow = s.flow /\ t.current_id = id /\ t.completed = s.completed
        /\ t.created_to_completed = s.created_to_completed /\ t.paid = s.paid
        /\ t.pending[id] = sub
        /\ t.terms[id] = [info |-> sub.deposit, proposer |-> sub.proposer]
        /\ \A r \in Ids : r # id => t.pending[r] = s.pending[r] /\ t.terms[r] = s.terms[r]
    BY <1>1, AwaitingFields
  <1>3. /\ s.current_id \in Nat /\ ~(id <= s.current_id)
        /\ \A r \in Ids : r # id => (r <= id <=> r <= s.current_id)
    BY <1>1 DEF Store, Ids
  <1>4. s.pending[id] = NoSubmission /\ s.completed[id] = NoSubmission
    BY <1>1, <1>3 DEF ApprovalIn, CountedIn
  <1>5. OutcomeIn(s, id) = "open" /\ s.paid[id] = <<>>
    BY <1>1, <1>4, UndecidedOpen
  <1>6. sub # NoSubmission
    BY DEF NoSubmission
  <1>7. ASSUME NEW r \in Ids
        PROVE  PendingIn(t, r) /\ CompletedIn(t, r) /\ CreatedIn(t, r) /\ CountedIn(t, r)
    <2>1. PendingIn(s, r) /\ CompletedIn(s, r) /\ CreatedIn(s, r) /\ CountedIn(s, r)
      BY <1>1 DEF ApprovalIn
    <2>2. PendingIn(t, r)
      BY <1>2, <2>1 DEF PendingIn
    <2>3. CompletedIn(t, r)
      BY <1>2, <2>1 DEF CompletedIn
    <2>4. CreatedIn(t, r)
      <3> DEFINE q == s.created_to_completed[r]
      <3>1. q # 0 => q \in Ids /\ q # id
        <4>1. q \in 0 .. MaxProposals
          BY <1>1 DEF Store
        <4>2. q # 0 => s.completed[q].status = "approved"
          BY <2>1 DEF CreatedIn
        <4>3. s.completed[id].status # "approved"
          BY <1>4 DEF NoSubmission
        <4> QED BY <4>1, <4>2, <4>3 DEF Ids
      <3>2. q # 0 => t.terms[q] = s.terms[q]
        BY <1>2, <3>1
      <3> QED BY <1>2, <2>1, <3>2 DEF CreatedIn
    <2>5. CountedIn(t, r)
      <3>1. CASE r = id
        BY <1>2, <1>3, <1>4, <1>6, <3>1 DEF CountedIn
      <3>2. CASE r # id
        BY <1>2, <1>3, <2>1, <3>2 DEF CountedIn
      <3> QED BY <3>1, <3>2
    <2> QED BY <2>2, <2>3, <2>4, <2>5
  <1>8. SubmissionsIn(t)
    BY <1>2, <1>7 DEF SubmissionsIn, ApprovalIn
  <1>9. EntriesIn(t)
    BY <1>1, <1>2 DEF StoreInv, EntriesIn
  <1>10. \A r : OutcomeIn(t, r) = OutcomeIn(s, r)
    BY <1>2 DEF OutcomeIn
  <1>11. PaidIn(t)
    <2> SUFFICES ASSUME NEW r \in Ids, s.paid[r] # <<>>
                 PROVE  OutcomeIn(t, r) # "open" /\ s.paid[r] = <<PromisedIn(t, r)>>
      BY <1>2 DEF PaidIn
    <2>1. OutcomeIn(s, r) # "open" /\ s.paid[r] = <<PromisedIn(s, r)>>
      BY <1>1 DEF StoreInv, PaidIn
    <2>2. r # id
      BY <1>5
    <2> QED BY <1>2, <1>10, <2>1, <2>2 DEF PromisedIn
  <1>12. Kept(s, t)
    BY <1>2 DEF Kept
  <1>13. Below(t, Len(t.pm[Pm].proposals))
    BY <1>2 DEF Settled, Below
  <1> QED BY <1>1, <1>2, <1>8, <1>9, <1>11, <1>12, <1>13 DEF Settled, StoreInv

\* A submission is approved: proposal pid is to be made of it.
Approved(s, id, pid, sub) ==
    [s EXCEPT !.deposits[pid] = [info |-> sub.deposit, proposer |-> sub.proposer, ref |-> id],
              !.completed[id] = [sub EXCEPT !.status = "approved", !.created = pid],
              !.created_to_completed[pid] = id,
              !.pending[id] = NoSubmission]

IsApproved(s, id, pid, sub, t) ==
    /\ t \in Store /\ t.config = s.config /\ t.pm = s.pm /\ t.terms = s.terms
    /\ t.flow = s.flow /\ t.current_id = s.current_id /\ t.paid = s.paid
    /\ t.bank = s.bank /\ t.withdrawn = s.withdrawn /\ t.approver = s.approver
    /\ t.deposits[pid] = [info |-> sub.deposit, proposer |-> sub.proposer, ref |-> id]
    /\ t.deposits[pid] # NoEntry /\ t.created_to_completed[pid] = id
    /\ \A p \in Ids : p # pid => /\ t.deposits[p] = s.deposits[p]
                                 /\ t.created_to_completed[p] = s.created_to_completed[p]
    /\ t.pending[id] = NoSubmission /\ t.completed[id] # NoSubmission
    /\ t.completed[id].status = "approved" /\ t.completed[id].created = pid
    /\ \A r \in Ids : r # id => /\ t.pending[r] = s.pending[r]
                                /\ t.completed[r] = s.completed[r]

LEMMA ApprovedFields ==
    ASSUME NEW s \in Store, NEW id \in Ids, NEW pid \in Ids, NEW sub \in Submission, NEW t,
           t = Approved(s, id, pid, sub)
    PROVE  IsApproved(s, id, pid, sub, t)
  <1> DEFINE e == [info |-> sub.deposit, proposer |-> sub.proposer, ref |-> id]
             x == [sub EXCEPT !.status = "approved", !.created = pid]
             S == Submission \cup {NoSubmission}
             deposits == [s.deposits EXCEPT ![pid] = e]
             completed == [s.completed EXCEPT ![id] = x]
             created == [s.created_to_completed EXCEPT ![pid] = id]
             pending == [s.pending EXCEPT ![id] = NoSubmission]
  <1>0. id \in 0 .. MaxProposals /\ pid \in 0 .. MaxProposals
    BY DEF Ids
  <1>1. /\ e \in Entry /\ e # NoEntry
    <2>1. sub.proposer \in Addr /\ sub.proposer # "none"
      BY Addresses DEF Submission
    <2> QED BY <2>1 DEF Entry, NoEntry, Submission
  <1>2. x \in Submission /\ x.status = "approved" /\ x.created = pid
    BY <1>0 DEF Submission
  <1>3. x # NoSubmission /\ x \in S /\ NoSubmission \in S
    BY <1>2 DEF NoSubmission
  <1>4. /\ s.deposits \in [Ids -> Entry \cup {NoEntry}] /\ s.completed \in [Ids -> S]
        /\ s.pending \in [Ids -> S] /\ s.created_to_completed \in [Ids -> 0 .. MaxProposals]
    BY DEF Store
  <1>5. t = [s EXCEPT !.deposits = deposits, !.completed = completed,
                      !.created_to_completed = created, !.pending = pending]
    BY DEF Approved
  <1> HIDE DEF e, x, S
  <1>6. /\ deposits \in [Ids -> Entry \cup {NoEntry}] /\ deposits[pid] = e
        /\ \A p \in Ids : p # pid => deposits[p] = s.deposits[p]
    BY <1>1, <1>4
  <1>7. /\ completed \in [Ids -> S] /\ completed[id] = x
        /\ \A r \in Ids : r # id => completed[r] = s.completed[r]
    BY <1>3, <1>4
  <1>8. /\ created \in [Ids -> 0 .. MaxProposals] /\ created[pid] = id
        /\ \A p \in Ids : p # pid => created[p] = s.created_to_completed[p]
    BY <1>0, <1>4
  <1>9. /\ pending \in [Ids -> S] /\ pending[id] = NoSubmission
        /\ \A r \in Ids : r # id => pending[r] = s.pending[r]
    BY <1>3, <1>4
  <1> HIDE DEF deposits, completed, created, pending
  <1>10. /\ t.deposits = deposits /\ t.completed = completed /\ t.pending = pending
         /\ t.created_to_completed = created
    BY <1>5 DEF Store
  <1>11. t \in Store
    <2> DEFINE u == [s EXCEPT !.deposits = deposits, !.completed = completed]
    <2>1. u \in Store
      BY <1>6, <1>7 DEF Store, S
    <2> DEFINE v == [u EXCEPT !.created_to_completed = created]
    <2>2. t = [v EXCEPT !.pending = pending]
      BY <1>5
    <2> HIDE DEF u
    <2>3. v \in Store
      BY <1>8, <2>1 DEF Store
    <2> HIDE DEF v
    <2> QED BY <1>9, <2>2, <2>3, ZenonT(40) DEF Store, S
  <1>12. /\ t.config = s.config /\ t.pm = s.pm /\ t.terms = s.terms
         /\ t.flow = s.flow /\ t.current_id = s.current_id /\ t.paid = s.paid
         /\ t.bank = s.bank /\ t.withdrawn = s.withdrawn /\ t.approver = s.approver
    BY <1>5 DEF Store
  <1> QED BY <1>1, <1>2, <1>3, <1>6, <1>7, <1>8, <1>9, <1>10, <1>11, <1>12 DEF e, IsApproved

LEMMA ApprovedKeeps ==
    ASSUME NEW s, Settled(s), s.flow = "approval", NEW id \in Ids, NEW sub, sub = s.pending[id],
           sub # NoSubmission, NextId(s) \in Ids, NEW t, t = Approved(s, id, NextId(s), sub)
    PROVE  StoreInv(t) /\ Kept(s, t) /\ AnnouncedIn(t, sub.proposer)
  <1> DEFINE pid == NextId(s)
             n == Len(s.pm[Pm].proposals)
  <1>1. s \in Store /\ validate(s.config.submission_policy) /\ ApprovalIn(s) /\ StoreInv(s)
    BY DEF Settled, StoreInv, SubmissionsIn
  <1>2. sub \in Submission
    BY <1>1 DEF Store
  <1>3. IsApproved(s, id, pid, sub, t)
    <2>1. pid \in Ids /\ t = Approved(s, id, pid, sub)
      OBVIOUS
    <2> HIDE DEF pid
    <2> QED BY <1>1, <1>2, <2>1, ApprovedFields
  <1>4. /\ n \in Nat /\ pid = n + 1 /\ DOMAIN s.pm[Pm].proposals = 1 .. n
        /\ s.pm[Pm].proposals \in Seq(Proposal)
    BY <1>1 DEF Store, Pms, NextId
  <1>5. pid \notin DOMAIN s.pm[Pm].proposals /\ pid \in Ids /\ pid # 0
    <2>1. pid \in Ids
      OBVIOUS
    <2> HIDE DEF pid, n
    <2> QED BY <1>4, <2>1
  <1>6. Below(s, n)
    BY DEF Settled
  <1> HIDE DEF pid, n
  <1>7. s.deposits[pid] = NoEntry
    BY <1>4, <1>5, <1>6 DEF Below
  <1>8. s.created_to_completed[pid] = 0
    BY <1>1, <1>5, <1>7 DEF ApprovalIn, CreatedIn
  <1>9. /\ s.completed[id] = NoSubmission /\ id <= s.current_id /\ id # 0
        /\ s.terms[id] = [info |-> sub.deposit, proposer |-> sub.proposer]
    BY <1>1 DEF ApprovalIn, CountedIn, PendingIn, Ids
  <1>10. OutcomeIn(s, id) = "open" /\ s.paid[id] = <<>>
    BY <1>1, <1>9, UndecidedOpen
  <1>11. ASSUME NEW r \in Ids
         PROVE  PendingIn(t, r) /\ CompletedIn(t, r) /\ CreatedIn(t, r) /\ CountedIn(t, r)
    <2>1. PendingIn(s, r) /\ CompletedIn(s, r) /\ CreatedIn(s, r) /\ CountedIn(s, r)
      BY <1>1 DEF ApprovalIn
    <2>2. PendingIn(t, r)
      BY <1>3, <2>1 DEF PendingIn, IsApproved
    <2>3. CompletedIn(t, r)
      <3>1. CASE r = id
        BY <1>3, <3>1 DEF CompletedIn, IsApproved
      <3>2. CASE r # id
        <4> DEFINE c == s.completed[r].created
        <4>1. c \in 0 .. MaxProposals
          <5>1. s.completed[r] \in Submission \cup {NoSubmission}
            BY <1>1 DEF Store
          <5>2. 0 \in 0 .. MaxProposals
            BY InputAssumption DEF InputAssumption
          <5> QED BY <5>1, <5>2 DEF Submission, NoSubmission
        <4>2. c # 0 => c \in Ids /\ c # pid
          BY <1>8, <2>1, <4>1 DEF CompletedIn, Ids
        <4> QED BY <1>3, <2>1, <3>2, <4>2 DEF CompletedIn, IsApproved
      <3> QED BY <3>1, <3>2
    <2>4. CreatedIn(t, r)
      <3>1. CASE r = pid
        BY <1>3, <1>9, <3>1 DEF CreatedIn, TermsOf, IsApproved
      <3>2. CASE r # pid
        <4> DEFINE q == s.created_to_completed[r]
        <4>1. q # 0 => q \in Ids /\ q # id
          <5>1. q \in 0 .. MaxProposals
            BY <1>1 DEF Store
          <5>2. q # 0 => s.completed[q].status = "approved"
            BY <2>1 DEF CreatedIn
          <5>3. s.completed[id].status # "approved"
            BY <1>9 DEF NoSubmission
          <5> QED BY <5>1, <5>2, <5>3 DEF Ids
        <4> QED BY <1>3, <2>1, <3>2, <4>1 DEF CreatedIn, IsApproved
      <3> QED BY <3>1, <3>2
    <2>5. CountedIn(t, r)
      BY <1>3, <1>9, <2>1 DEF CountedIn, IsApproved
    <2> QED BY <2>2, <2>3, <2>4, <2>5
  <1>12. SubmissionsIn(t)
    BY <1>3, <1>11 DEF SubmissionsIn, ApprovalIn, IsApproved
  <1>13. EntriesIn(t)
    BY <1>1, <1>3, <1>5 DEF StoreInv, EntriesIn, IsApproved
  <1>14. \A r \in Ids : r # id => OutcomeIn(t, r) = OutcomeIn(s, r)
    BY <1>3 DEF OutcomeIn, IsApproved
  <1>15. PaidIn(t)
    <2> SUFFICES ASSUME NEW r \in Ids, s.paid[r] # <<>>
                 PROVE  OutcomeIn(t, r) # "open" /\ s.paid[r] = <<PromisedIn(t, r)>>
      BY <1>3 DEF PaidIn, IsApproved
    <2>1. OutcomeIn(s, r) # "open" /\ s.paid[r] = <<PromisedIn(s, r)>>
      BY <1>1 DEF StoreInv, PaidIn
    <2>2. r # id
      BY <1>10
    <2> QED BY <1>3, <1>14, <2>1, <2>2 DEF PromisedIn, IsApproved
  <1>16. Kept(s, t)
    BY <1>3, <1>5 DEF Kept, IsApproved
  <1>17. AnnouncedIn(t, sub.proposer)
    <2>1. NextId(t) = pid
      <3>1. t.pm = s.pm
        BY <1>3 DEF IsApproved
      <3> QED BY <3>1 DEF NextId, pid
    <2>2. Below(t, pid)
      BY <1>3, <1>4, <1>6 DEF Below, Ids, IsApproved
    <2> QED BY <1>3, <1>5, <2>1, <2>2 DEF AnnouncedIn, IsApproved
  <1> QED BY <1>1, <1>3, <1>12, <1>13, <1>15, <1>16, <1>17 DEF StoreInv, IsApproved

\* A submission is rejected.
Rejected(s, id, sub) ==
    [s EXCEPT !.completed[id] = [sub EXCEPT !.status = "rejected"],
              !.pending[id] = NoSubmission]

IsRejected(s, id, t) ==
    /\ t \in Store /\ t.config = s.config /\ t.pm = s.pm /\ t.terms = s.terms
    /\ t.flow = s.flow /\ t.current_id = s.current_id /\ t.paid = s.paid
    /\ t.bank = s.bank /\ t.withdrawn = s.withdrawn /\ t.approver = s.approver
    /\ t.deposits = s.deposits /\ t.created_to_completed = s.created_to_completed
    /\ t.pending[id] = NoSubmission /\ t.completed[id] # NoSubmission
    /\ t.completed[id].status = "rejected" /\ t.completed[id].created = 0
    /\ \A r \in Ids : r # id => /\ t.pending[r] = s.pending[r]
                                /\ t.completed[r] = s.completed[r]

LEMMA PendingReplaced ==
    ASSUME NEW s \in Store, NEW pending \in [Ids -> Submission \cup {NoSubmission}]
    PROVE  [s EXCEPT !.pending = pending] \in Store
  BY DEF Store

LEMMA RejectedFields ==
    ASSUME NEW s \in Store, NEW id \in Ids, NEW sub \in Submission, sub.created = 0, NEW t,
           t = Rejected(s, id, sub)
    PROVE  IsRejected(s, id, t)
  <1> DEFINE x == [sub EXCEPT !.status = "rejected"]
             S == Submission \cup {NoSubmission}
             completed == [s.completed EXCEPT ![id] = x]
             pending == [s.pending EXCEPT ![id] = NoSubmission]
  <1>1. x \in Submission /\ x.status = "rejected" /\ x.created = 0
    BY DEF Submission
  <1>2. x # NoSubmission /\ x \in S /\ NoSubmission \in S
    BY <1>1 DEF NoSubmission
  <1>3. s.completed \in [Ids -> S] /\ s.pending \in [Ids -> S]
    BY DEF Store
  <1>4. t = [s EXCEPT !.completed = completed, !.pending = pending]
    BY DEF Rejected
  <1> HIDE DEF x, S
  <1>5. /\ completed \in [Ids -> S] /\ completed[id] = x
        /\ \A r \in Ids : r # id => completed[r] = s.completed[r]
    BY <1>2, <1>3
  <1>6. /\ pending \in [Ids -> S] /\ pending[id] = NoSubmission
        /\ \A r \in Ids : r # id => pending[r] = s.pending[r]
    BY <1>2, <1>3
  <1> HIDE DEF completed, pending
  <1>7. t.completed = completed /\ t.pending = pending
    BY <1>4 DEF Store
  <1>8. t \in Store
    <2> DEFINE u == [s EXCEPT !.completed = completed]
    <2>1. u \in Store
      BY <1>5 DEF Store, S
    <2>2. t = [u EXCEPT !.pending = pending]
      BY <1>4
    <2>3. pending \in [Ids -> Submission \cup {NoSubmission}]
      BY <1>6 DEF S
    <2> HIDE DEF u
    <2> QED BY <2>1, <2>2, <2>3, PendingReplaced
  <1>9. /\ t.config = s.config /\ t.pm = s.pm /\ t.terms = s.terms
        /\ t.flow = s.flow /\ t.current_id = s.current_id /\ t.paid = s.paid
        /\ t.bank = s.bank /\ t.withdrawn = s.withdrawn /\ t.approver = s.approver
        /\ t.deposits = s.deposits /\ t.created_to_completed = s.created_to_completed
    BY <1>4 DEF Store
  <1> QED BY <1>1, <1>2, <1>5, <1>6, <1>7, <1>8, <1>9 DEF IsRejected

\* To whom the deposit of a rejected submission goes.
RejectTo(sub) == IF sub.deposit.refund_policy = "always" THEN sub.proposer ELSE Dao

LEMMA RejectedKeeps ==
    ASSUME NEW s, Settled(s), s.flow = "approval", NEW id \in Ids, NEW sub, sub = s.pending[id],
           sub # NoSubmission, NEW t, t = Rejected(s, id, sub)
    PROVE  /\ Settled(t) /\ Kept(s, t) /\ DueIn(t, id, RejectTo(sub))
           /\ \A p \in Ids : t.deposits[p] # NoEntry => t.deposits[p].ref # id
  <1>1. s \in Store /\ validate(s.config.submission_policy) /\ ApprovalIn(s) /\ StoreInv(s)
    BY DEF Settled, StoreInv, SubmissionsIn
  <1>2. sub \in Submission
    BY <1>1 DEF Store
  <1>3. /\ s.completed[id] = NoSubmission /\ id <= s.current_id /\ id # 0 /\ sub.created = 0
        /\ s.terms[id] = [info |-> sub.deposit, proposer |-> sub.proposer]
    BY <1>1 DEF ApprovalIn, CountedIn, PendingIn, Ids
  <1>4. IsRejected(s, id, t)
    BY <1>1, <1>2, <1>3, RejectedFields
  <1>5. OutcomeIn(s, id) = "open" /\ s.paid[id] = <<>>
    BY <1>1, <1>3, UndecidedOpen
  <1>6. \A p \in Ids : s.created_to_completed[p] # id
    BY <1>1, <1>3 DEF ApprovalIn, CreatedIn, NoSubmission
  <1>7. ASSUME NEW r \in Ids
        PROVE  PendingIn(t, r) /\ CompletedIn(t, r) /\ CreatedIn(t, r) /\ CountedIn(t, r)
    <2>1. PendingIn(s, r) /\ CompletedIn(s, r) /\ CreatedIn(s, r) /\ CountedIn(s, r)
      BY <1>1 DEF ApprovalIn
    <2>2. PendingIn(t, r)
      BY <1>4, <2>1 DEF PendingIn, IsRejected
    <2>3. CompletedIn(t, r)
      BY <1>4, <2>1 DEF CompletedIn, IsRejected
    <2>4. CreatedIn(t, r)
      <3> DEFINE q == s.created_to_completed[r]
      <3>1. q # 0 => q \in Ids /\ q # id
        <4>1. q \in 0 .. MaxProposals
          BY <1>1 DEF Store
        <4> QED BY <1>6, <4>1 DEF Ids
      <3> QED BY <1>4, <2>1, <3>1 DEF CreatedIn, IsRejected
    <2>5. CountedIn(t, r)
      BY <1>3, <1>4, <2>1 DEF CountedIn, IsRejected
    <2> QED BY <2>2, <2>3, <2>4, <2>5
  <1>8. SubmissionsIn(t)
    BY <1>4, <1>7 DEF SubmissionsIn, ApprovalIn, IsRejected
  <1>9. EntriesIn(t)
    BY <1>1, <1>4 DEF StoreInv, EntriesIn, IsRejected
  <1>10. \A r \in Ids : r # id => OutcomeIn(t, r) = OutcomeIn(s, r)
    BY <1>4 DEF OutcomeIn, IsRejected
  <1>11. OutcomeIn(t, id) = "rejected"
    BY <1>4 DEF OutcomeIn, IsRejected
  <1>12. PaidIn(t)
    <2> SUFFICES ASSUME NEW r \in Ids, s.paid[r] # <<>>
                 PROVE  OutcomeIn(t, r) # "open" /\ s.paid[r] = <<PromisedIn(t, r)>>
      BY <1>4 DEF PaidIn, IsRejected
    <2>1. OutcomeIn(s, r) # "open" /\ s.paid[r] = <<PromisedIn(s, r)>>
      BY <1>1 DEF StoreInv, PaidIn
    <2>2. r # id
      BY <1>5
    <2> QED BY <1>4, <1>10, <2>1, <2>2 DEF PromisedIn, IsRejected
  <1>13. Kept(s, t)
    BY <1>4 DEF Kept, IsRejected
  <1>14. Below(t, Len(t.pm[Pm].proposals))
    BY <1>4 DEF Settled, Below, IsRejected
  <1>15. DueIn(t, id, RejectTo(sub))
    <2>1. t.terms[id].info = sub.deposit /\ t.terms[id].proposer = sub.proposer
      BY <1>3, <1>4 DEF IsRejected
    <2>2. ~Passed("rejected")
      BY DEF Passed
    <2>3. PromisedIn(t, id) = RejectTo(sub)
      BY <1>11, <2>1, <2>2 DEF PromisedIn, RejectTo
    <2> QED BY <1>4, <1>5, <1>11, <2>3 DEF DueIn, IsRejected
  <1>16. \A p \in Ids : t.deposits[p] # NoEntry => t.deposits[p].ref # id
    <2>1. \A p \in Ids : s.deposits[p] # NoEntry => s.deposits[p].ref = s.created_to_completed[p]
      BY <1>1 DEF ApprovalIn, CreatedIn
    <2> QED BY <1>4, <1>6, <2>1 DEF IsRejected
  <1> QED BY <1>1, <1>4, <1>8, <1>9, <1>12, <1>13, <1>14, <1>15, <1>16
          DEF Settled, StoreInv, IsRejected

----------------------------------------------------------------------------
(* The messages of Pre *)

LEMMA KeptTwice ==
    ASSUME NEW s, NEW t, NEW u, Kept(s, t), Kept(t, u)
    PROVE  Kept(s, u)
  <1>1. ASSUME NEW id \in DOMAIN s.pm[Pm].proposals
        PROVE  /\ id \in DOMAIN u.pm[Pm].proposals
               /\ id \in Ids => u.deposits[id] = s.deposits[id]
               /\ s.pm[Pm].proposals[id].status # "open" =>
                      \/ u.pm[Pm].proposals[id].status = s.pm[Pm].proposals[id].status
                      \/ /\ Passed(s.pm[Pm].proposals[id].status)
                         /\ Passed(u.pm[Pm].proposals[id].status)
    <2>1. id \in DOMAIN t.pm[Pm].proposals
      BY DEF Kept
    <2>2. ~Passed("open")
      BY DEF Passed
    <2> QED BY <2>1, <2>2 DEF Kept
  <1>2. u.paid = s.paid
    BY DEF Kept
  <1> QED BY <1>1, <1>2 DEF Kept

\* Messages of Pre that rely on nothing.
Harmless(msgs) ==
    /\ msgs \in Seq(Message)
    /\ \A i \in DOMAIN msgs : MsgInv(Pre, msgs[i]) /\ ~Special(Pre, msgs[i])

LEMMA JoinedHarmless ==
    ASSUME NEW a, NEW b, Harmless(a), Harmless(b)
    PROVE  Harmless(a \o b)
  <1> DEFINE q == a \o b
  <1>1. a \in Seq(Message) /\ b \in Seq(Message) /\ DOMAIN a = 1 .. Len(a) /\ DOMAIN b = 1 .. Len(b)
    BY DEF Harmless
  <1>2. IsJoined(Message, q, a, b)
    BY <1>1, Joined
  <1> HIDE DEF q
  <1>3. ASSUME NEW i \in DOMAIN q
        PROVE  MsgInv(Pre, q[i]) /\ ~Special(Pre, q[i])
    <2>1. CASE i \in 1 .. Len(a)
      BY <1>1, <1>2, <2>1 DEF IsJoined, Harmless
    <2>2. CASE i - Len(a) \in 1 .. Len(b)
      <3> DEFINE j == i - Len(a)
      <3>1. i \in Int /\ Len(a) \in Nat /\ Len(a) + j = i
        BY <1>2 DEF IsJoined
      <3>2. j \in 1 .. Len(b)
        BY <2>2
      <3> HIDE DEF j
      <3>3. q[i] = b[j]
        BY <1>2, <3>1, <3>2 DEF IsJoined
      <3> QED BY <1>1, <3>2, <3>3 DEF Harmless
    <2> QED BY <1>2, <2>1, <2>2 DEF IsJoined
  <1>4. Harmless(q)
    BY <1>2, <1>3 DEF Harmless, IsJoined
  <1> QED BY <1>4 DEF q

\* Messages of Pre that start with x.
StartWith(x, msgs) == MsgsInv(Pre, msgs) /\ msgs # <<>> /\ Head(msgs) = x

LEMMA StartJoined ==
    ASSUME NEW x, NEW a, NEW b, StartWith(x, a), Harmless(b)
    PROVE  StartWith(x, a \o b)
  <1> DEFINE q == a \o b
  <1>1. a \in Seq(Message) /\ b \in Seq(Message) /\ DOMAIN a = 1 .. Len(a) /\ DOMAIN b = 1 .. Len(b)
    BY DEF Harmless, StartWith, MsgsInv
  <1>2. IsJoined(Message, q, a, b)
    BY <1>1, Joined
  <1>3. a[1] = x /\ 1 \in 1 .. Len(a)
    BY <1>1, HeadMsg DEF StartWith
  <1> HIDE DEF q
  <1>4. q[1] = x /\ q \in Seq(Message) /\ q # <<>>
    BY <1>2, <1>3 DEF IsJoined
  <1>5. Head(q) = x
    BY <1>4
  <1>6. ASSUME NEW i \in DOMAIN q
        PROVE  MsgInv(Pre, q[i]) /\ (i # 1 => ~Special(Pre, q[i]))
    <2>1. CASE i \in 1 .. Len(a)
      BY <1>1, <1>2, <2>1 DEF IsJoined, StartWith, MsgsInv
    <2>2. CASE i - Len(a) \in 1 .. Len(b)
      <3> DEFINE j == i - Len(a)
      <3>1. i \in Int /\ Len(a) \in Nat /\ Len(a) + j = i
        BY <1>2 DEF IsJoined
      <3>2. j \in 1 .. Len(b)
        BY <2>2
      <3> HIDE DEF j
      <3>3. q[i] = b[j]
        BY <1>2, <3>1, <3>2 DEF IsJoined
      <3> QED BY <1>1, <3>2, <3>3 DEF Harmless
    <2> QED BY <1>2, <2>1, <2>2 DEF IsJoined
  <1>7. StartWith(x, q)
    BY <1>4, <1>5, <1>6 DEF StartWith, MsgsInv
  <1> QED BY <1>7 DEF q

\* The messages that a submission comes with.
LEMMA SubmissionMsgs ==
    ASSUME NEW s \in Store, NEW who \in Users, NEW ref \in Ids
    PROVE  /\ Harmless(SubmittedHooks(s, ref)) /\ Harmless(DepositMsgs(s, who))
           /\ StartWith(ProposeMsg(Pm, who), <<ProposeMsg(Pm, who)>>)
  <1>1. /\ Pre \in Addr /\ Pm \in Addr /\ who \in Addr /\ Pre \notin Pms /\ Pre \notin Users
        /\ Denom \subseteq Addr /\ "none" \notin Denom
    BY Addresses DEF Pms
  <1>2. Harmless(SubmittedHooks(s, ref))
    <2> DEFINE q == SubmittedHooks(s, ref)
               b == [kind |-> "submitted", ref |-> ref]
    <2>1. s.hooks \in Seq(Addr)
      BY DEF Store
    <2>2. b \in Body /\ b.kind = "submitted"
      BY DEF Body, ApproverMsg
    <2>3. /\ DOMAIN q = 1 .. Len(s.hooks) /\ Len(s.hooks) \in Nat
          /\ \A i \in DOMAIN q : q[i] = Msg(s.hooks[i], b) /\ s.hooks[i] \in Addr
      BY <2>1 DEF SubmittedHooks
    <2> HIDE DEF b
    <2>4. \A a \in Addr : MsgInv(Pre, Msg(a, b)) /\ ~Special(Pre, Msg(a, b)) /\ Msg(a, b) \in Message
      BY <1>1, <2>2 DEF MsgInv, Message, Msg, NoReply, Special, Announces, Pays
    <2>5. q = [i \in 1 .. Len(s.hooks) |-> q[i]]
      BY <2>3 DEF SubmittedHooks
    <2> HIDE DEF q
    <2>6. q \in Seq(Message)
      <3> DEFINE n == Len(s.hooks)
      <3>1. n \in Nat /\ \A i \in 1 .. n : q[i] \in Message
        BY <2>3, <2>4
      <3>2. q = [i \in 1 .. n |-> q[i]]
        BY <2>5
      <3> HIDE DEF n
      <3>3. q \in [1 .. n -> Message]
        BY <3>1, <3>2
      <3> QED BY <3>1, <3>3
    <2>7. Harmless(q)
      BY <2>3, <2>4, <2>6 DEF Harmless
    <2> QED BY <2>7 DEF q
  <1>3. Harmless(DepositMsgs(s, who))
    <2> DEFINE info == s.config.deposit_info
               b == [kind |-> "transfer_from", owner |-> who, to |-> Pre, amount |-> info.amount]
    <2>1. s.config.deposit_info \in CheckedDepositInfo \cup {NoDeposit}
      BY DEF Store, Config
    <2>2. CASE info.denom \in Cw20s
      <3>1. info.denom \in Denom
        BY <2>2 DEF Denom
      <3>2. info \in CheckedDepositInfo
        BY <1>1, <2>1, <3>1 DEF NoDeposit
      <3>3. info.amount \in Nat
        BY <3>2 DEF CheckedDepositInfo
      <3>4. DepositMsgs(s, who) = <<Msg(info.denom, b)>>
        BY <2>2 DEF DepositMsgs, get_take_deposit_messages
      <3>5. b \in Body /\ b.kind = "transfer_from"
        BY <3>3 DEF Body
      <3> DEFINE d == info.denom
      <3>6. d \in Addr
        BY <1>1, <3>1
      <3> HIDE DEF b, d
      <3>7. MsgInv(Pre, Msg(d, b)) /\ ~Special(Pre, Msg(d, b))
        BY <1>1, <3>5, <3>6 DEF MsgInv, Message, Msg, NoReply, Special, Announces, Pays
      <3> DEFINE x == Msg(d, b)
      <3>8. DepositMsgs(s, who) = <<x>>
        BY <3>4 DEF d
      <3> HIDE DEF x
      <3>9. MsgInv(Pre, x) /\ ~Special(Pre, x)
        BY <3>7 DEF x
      <3> QED BY <3>8, <3>9, OneMsg DEF Harmless
    <2>3. CASE info.denom \notin Cw20s
      <3>1. DepositMsgs(s, who) = <<>>
        BY <2>3 DEF DepositMsgs, get_take_deposit_messages
      <3> QED BY <3>1 DEF Harmless
    <2> QED BY <2>2, <2>3
  <1>4. StartWith(ProposeMsg(Pm, who), <<ProposeMsg(Pm, who)>>)
    <2> DEFINE b == [kind |-> "propose_internal", proposer |-> who]
               x == ProposeMsg(Pm, who)
    <2>1. b \in Body /\ b.kind = "propose_internal"
      BY <1>1 DEF Body, PmMsg
    <2>2. x = Msg(Pm, b)
      BY DEF ProposeMsg
    <2> HIDE DEF b, x
    <2>3. MsgInv(Pre, x)
      BY <1>1, <2>1, <2>2 DEF MsgInv, Message, Msg, NoReply
    <2>4. StartWith(x, <<x>>)
      BY <2>3, OneMsg DEF StartWith
    <2> QED BY <2>4 DEF x
  <1> QED BY <1>2, <1>3, <1>4

----------------------------------------------------------------------------
(* Pre *)

\* Messages that start with the proposal Pre has announced.
LEMMA AnnouncedMsgs ==
    ASSUME NEW s, NEW from, NEW m, m.to = Pre, NEW t, StoreInv(t), Kept(s, t), NEW who,
           AnnouncedIn(t, who), NEW msgs, StartWith(ProposeMsg(Pm, who), msgs)
    PROVE  Result(s, from, m, t, msgs)
  <1>1. Pre # Pm
    BY Addresses
  <1>2. /\ Head(msgs).body.kind = "propose_internal" /\ Head(msgs).body.proposer = who
    BY DEF StartWith, ProposeMsg, Msg
  <1>3. msgs # <<>> /\ Announces(Pre, Head(msgs)) /\ ~Pays(Pre, Head(msgs))
    BY <1>2 DEF StartWith, Announces, Pays
  <1>4. HeadInv(t, Pre, msgs)
    BY <1>2, <1>3 DEF HeadInv
  <1>5. NewMsgs(s, Pre, t, msgs)
    BY <1>1 DEF NewMsgs, Expected, IsHook, IsRun
  <1> QED BY <1>3, <1>4, <1>5 DEF Result, StartWith

\* A submission that becomes a proposal at once.
LEMMA SingleSubmission ==
    ASSUME NEW s, NEW t, Settled(t), Kept(s, t), t.flow = "single", NEW from \in Users, NEW m,
           m.to = Pre, NEW funds, NEW r \in execute_propose(t, from, funds)
    PROVE  Result(s, from, m, r.store, r.msgs)
  <1> DEFINE id == NextId(t)
             info == t.config.deposit_info
             g == /\ id \in Ids
                  /\ check_can_submit(t, from)
                  /\ DepositPaid(t, funds)
             u == Noted(t, id, info, from)
             a == <<ProposeMsg(Pm, from)>>
             b == SubmittedHooks(t, id)
             c == DepositMsgs(t, from)
  <1>1. t \in Store /\ info \in OptInfo /\ from \in Addr
    BY Addresses DEF Settled, StoreInv, Store, Config, OptInfo
  <1>2. execute_propose(t, from, funds) = Ok(g, u, (a \o b) \o c)
    BY DEF execute_propose, NextId, next_proposal_id, Noted
  <1>3. g \in BOOLEAN
    OBVIOUS
  <1>4. u = Noted(t, NextId(t), info, from)
    OBVIOUS
  <1> HIDE DEF g, u, a, b, c
  <1>5. g /\ r.store = u /\ r.msgs = (a \o b) \o c
    <2> DEFINE ms == (a \o b) \o c
    <2>1. execute_propose(t, from, funds) = Ok(g, u, ms)
      BY <1>2
    <2> HIDE DEF ms
    <2>2. g /\ r.store = u /\ r.msgs = ms
      BY <1>3, <2>1, OkFields
    <2> QED BY <2>2 DEF ms
  <1>6. NextId(t) \in Ids
    BY <1>5 DEF g
  <1>7. StoreInv(u) /\ Kept(t, u) /\ AnnouncedIn(u, from)
    <2> HIDE DEF info
    <2> QED BY <1>1, <1>4, <1>6, NotedKeeps
  <1>8. Harmless(b) /\ Harmless(c) /\ StartWith(ProposeMsg(Pm, from), a)
    BY <1>1, <1>6, SubmissionMsgs DEF a, b, c
  <1>9. StartWith(ProposeMsg(Pm, from), a \o b)
    BY <1>8, StartJoined
  <1>10. StartWith(ProposeMsg(Pm, from), (a \o b) \o c)
    BY <1>8, <1>9, StartJoined
  <1>11. Kept(s, u)
    BY <1>7, KeptTwice
  <1> QED BY <1>5, <1>7, <1>10, <1>11, AnnouncedMsgs

\* A submission that waits.
LEMMA ApprovalSubmission ==
    ASSUME NEW s, NEW t, Settled(t), Kept(s, t), t.flow = "approval", NEW from \in Users, NEW m,
           m.to = Pre, NEW funds, NEW r \in approval_execute_propose(t, from, funds)
    PROVE  Result(s, from, m, r.store, r.msgs)
  <1> DEFINE id == t.current_id + 1
             info == t.config.deposit_info
             sub == [status |-> "pending", created |-> 0, proposer |-> from, deposit |-> info]
             g == /\ id \in Ids
                  /\ check_can_submit(t, from)
                  /\ DepositPaid(t, funds)
             u == Awaiting(t, id, sub)
             b == DepositMsgs(t, from)
             c == SubmittedHooks(t, id)
  <1>1. t \in Store /\ info \in OptInfo /\ from \in Addr
    BY Addresses DEF Settled, StoreInv, Store, Config, OptInfo
  <1>2. approval_execute_propose(t, from, funds) = Ok(g, u, b \o c)
    BY DEF approval_execute_propose, Awaiting
  <1>3. g \in BOOLEAN
    OBVIOUS
  <1>4. 0 \in 0 .. MaxProposals
    BY InputAssumption DEF InputAssumption
  <1>5. sub \in Submission /\ sub.status = "pending" /\ sub.created = 0
    BY <1>1, <1>4 DEF Submission, OptInfo
  <1>6. u = Awaiting(t, id, sub) /\ id = t.current_id + 1
    OBVIOUS
  <1> HIDE DEF g, u, b, c, sub, id
  <1>7. g /\ r.store = u /\ r.msgs = b \o c
    <2> DEFINE ms == b \o c
    <2>1. approval_execute_propose(t, from, funds) = Ok(g, u, ms)
      BY <1>2
    <2> HIDE DEF ms
    <2>2. g /\ r.store = u /\ r.msgs = ms
      BY <1>3, <2>1, OkFields
    <2> QED BY <2>2 DEF ms
  <1>8. id \in Ids
    BY <1>7 DEF g
  <1>9. Settled(u) /\ Kept(t, u)
    BY <1>5, <1>6, <1>8, AwaitingKeeps
  <1>10. Harmless(b) /\ Harmless(c)
    BY <1>1, <1>8, SubmissionMsgs DEF b, c
  <1>11. Harmless(b \o c)
    BY <1>10, JoinedHarmless
  <1>12. Kept(s, u)
    BY <1>9, KeptTwice
  <1>13. m.to # Pm
    BY Addresses
  <1>14. r.msgs \in Seq(Message) /\ (\A i \in DOMAIN r.msgs : MsgInv(m.to, r.msgs[i])) /\ Plain(m.to, r.msgs)
    BY <1>7, <1>11 DEF Harmless, Plain
  <1> QED BY <1>7, <1>9, <1>12, <1>13, <1>14, PlainMsgs

LEMMA KeptSame ==
    ASSUME NEW s
    PROVE  Kept(s, s)
  BY DEF Kept

\* The coins that come along.
LEMMA ProposeMsgHandler ==
    ASSUME NEW s, Settled(s), NEW from \in Users, NEW m, m.to = Pre,
           NEW funds \in [denom : Denom, amount : Nat], NEW r \in pre_propose(s, from, funds)
    PROVE  Result(s, from, m, r.store, r.msgs)
  <1> DEFINE moved == Moved(s, funds.denom, from, Pre, funds.amount)
             t == IF funds.amount = 0 THEN s ELSE moved
  <1>1. funds.denom \in Denom /\ funds.amount \in Nat
    OBVIOUS
  <1>2. /\ ~(funds.amount # 0 /\ s.bank[funds.denom][from] < funds.amount)
        /\ s.flow = "single" => r \in execute_propose(t, from, funds)
        /\ s.flow # "single" => r \in approval_execute_propose(t, from, funds)
    BY DEF pre_propose
  <1>3. Settled(t) /\ Kept(s, t) /\ t.flow = s.flow
    <2>1. CASE funds.amount = 0
      BY <2>1, KeptSame
    <2>2. CASE funds.amount # 0
      <3>1. from \in Holders /\ s.bank[funds.denom][from] \in Nat
        BY <1>1 DEF Holders, Settled, StoreInv, Store
      <3>2. s.bank[funds.denom][from] >= funds.amount
        BY <1>1, <1>2, <2>2, <3>1
      <3>3. Quiet(s, moved)
        BY <1>1, <3>2, MovedQuiet
      <3> HIDE DEF moved
      <3>4. Settled(moved) /\ Kept(s, moved) /\ moved.flow = s.flow
        BY <3>3, QuietKeeps DEF Quiet, Same
      <3> QED BY <2>2, <3>4
    <2> QED BY <2>1, <2>2
  <1>4. s.flow \in {"single", "approval"}
    BY DEF Settled, StoreInv, SubmissionsIn
  <1> HIDE DEF t
  <1>5. CASE s.flow = "single"
    BY <1>2, <1>3, <1>5, SingleSubmission
  <1>6. CASE s.flow = "approval"
    <2>1. r \in approval_execute_propose(t, from, funds) /\ t.flow = "approval"
      BY <1>2, <1>3, <1>6
    <2> QED BY <1>3, <2>1, ApprovalSubmission
  <1> QED BY <1>4, <1>5, <1>6

\* A payment of Pre.
TransferMsg(d, to, amount, ref) ==
    Msg(d, [kind |-> "transfer", to |-> to, amount |-> amount, ref |-> ref])

LEMMA TransferFields ==
    ASSUME NEW d \in Denom, NEW to \in Addr, NEW amount \in Nat, NEW ref \in 0 .. MaxProposals,
           NEW x, x = TransferMsg(d, to, amount, ref)
    PROVE  /\ MsgInv(Pre, x) /\ x.body.kind = "transfer" /\ x.body.to = to /\ x.body.ref = ref
           /\ ~Announces(Pre, x) /\ (Pays(Pre, x) <=> ref # 0)
  <1> DEFINE b == [kind |-> "transfer", to |-> to, amount |-> amount, ref |-> ref]
  <1>1. Pre \notin Pms /\ d \in Addr
    BY Addresses DEF Pms
  <1>2. b \in Body /\ b.kind = "transfer" /\ b.to = to /\ b.ref = ref
    BY DEF Body
  <1>3. x = Msg(d, b)
    BY DEF TransferMsg
  <1> HIDE DEF b
  <1> QED BY <1>1, <1>2, <1>3 DEF MsgInv, Message, Msg, NoReply, Announces, Pays

\* A payment that is due is made.
LEMMA PaymentMsg ==
    ASSUME NEW s, NEW from, NEW m, m.to = Pre, NEW t, Settled(t), Kept(s, t),
           NEW d \in Denom, NEW to \in Addr, NEW amount \in Nat, NEW ref \in Ids,
           DueIn(t, ref, to), Disputes(t, ref, from, m)
    PROVE  Result(s, from, m, t, <<TransferMsg(d, to, amount, ref)>>)
  <1> DEFINE x == TransferMsg(d, to, amount, ref)
             ms == <<x>>
  <1>1. ref \in 0 .. MaxProposals /\ ref # 0
    BY DEF Ids
  <1>2. /\ MsgInv(Pre, x) /\ x.body.to = to /\ x.body.ref = ref /\ ~Announces(Pre, x)
    BY <1>1, TransferFields
  <1>3. Pre # Pm
    BY Addresses
  <1> HIDE DEF x
  <1>4. MsgsInv(Pre, ms) /\ Head(ms) = x /\ ms # <<>>
    BY <1>2, OneMsg
  <1> HIDE DEF ms
  <1>5. HeadInv(t, Pre, ms)
    BY <1>2, <1>4 DEF HeadInv, Settled
  <1>6. NewMsgs(s, Pre, t, ms)
    BY <1>3 DEF NewMsgs, Expected, IsHook, IsRun
  <1>7. Result(s, from, m, t, ms)
    BY <1>2, <1>4, <1>5, <1>6 DEF Result, Settled
  <1> QED BY <1>7 DEF ms, x

LEMMA WithdrawHandler ==
    ASSUME NEW s, Settled(s), NEW from, NEW m, m.to = Pre, NEW denom \in SUBSET Denom,
           NEW r \in execute_withdraw(s, from, denom)
    PROVE  Result(s, from, m, r.store, r.msgs)
  <1> DEFINE chosen == IF denom = {} THEN {s.config.deposit_info.denom} \cap Denom ELSE denom
  <1>1. chosen \subseteq Denom
    OBVIOUS
  <1>2. PICK d \in chosen : r \in Ok(from = Dao /\ s.bank[d][Pre] # 0, s,
                                     <<TransferMsg(d, Dao, s.bank[d][Pre], 0)>>)
    BY DEF execute_withdraw, TransferMsg
  <1> DEFINE g == from = Dao /\ s.bank[d][Pre] # 0
             x == TransferMsg(d, Dao, s.bank[d][Pre], 0)
             ms == <<x>>
  <1>3. r \in Ok(g, s, ms) /\ g \in BOOLEAN
    BY <1>2
  <1>4. s.bank[d][Pre] \in Nat /\ Dao \in Addr /\ d \in Denom
    BY <1>1, Addresses DEF Settled, StoreInv, Store, Holders
  <1>5. 0 \in 0 .. MaxProposals
    BY InputAssumption DEF InputAssumption
  <1>6. MsgInv(Pre, x) /\ ~Special(Pre, x)
    BY <1>4, <1>5, TransferFields DEF Special
  <1> HIDE DEF x, g
  <1>7. ms \in Seq(Message) /\ (\A i \in DOMAIN ms : MsgInv(Pre, ms[i])) /\ Plain(Pre, ms)
    BY <1>6, OneMsg
  <1> HIDE DEF ms
  <1>8. r.store = s /\ r.msgs = ms
    BY <1>3, OkFields
  <1>9. m.to # Pm /\ Kept(s, s)
    BY Addresses, KeptSame
  <1> QED BY <1>7, <1>8, <1>9, PlainMsgs

\* The hook of a completed proposal has its deposit paid out.
LEMMA HookHandler ==
    ASSUME NEW s, Settled(s), NEW from, NEW m, m.to = Pre, m.body.kind = "completed",
           m.body.id \in Ids, Expected(s, from, m),
           NEW r \in execute_proposal_completed_hook(s, from, m.body.id, m.body.status)
    PROVE  Result(s, from, m, r.store, r.msgs)
  <1> DEFINE id == m.body.id
             status == m.body.status
             entry == s.deposits[id]
             to == IF should_refund_to_proposer(status, entry.info.refund_policy)
                   THEN entry.proposer ELSE Dao
             g == from = Pm /\ status \in {"closed", "executed", "vetoed"}
             ms == IF entry.info = NoDeposit THEN <<>>
                   ELSE <<TransferMsg(entry.info.denom, to, entry.info.amount, entry.ref)>>
  <1>1. execute_proposal_completed_hook(s, from, id, status) = Ok(g, s, ms)
    BY DEF execute_proposal_completed_hook, get_return_deposit_message, TransferMsg
  <1>2. g \in BOOLEAN /\ r \in execute_proposal_completed_hook(s, from, id, status)
    OBVIOUS
  <1> HIDE DEF g, ms
  <1>3. g /\ r.store = s /\ r.msgs = ms
    BY <1>1, <1>2, OkFields
  <1>4. IsHook(from, m) /\ Owed(s, id, status)
    BY <1>3 DEF IsHook, Expected, g
  <1>5. CASE entry.info = NoDeposit
    <2>1. ms = <<>>
      BY <1>5 DEF ms
    <2> QED BY <1>3, <2>1, KeptSame, NoMsgs DEF Settled
  <1>6. CASE entry.info # NoDeposit
    <2>1. entry # NoEntry /\ StoreInv(s) /\ id \in Ids
      BY <1>6 DEF NoEntry, Settled
    <2>2. /\ entry \in Entry /\ entry.ref \in Ids /\ s.terms[entry.ref] = TermsOf(entry)
          /\ id \in DOMAIN s.pm[Pm].proposals =>
                 OutcomeIn(s, entry.ref) = s.pm[Pm].proposals[id].status
          /\ \A o \in Ids : s.deposits[o] # NoEntry /\ s.deposits[o].ref = entry.ref => o = id
      BY <2>1, EntryRef
    <2>3. /\ id \in DOMAIN s.pm[Pm].proposals /\ s.paid[entry.ref] = <<>>
          /\ status \in {"closed", "executed", "vetoed"}
          /\ IF status = "executed" THEN Passed(s.pm[Pm].proposals[id].status)
             ELSE s.pm[Pm].proposals[id].status = status
      BY <1>4, <2>1 DEF Owed
    <2>4. entry.info \in CheckedDepositInfo /\ entry.proposer \in Addr /\ Dao \in Addr
      BY <1>6, <2>2, Addresses DEF Entry
    <2>5. entry.info.denom \in Denom /\ entry.info.amount \in Nat
      BY <2>4 DEF CheckedDepositInfo
    <2>6. to \in Addr
      BY <2>4
    <2> DEFINE outcome == OutcomeIn(s, entry.ref)
    <2>7. outcome # "open" /\ (Passed(outcome) <=> status = "executed")
      <3>1. ~Passed("open") /\ ~Passed("closed") /\ ~Passed("vetoed")
        BY DEF Passed
      <3> QED BY <2>2, <2>3, <3>1
    <2>8. s.terms[entry.ref].info = entry.info /\ s.terms[entry.ref].proposer = entry.proposer
      BY <2>2 DEF TermsOf
    <2>9. PromisedIn(s, entry.ref) = to
      <3> HIDE DEF entry, outcome, status
      <3>1. PromisedIn(s, entry.ref) =
                IF \/ entry.info.refund_policy = "always"
                   \/ entry.info.refund_policy = "only_passed" /\ Passed(outcome)
                THEN entry.proposer ELSE Dao
        BY <2>8 DEF PromisedIn, outcome
      <3> QED BY <2>7, <3>1 DEF should_refund_to_proposer
    <2>10. DueIn(s, entry.ref, to)
      BY <2>2, <2>3, <2>7, <2>9 DEF DueIn
    <2>11. Disputes(s, entry.ref, from, m)
      BY <1>4, <2>2 DEF Disputes
    <2>12. ms = <<TransferMsg(entry.info.denom, to, entry.info.amount, entry.ref)>>
      BY <1>6 DEF ms
    <2> DEFINE d == entry.info.denom
               amount == entry.info.amount
               ref == entry.ref
    <2> HIDE DEF to
    <2>13. /\ ms = <<TransferMsg(d, to, amount, ref)>> /\ d \in Denom /\ amount \in Nat
           /\ ref \in Ids /\ DueIn(s, ref, to) /\ Disputes(s, ref, from, m)
      BY <2>2, <2>5, <2>10, <2>11, <2>12
    <2> HIDE DEF d, amount, ref
    <2>14. Result(s, from, m, s, <<TransferMsg(d, to, amount, ref)>>)
      BY <2>6, <2>13, KeptSame, PaymentMsg
    <2> QED BY <1>3, <2>13, <2>14
  <1> QED BY <1>5, <1>6

LEMMA ApproveHandler ==
    ASSUME NEW s, Settled(s), NEW from, NEW m, m.to = Pre, NEW id \in Ids,
           NEW r \in execute_approve(s, from, id)
    PROVE  Result(s, from, m, r.store, r.msgs)
  <1> DEFINE sub == s.pending[id]
             g == /\ from = s.approver
                  /\ sub # NoSubmission
                  /\ NextId(s) \in Ids
             u == Approved(s, id, NextId(s), sub)
             x == ProposeMsg(Pm, sub.proposer)
             ms == <<x>>
  <1>1. execute_approve(s, from, id) = Ok(g, u, ms)
    BY DEF execute_approve, next_proposal_id, NextId, Approved
  <1>2. g \in BOOLEAN
    OBVIOUS
  <1> HIDE DEF g, u, ms
  <1>3. g /\ r.store = u /\ r.msgs = ms
    BY <1>1, <1>2, OkFields
  <1>4. sub # NoSubmission /\ NextId(s) \in Ids /\ s \in Store
    BY <1>3 DEF g, Settled, StoreInv
  <1>5. s.flow = "approval"
    BY <1>4 DEF Settled, StoreInv, SubmissionsIn, SingleIn
  <1>6. sub \in Submission
    BY <1>4 DEF Store
  <1> HIDE DEF sub, x
  <1>7. StoreInv(u) /\ Kept(s, u) /\ AnnouncedIn(u, sub.proposer)
    BY <1>4, <1>5, ApprovedKeeps DEF u, sub
  <1>8. StartWith(ProposeMsg(Pm, sub.proposer), ms)
    <2> DEFINE b == [kind |-> "propose_internal", proposer |-> sub.proposer]
    <2>1. sub.proposer \in Addr /\ Pm \in Addr /\ Pre \notin Pms
      BY <1>6, Addresses DEF Submission, Pms
    <2>2. b \in Body /\ b.kind = "propose_internal"
      BY <2>1 DEF Body, PmMsg
    <2>3. x = Msg(Pm, b)
      BY DEF ProposeMsg, x
    <2> HIDE DEF b
    <2>4. MsgInv(Pre, x)
      BY <2>1, <2>2, <2>3 DEF MsgInv, Message, Msg, NoReply
    <2>5. StartWith(x, <<x>>)
      BY <2>4, OneMsg DEF StartWith
    <2> QED BY <2>5 DEF x, ms
  <1> DEFINE who == sub.proposer
  <1>9. AnnouncedIn(u, who) /\ StartWith(ProposeMsg(Pm, who), ms)
    BY <1>7, <1>8
  <1> HIDE DEF who
  <1> QED BY <1>3, <1>7, <1>9, AnnouncedMsgs

LEMMA RejectHandler ==
    ASSUME NEW s, Settled(s), NEW from, NEW m, m.to = Pre, NEW id \in Ids,
           NEW r \in execute_reject(s, from, id)
    PROVE  Result(s, from, m, r.store, r.msgs)
  <1> DEFINE sub == s.pending[id]
             g == /\ from = s.approver
                  /\ sub # NoSubmission
             u == Rejected(s, id, sub)
             to == RejectTo(sub)
             ms == IF sub.deposit = NoDeposit THEN <<>>
                   ELSE <<TransferMsg(sub.deposit.denom, to, sub.deposit.amount, id)>>
  <1>1. execute_reject(s, from, id) = Ok(g, u, ms)
    BY DEF execute_reject, Rejected, RejectTo, get_return_deposit_message, TransferMsg
  <1>2. g \in BOOLEAN
    OBVIOUS
  <1> HIDE DEF g, u, ms
  <1>3. g /\ r.store = u /\ r.msgs = ms
    BY <1>1, <1>2, OkFields
  <1>4. sub # NoSubmission /\ s \in Store
    BY <1>3 DEF g, Settled, StoreInv
  <1>5. s.flow = "approval"
    BY <1>4 DEF Settled, StoreInv, SubmissionsIn, SingleIn
  <1>6. sub \in Submission
    BY <1>4 DEF Store
  <1>7. /\ Settled(u) /\ Kept(s, u) /\ DueIn(u, id, to)
        /\ \A p \in Ids : u.deposits[p] # NoEntry => u.deposits[p].ref # id
    BY <1>4, <1>5, RejectedKeeps DEF u
  <1>8. sub.proposer \in Addr /\ Dao \in Addr /\ sub.deposit \in CheckedDepositInfo \cup {NoDeposit}
    BY <1>6, Addresses DEF Submission
  <1>9. to \in Addr
    BY <1>8 DEF RejectTo
  <1> HIDE DEF to
  <1>10. CASE sub.deposit = NoDeposit
    <2>1. ms = <<>>
      BY <1>10 DEF ms
    <2> QED BY <1>3, <1>7, <2>1, NoMsgs DEF Settled
  <1>11. CASE sub.deposit # NoDeposit
    <2> DEFINE d == sub.deposit.denom
               amount == sub.deposit.amount
    <2>1. d \in Denom /\ amount \in Nat
      BY <1>8, <1>11 DEF CheckedDepositInfo
    <2>2. ms = <<TransferMsg(d, to, amount, id)>>
      BY <1>11 DEF ms
    <2>3. Disputes(u, id, from, m)
      BY <1>7 DEF Disputes
    <2> HIDE DEF d, amount
    <2>4. Result(s, from, m, u, <<TransferMsg(d, to, amount, id)>>)
      BY <1>7, <1>9, <2>1, <2>3, PaymentMsg
    <2> QED BY <1>3, <2>2, <2>4
  <1> QED BY <1>10, <1>11

\* Pre handles a message.
LEMMA PreHandler ==
    ASSUME NEW s, Settled(s), NEW from \in Addr, NEW m, MsgInv(from, m), m.to = Pre,
           Expected(s, from, m), NEW r \in execute_pre(s, from, m.body)
    PROVE  Result(s, from, m, r.store, r.msgs)
  <1> DEFINE c == m.body
  <1>1. m \in Message /\ c \in Body
    BY DEF MsgInv, Message
  <1>2. ASSUME Quiet(s, r.store), r.msgs = <<>>
        PROVE  Result(s, from, m, r.store, r.msgs)
    BY <1>2, QuietKeeps, NoMsgs DEF Settled
  <1>3. CASE c.kind = "propose"
    <2>1. from \in Users /\ c.funds \in [denom : Denom, amount : Nat]
      BY <1>1, <1>3, BodyFields DEF MsgInv
    <2>2. r \in pre_propose(s, from, c.funds)
      BY <1>3 DEF execute_pre
    <2> DEFINE funds == c.funds
    <2>3. funds \in [denom : Denom, amount : Nat] /\ r \in pre_propose(s, from, funds)
      BY <2>1, <2>2
    <2> HIDE DEF funds
    <2> QED BY <2>1, <2>3, ProposeMsgHandler
  <1>4. CASE c.kind = "update_config"
    <2> DEFINE info == c.deposit_info
               policy == c.policy
    <2>1. /\ info \in DepositInfo \cup {NoDeposit} /\ policy \in SUBSET PreProposeSubmissionPolicy
          /\ r \in execute_update_config(s, from, info, policy)
      BY <1>1, <1>4, BodyFields DEF execute_pre
    <2> HIDE DEF info, policy
    <2> QED BY <1>2, <2>1, UpdateConfig
  <1>5. CASE c.kind = "update_submission_policy"
    <2> DEFINE u == c.update
    <2>1. u \in PolicyUpdate /\ r \in execute_update_submission_policy(s, from, u)
      BY <1>1, <1>5, BodyFields DEF execute_pre
    <2> HIDE DEF u
    <2> QED BY <1>2, <2>1, UpdatePolicy
  <1>6. CASE c.kind = "withdraw"
    <2> DEFINE d == c.denom
    <2>1. d \in SUBSET Denom /\ r \in execute_withdraw(s, from, d)
      BY <1>1, <1>6, BodyFields DEF execute_pre
    <2> HIDE DEF d
    <2> QED BY <2>1, WithdrawHandler
  <1>7. CASE c.kind \in {"add_hook", "remove_hook"}
    <2> DEFINE a == c.addr
               allowed == may_change_hooks(s, from)
    <2>1. /\ a \in Addr
          /\ \/ r \in execute_add_proposal_submitted_hook(s, allowed, a)
             \/ r \in execute_remove_proposal_submitted_hook(s, allowed, a)
      BY <1>1, <1>7, BodyFields DEF execute_pre
    <2> HIDE DEF a, allowed
    <2> QED BY <1>2, <2>1, UpdateHooks
  <1>8. CASE c.kind = "completed"
    <2>1. c.id \in Ids /\ r \in execute_proposal_completed_hook(s, from, c.id, c.status)
      BY <1>1, <1>8, BodyFields DEF execute_pre
    <2> QED BY <1>8, <2>1, HookHandler
  <1>9. CASE c.kind = "approve"
    <2> DEFINE id == c.id
    <2>1. id \in Ids /\ r \in execute_approve(s, from, id)
      BY <1>1, <1>9, BodyFields DEF execute_pre
    <2> HIDE DEF id
    <2> QED BY <2>1, ApproveHandler
  <1>10. CASE c.kind = "reject"
    <2> DEFINE id == c.id
    <2>1. id \in Ids /\ r \in execute_reject(s, from, id)
      BY <1>1, <1>10, BodyFields DEF execute_pre
    <2> HIDE DEF id
    <2> QED BY <2>1, RejectHandler
  <1>11. CASE c.kind = "update_approver"
    <2> DEFINE a == c.addr
    <2>1. a \in Addr /\ r \in execute_update_approver(s, from, a)
      BY <1>1, <1>11, BodyFields DEF execute_pre
    <2> HIDE DEF a
    <2> QED BY <1>2, <2>1, UpdateApprover
  <1>12. CASE c.kind \notin {"propose", "update_config", "update_submission_policy", "withdraw",
                             "add_hook", "remove_hook", "completed", "approve", "reject",
                             "update_approver"}
    BY <1>12 DEF execute_pre
  <1> QED BY <1>3, <1>4, <1>5, <1>6, <1>7, <1>8, <1>9, <1>10, <1>11, <1>12

\* A contract handles a message that Pre does not rely on the moment for.
LEMMA Handler ==
    ASSUME NEW s, Settled(s), NEW from \in Addr, NEW m, MsgInv(from, m), m.to \in Contracts,
           ~Special(from, m), Expected(s, from, m), NEW r \in execute(s, m.to, from, m.body)
    PROVE  Result(s, from, m, r.store, r.msgs)
  <1>1. /\ Pre # Approver /\ Pre \notin Pms /\ Approver \notin Pms
        /\ {Pre, Approver} \cap Denom = {} /\ Pms \cap Denom = {}
    BY Addresses DEF Pms
  <1>2. CASE m.to = Pre
    <2>1. r \in execute_pre(s, from, m.body)
      BY <1>1, <1>2 DEF execute
    <2> QED BY <1>2, <2>1, PreHandler
  <1>3. CASE m.to = Approver
    <2>1. r \in execute_approver(s, from, m.body)
      BY <1>1, <1>3 DEF execute
    <2> QED BY <1>3, <2>1, ApproverHandler
  <1>4. CASE m.to \in Pms
    <2>1. r \in execute_pm(s, m.to, from, m.body)
      BY <1>1, <1>4 DEF execute
    <2> QED BY <1>4, <2>1, PmHandler
  <1>5. CASE m.to \in Denom
    <2>1. r \in execute_token(s, m.to, from, m.body)
      BY <1>1, <1>5 DEF execute
    <2> QED BY <1>5, <2>1, TokenHandler
  <1> QED BY <1>2, <1>3, <1>4, <1>5 DEF Contracts

----------------------------------------------------------------------------
(* Stacks *)

AllPlain(st) == \A k \in DOMAIN st : Plain(st[k].to, st[k].pending)

\* The hooks under way, and the storages that may be gone back to.
SavedHooks(st) ==
    /\ \A k \in DOMAIN st : ExpectedBelow(st, k, st[k].saved)
    /\ DifferentHooks(st)

\* A stack of which no message relies on the moment.
Idle(st) == StackInv(st) /\ AllPlain(st) /\ SavedHooks(st)

LEMMA StackFields ==
    ASSUME NEW st \in Seq(Call1)
    PROVE  /\ Len(st) \in Nat /\ DOMAIN st = 1 .. Len(st)
           /\ st # <<>> <=> Len(st) # 0
           /\ \A k \in DOMAIN st : /\ st[k] \in Call1 /\ k \in Nat /\ st[k].pending \in Seq(Message)
                                   /\ st[k].to \in Addr
           /\ st # <<>> => Last(st) = st[Len(st)] /\ Len(st) \in DOMAIN st
  <1>1. /\ Len(st) \in Nat /\ DOMAIN st = 1 .. Len(st) /\ (st # <<>> <=> Len(st) # 0)
        /\ \A k \in DOMAIN st : st[k] \in Call1
    OBVIOUS
  <1> QED BY <1>1 DEF Call1, Last

LEMMA IdleInv ==
    ASSUME NEW st, Idle(st), NEW s, Settled(s), ExpectedBelow(st, Len(st) + 1, s)
    PROVE  Inv(st, s)
  <1>1. StackInv(st) /\ HooksInv(st, s) /\ StoreInv(s) /\ st \in Seq(Call1)
    BY DEF Idle, SavedHooks, HooksInv, Settled, StackInv
  <1>2. ASSUME st # <<>>, Last(st).pending # <<>>
        PROVE  ~Announces(Last(st).to, Head(Last(st).pending)) /\ ~Pays(Last(st).to, Head(Last(st).pending))
    <2> DEFINE f == Last(st)
    <2>1. f.pending \in Seq(Message) /\ Plain(f.to, f.pending)
      BY <1>1, <1>2, StackFields DEF Idle, AllPlain
    <2> HIDE DEF f
    <2>2. f.pending # <<>>
      BY <1>2 DEF f
    <2>3. Head(f.pending) = f.pending[1] /\ 1 \in DOMAIN f.pending
      BY <2>1, <2>2, HeadMsg
    <2>4. ~Special(f.to, Head(f.pending))
      BY <2>1, <2>3 DEF Plain
    <2> QED BY <2>4 DEF f, Special
  <1>3. TopInv(st, s)
    BY <1>2 DEF TopInv, HeadInv, Settled
  <1> QED BY <1>1, <1>3 DEF Inv

\* The calls of a are calls of b, with some of their messages sent.
Remains(a, b) ==
    \A k \in DOMAIN a :
        /\ k \in DOMAIN b /\ a[k].to = b[k].to /\ a[k].saved = b[k].saved
        /\ \E c \in Nat : \A i \in DOMAIN a[k].pending :
               i + c \in DOMAIN b[k].pending /\ a[k].pending[i] = b[k].pending[i + c]

LEMMA RemainsExpected ==
    ASSUME NEW a, NEW b, Remains(a, b), NEW n, NEW s, ExpectedBelow(b, n, s)
    PROVE  ExpectedBelow(a, n, s)
  <1> SUFFICES ASSUME NEW k \in DOMAIN a, NEW i \in DOMAIN a[k].pending, k < n
               PROVE  Expected(s, a[k].to, a[k].pending[i])
    BY DEF ExpectedBelow
  <1>1. PICK c \in Nat : \A j \in DOMAIN a[k].pending :
               j + c \in DOMAIN b[k].pending /\ a[k].pending[j] = b[k].pending[j + c]
    BY DEF Remains
  <1>2. k \in DOMAIN b /\ a[k].to = b[k].to
    BY DEF Remains
  <1> QED BY <1>1, <1>2 DEF ExpectedBelow

LEMMA RemainsHooks ==
    ASSUME NEW a \in Seq(Call1), NEW b, Remains(a, b), SavedHooks(b)
    PROVE  SavedHooks(a)
  <1>1. ASSUME NEW k \in DOMAIN a
        PROVE  ExpectedBelow(a, k, a[k].saved)
    <2>1. a[k].saved = b[k].saved /\ k \in DOMAIN b
      BY DEF Remains
    <2>2. ExpectedBelow(b, k, b[k].saved)
      BY <2>1 DEF SavedHooks
    <2> QED BY <2>1, <2>2, RemainsExpected
  <1>2. DifferentHooks(a)
    <2> SUFFICES ASSUME NEW k \in DOMAIN a, NEW l \in DOMAIN a,
                        NEW i \in DOMAIN a[k].pending, NEW j \in DOMAIN a[l].pending,
                        IsHook(a[k].to, a[k].pending[i]), IsHook(a[l].to, a[l].pending[j]),
                        a[k].pending[i].body.id = a[l].pending[j].body.id
                 PROVE  k = l /\ i = j
      BY DEF DifferentHooks
    <2>1. i \in Nat /\ j \in Nat
      BY StackFields
    <2>2. PICK c \in Nat : \A x \in DOMAIN a[k].pending :
               x + c \in DOMAIN b[k].pending /\ a[k].pending[x] = b[k].pending[x + c]
      BY DEF Remains
    <2>3. PICK d \in Nat : \A x \in DOMAIN a[l].pending :
               x + d \in DOMAIN b[l].pending /\ a[l].pending[x] = b[l].pending[x + d]
      BY DEF Remains
    <2>4. k \in DOMAIN b /\ a[k].to = b[k].to /\ l \in DOMAIN b /\ a[l].to = b[l].to
      BY DEF Remains
    <2>5. k = l
      BY <2>2, <2>3, <2>4 DEF SavedHooks, DifferentHooks
    <2>6. i + c = j + c
      BY <2>2, <2>4, <2>5 DEF SavedHooks, DifferentHooks
    <2> QED BY <2>1, <2>5, <2>6
  <1> QED BY <1>1, <1>2 DEF SavedHooks

\* The topmost call has sent its first message.
LEMMA Advanced ==
    ASSUME NEW st, StackInv(st), SavedHooks(st), st # <<>>, Last(st).pending # <<>>,
           NEW a, a = Advance(st)
    PROVE  /\ Idle(a) /\ Remains(a, st) /\ Len(a) = Len(st) /\ a # <<>>
           /\ Last(a).to = Last(st).to
           /\ \A i \in DOMAIN Last(a).pending :
                  i + 1 \in DOMAIN Last(st).pending /\ Last(a).pending[i] = Last(st).pending[i + 1]
  <1> DEFINE n == Len(st)
             q == st[n].pending
             f == [st[n] EXCEPT !.pending = Tail(q)]
  <1>1. /\ st \in Seq(Call1) /\ n \in Nat /\ n # 0 /\ DOMAIN st = 1 .. n /\ n \in DOMAIN st
        /\ Last(st) = st[n] /\ st[n] \in Call1 /\ q \in Seq(Message) /\ q # <<>>
    BY StackFields DEF StackInv
  <1>2. a = [st EXCEPT ![n] = f]
    BY DEF Advance
  <1> HIDE DEF q
  <1>3. /\ Tail(q) \in Seq(Message)
        /\ \A i \in DOMAIN Tail(q) : i \in Nat /\ i # 0 /\ i + 1 \in DOMAIN q /\ Tail(q)[i] = q[i + 1] /\ i + 1 # 1
    BY <1>1
  <1>4. /\ f \in Call1 /\ f.to = st[n].to /\ f.saved = st[n].saved /\ f.reply_on = st[n].reply_on
        /\ f.reply_id = st[n].reply_id /\ f.pending = Tail(q)
    BY <1>1, <1>3 DEF Call1
  <1> HIDE DEF f
  <1>5. /\ a \in Seq(Call1) /\ DOMAIN a = 1 .. n /\ Len(a) = n /\ a[n] = f
        /\ \A k \in 1 .. n : k # n => a[k] = st[k]
    <2> HIDE DEF n
    <2>1. DOMAIN a = DOMAIN st /\ \A k \in 1 .. n : a[k] = IF k = n THEN f ELSE st[k]
      BY <1>1, <1>2
    <2>2. a \in Seq(Call1)
      BY <1>1, <1>2, <1>4
    <2>3. Len(a) = n
      BY <1>1, <2>1, <2>2
    <2> QED BY <1>1, <2>1, <2>2, <2>3
  <1> HIDE DEF n
  <1>6. \A k \in 1 .. n : /\ a[k].to = st[k].to /\ a[k].saved = st[k].saved
                          /\ a[k].reply_on = st[k].reply_on /\ a[k].reply_id = st[k].reply_id
    BY <1>4, <1>5
  <1>7. Remains(a, st)
    <2> SUFFICES ASSUME NEW k \in 1 .. n
                 PROVE  \E c \in Nat : \A i \in DOMAIN a[k].pending :
                            i + c \in DOMAIN st[k].pending /\ a[k].pending[i] = st[k].pending[i + c]
      BY <1>1, <1>5, <1>6 DEF Remains
    <2>1. CASE k = n
      <3>1. \A i \in DOMAIN a[k].pending :
                i + 1 \in DOMAIN st[k].pending /\ a[k].pending[i] = st[k].pending[i + 1]
        <4>1. a[k].pending = Tail(q) /\ st[k].pending = q
          BY <1>4, <1>5, <2>1 DEF q
        <4> QED BY <1>3, <4>1
      <3> QED BY <3>1
    <2>2. CASE k # n
      <3>1. a[k] = st[k] /\ st[k].pending \in Seq(Message)
        BY <1>1, <1>5, <2>2, StackFields
      <3>2. \A i \in DOMAIN a[k].pending :
                i + 0 \in DOMAIN st[k].pending /\ a[k].pending[i] = st[k].pending[i + 0]
        BY <3>1
      <3> QED BY <3>2
    <2> QED BY <2>1, <2>2
  <1>8. MsgsInv(f.to, f.pending) /\ Plain(f.to, f.pending)
    <2>1. MsgsInv(st[n].to, q)
      BY <1>1 DEF StackInv, FrameInv, q
    <2> QED BY <1>3, <1>4, <2>1 DEF MsgsInv, Plain
  <1>9. ASSUME NEW k \in 1 .. n
        PROVE  FrameInv(a[k]) /\ ReplyInv(a, k) /\ Plain(a[k].to, a[k].pending)
    <2>a. \A x \in DOMAIN st : /\ FrameInv(st[x]) /\ ReplyInv(st, x)
                               /\ x # n => Plain(st[x].to, st[x].pending)
      BY DEF StackInv, n
    <2>1. FrameInv(st[k]) /\ ReplyInv(st, k) /\ (k # n => Plain(st[k].to, st[k].pending))
      BY <1>1, <2>a
    <2>2. FrameInv(a[k]) /\ Plain(a[k].to, a[k].pending)
      BY <1>4, <1>5, <1>8, <2>1 DEF FrameInv
    <2>3. k # 1 => k - 1 \in 1 .. n
      BY <1>1
    <2>4. ReplyInv(a, k)
      BY <1>6, <2>1, <2>3 DEF ReplyInv
    <2> QED BY <2>2, <2>4
  <1>10. Idle(a)
    BY <1>5, <1>7, <1>9, RemainsHooks DEF Idle, StackInv, AllPlain
  <1>11. a # <<>> /\ Last(a) = f
    BY <1>1, <1>5, StackFields
  <1>12. /\ Last(a).to = Last(st).to /\ Last(a).pending = Tail(q) /\ Last(st).pending = q
    <2>1. Last(st) = st[n] /\ st[n].pending = q
      BY <1>1 DEF q
    <2> QED BY <1>4, <1>11, <2>1
  <1>13. Len(a) = Len(st)
    <2>1. Len(a) = n
      BY <1>5
    <2> QED BY <2>1 DEF n
  <1> QED BY <1>3, <1>7, <1>10, <1>11, <1>12, <1>13

\* The calls below some call.
LEMMA Cut ==
    ASSUME NEW st \in Seq(Call1), NEW n \in 0 .. Len(st), SavedHooks(st),
           \A k \in 1 .. n : FrameInv(st[k]) /\ ReplyInv(st, k) /\ Plain(st[k].to, st[k].pending),
           NEW a, a = SubSeq(st, 1, n)
    PROVE  Idle(a) /\ Remains(a, st) /\ Len(a) = n
  <1>1. Len(st) \in Nat /\ DOMAIN st = 1 .. Len(st) /\ n \in Nat
    BY StackFields
  <1>2. /\ a \in Seq(Call1) /\ Len(a) = n /\ DOMAIN a = 1 .. n
        /\ \A k \in 1 .. n : a[k] = st[k] /\ k \in DOMAIN st
    BY <1>1
  <1>3. Remains(a, st)
    <2> SUFFICES ASSUME NEW k \in 1 .. n
                 PROVE  \E c \in Nat : \A i \in DOMAIN a[k].pending :
                            i + c \in DOMAIN st[k].pending /\ a[k].pending[i] = st[k].pending[i + c]
      BY <1>2 DEF Remains
    <2>1. a[k] = st[k] /\ st[k].pending \in Seq(Message)
      BY <1>2, StackFields
    <2>2. \A i \in DOMAIN a[k].pending :
              i + 0 \in DOMAIN st[k].pending /\ a[k].pending[i] = st[k].pending[i + 0]
      BY <2>1
    <2> QED BY <2>2
  <1>4. ASSUME NEW k \in 1 .. n
        PROVE  ReplyInv(a, k)
    <2>1. k # 1 => k - 1 \in 1 .. n
      BY <1>1
    <2> QED BY <1>2, <2>1 DEF ReplyInv
  <1>5. \A k \in 1 .. n : FrameInv(a[k]) /\ Plain(a[k].to, a[k].pending)
    BY <1>2
  <1> QED BY <1>2, <1>3, <1>4, <1>5, RemainsHooks DEF Idle, StackInv, AllPlain

\* A call returns.
LEMMA Returned ==
    ASSUME NEW st, NEW s, Inv(st, s), st # <<>>, Last(st).pending = <<>>
    PROVE  Inv(Front(st), s)
  <1> DEFINE n == Len(st) - 1
             a == Front(st)
  <1>1. st \in Seq(Call1) /\ StackInv(st) /\ HooksInv(st, s) /\ SavedHooks(st)
    BY DEF Inv, StackInv, HooksInv, SavedHooks
  <1>2. n \in 0 .. Len(st) /\ DOMAIN st = 1 .. Len(st) /\ Len(st) \in Nat
    BY <1>1, StackFields
  <1>3. a = SubSeq(st, 1, n)
    BY DEF Front
  <1>4. \A k \in 1 .. n : FrameInv(st[k]) /\ ReplyInv(st, k) /\ Plain(st[k].to, st[k].pending)
    BY <1>1, <1>2 DEF StackInv
  <1> HIDE DEF a
  <1>5. Idle(a) /\ Remains(a, st) /\ Len(a) = n
    <2> HIDE DEF n
    <2> QED BY <1>1, <1>2, <1>3, <1>4, Cut
  <1>6. Settled(s)
    BY DEF Inv, TopInv, HeadInv, Settled
  <1>7. ExpectedBelow(a, Len(a) + 1, s)
    <2>1. ExpectedBelow(st, Len(st) + 1, s)
      BY <1>1 DEF HooksInv
    <2>2. ExpectedBelow(a, Len(st) + 1, s)
      BY <1>5, <2>1, RemainsExpected
    <2>3. a \in Seq(Call1)
      BY <1>5 DEF Idle, StackInv
    <2>4. \A k \in DOMAIN a : k < Len(st) + 1
      BY <1>2, <1>5, <2>3, StackFields
    <2> QED BY <2>2, <2>4 DEF ExpectedBelow
  <1>8. Inv(a, s)
    BY <1>5, <1>6, <1>7, IdleInv
  <1> QED BY <1>8 DEF a

\* What is known of a call f that is about to be put on top of the calls of a.
\* Its sender hears of an error only if it is a proposal module.
PushInv(a, f) ==
    /\ f \in Call1 /\ MsgsInv(f.to, f.pending)
    /\ f.reply_on = "error" =>
           /\ a # <<>> /\ Last(a).to \in Pms
           /\ reply_type(f.reply_id) # FAILED_PRE_PROPOSE_MODULE_HOOK_ID =>
                  Last(a).to = Pm /\ Ran(f.saved, id_after_shift(f.reply_id))
    /\ ExpectedBelow(a, Len(a) + 1, f.saved)
    /\ \A i \in DOMAIN f.pending : IsHook(f.to, f.pending[i]) =>
           /\ \A j \in DOMAIN f.pending : IsHook(f.to, f.pending[j]) => i = j
           /\ \A k \in DOMAIN a : \A j \in DOMAIN a[k].pending :
                  IsHook(a[k].to, a[k].pending[j]) =>
                      a[k].pending[j].body.id # f.pending[i].body.id

IsPushed(a, f, b) ==
    /\ b \in Seq(Call1) /\ Len(b) = Len(a) + 1 /\ DOMAIN b = 1 .. Len(a) + 1
    /\ Len(a) \in Nat /\ DOMAIN a = 1 .. Len(a)
    /\ b[Len(a) + 1] = f /\ Last(b) = f /\ b # <<>>
    /\ \A k \in DOMAIN a : b[k] = a[k] /\ FrameInv(b[k]) /\ Plain(b[k].to, b[k].pending)
    /\ \A k \in DOMAIN b : ReplyInv(b, k)
    /\ SavedHooks(b)

LEMMA Pushed ==
    ASSUME NEW a, Idle(a), NEW f, PushInv(a, f), NEW b, b = Append(a, f)
    PROVE  IsPushed(a, f, b)
  <1> DEFINE n == Len(a)
  <1>1. a \in Seq(Call1) /\ f \in Call1 /\ n \in Nat /\ DOMAIN a = 1 .. n
    BY StackFields DEF Idle, StackInv, PushInv
  <1>2. /\ b \in Seq(Call1) /\ Len(b) = n + 1 /\ DOMAIN b = 1 .. n + 1 /\ b[n + 1] = f
        /\ \A k \in 1 .. n : b[k] = a[k]
    BY <1>1
  <1>3. Last(b) = f /\ b # <<>>
    <2> HIDE DEF n
    <2>1. Len(b) # 0 /\ b[Len(b)] = f
      BY <1>1, <1>2
    <2> QED BY <1>2, <2>1, StackFields
  <1>4. \A k \in DOMAIN a : FrameInv(a[k]) /\ ReplyInv(a, k) /\ Plain(a[k].to, a[k].pending)
    BY DEF Idle, StackInv, AllPlain
  <1>5. n # 0 => a # <<>> /\ Last(a) = a[n] /\ n \in 1 .. n
    BY <1>1, StackFields
  <1>6. a # <<>> => n # 0
    BY <1>1, StackFields
  <1> HIDE DEF n
  <1>7. ASSUME NEW k \in 1 .. n + 1
        PROVE  ReplyInv(b, k)
    <2>1. CASE k = n + 1
      <3>1. k - 1 = n /\ (n # 0 => b[n] = a[n])
        BY <1>1, <1>2, <1>5, <2>1
      <3>2. SUFFICES ASSUME f.reply_on = "error"
                     PROVE  /\ k # 1 /\ b[k - 1].to \in Pms
                            /\ reply_type(f.reply_id) # FAILED_PRE_PROPOSE_MODULE_HOOK_ID =>
                                   b[k - 1].to = Pm /\ Ran(f.saved, id_after_shift(f.reply_id))
        BY <1>2, <2>1 DEF ReplyInv
      <3>3. n # 0 /\ b[k - 1] = Last(a)
        BY <1>5, <1>6, <3>1, <3>2 DEF PushInv
      <3>4. k # 1
        BY <1>1, <2>1, <3>3
      <3> QED BY <3>2, <3>3, <3>4 DEF PushInv
    <2>2. CASE k # n + 1
      <3>1. k \in 1 .. n /\ (k # 1 => k - 1 \in 1 .. n)
        BY <1>1, <2>2
      <3>2. ReplyInv(a, k)
        BY <1>1, <1>4, <3>1
      <3> QED BY <1>2, <3>1, <3>2 DEF ReplyInv
    <2> QED BY <2>1, <2>2
  <1>8. ASSUME NEW k \in 1 .. n + 1
        PROVE  ExpectedBelow(b, k, b[k].saved)
    <2> SUFFICES ASSUME NEW l \in 1 .. n + 1, NEW i \in DOMAIN b[l].pending, l < k
                 PROVE  Expected(b[k].saved, b[l].to, b[l].pending[i])
      BY <1>2 DEF ExpectedBelow
    <2>1. l \in 1 .. n /\ b[l] = a[l]
      BY <1>1, <1>2
    <2>2. CASE k = n + 1
      <3>1. ExpectedBelow(a, n + 1, f.saved)
        BY DEF PushInv, n
      <3>2. l < n + 1
        BY <1>1, <2>1
      <3> QED BY <1>1, <1>2, <2>1, <2>2, <3>1, <3>2 DEF ExpectedBelow
    <2>3. CASE k # n + 1
      <3>1. k \in 1 .. n /\ b[k] = a[k]
        BY <1>1, <1>2, <2>3
      <3>2. ExpectedBelow(a, k, a[k].saved)
        BY <1>1, <3>1 DEF Idle, SavedHooks
      <3> QED BY <1>1, <2>1, <3>1, <3>2 DEF ExpectedBelow
    <2> QED BY <2>2, <2>3
  <1>9. DifferentHooks(b)
    <2> SUFFICES ASSUME NEW k \in 1 .. n + 1, NEW l \in 1 .. n + 1,
                        NEW i \in DOMAIN b[k].pending, NEW j \in DOMAIN b[l].pending,
                        IsHook(b[k].to, b[k].pending[i]), IsHook(b[l].to, b[l].pending[j]),
                        b[k].pending[i].body.id = b[l].pending[j].body.id
                 PROVE  k = l /\ i = j
      BY <1>2 DEF DifferentHooks
    <2>1. k \in 1 .. n \/ k = n + 1
      BY <1>1
    <2>2. l \in 1 .. n \/ l = n + 1
      BY <1>1
    <2>3. CASE k \in 1 .. n /\ l \in 1 .. n
      <3>1. b[k] = a[k] /\ b[l] = a[l]
        BY <1>2, <2>3
      <3> QED BY <1>1, <2>3, <3>1 DEF Idle, SavedHooks, DifferentHooks
    <2>4. CASE k = n + 1 /\ l = n + 1
      <3>1. b[k] = f /\ b[l] = f
        BY <1>2, <2>4
      <3> QED BY <2>4, <3>1 DEF PushInv
    <2>5. CASE k = n + 1 /\ l \in 1 .. n
      <3>1. b[k] = f /\ b[l] = a[l] /\ l \in DOMAIN a
        BY <1>1, <1>2, <2>5
      <3> QED BY <3>1 DEF PushInv
    <2>6. CASE k \in 1 .. n /\ l = n + 1
      <3>1. b[l] = f /\ b[k] = a[k] /\ k \in DOMAIN a
        BY <1>1, <1>2, <2>6
      <3> QED BY <3>1 DEF PushInv
    <2> QED BY <2>1, <2>2, <2>3, <2>4, <2>5, <2>6
  <1>10. SavedHooks(b)
    BY <1>2, <1>8, <1>9 DEF SavedHooks
  <1>11. \A k \in DOMAIN a : b[k] = a[k] /\ FrameInv(b[k]) /\ Plain(b[k].to, b[k].pending)
    BY <1>1, <1>2, <1>4
  <1>12. \A k \in DOMAIN b : ReplyInv(b, k)
    BY <1>2, <1>7
  <1> QED BY <1>1, <1>2, <1>3, <1>10, <1>11, <1>12 DEF n, IsPushed

\* A call has been put on top, and has changed the storage to s.
LEMMA PushedInv ==
    ASSUME NEW a, Idle(a), NEW f, PushInv(a, f), Settled(f.saved), NEW s, StoreInv(s),
           ExpectedBelow(a, Len(a) + 1, s), HeadInv(s, f.to, f.pending),
           \A i \in DOMAIN f.pending : Expected(s, f.to, f.pending[i]),
           NEW b, b = Append(a, f),
           f.pending # <<>> /\ Pays(f.to, Head(f.pending)) =>
               Undisputed(b, s, Head(f.pending).body.ref)
    PROVE  Inv(b, s)
  <1> DEFINE n == Len(a)
  <1>1. /\ b \in Seq(Call1) /\ Len(b) = n + 1 /\ DOMAIN b = 1 .. n + 1
        /\ n \in Nat /\ DOMAIN a = 1 .. n /\ b[n + 1] = f /\ Last(b) = f /\ b # <<>>
        /\ \A k \in DOMAIN a : b[k] = a[k] /\ FrameInv(b[k]) /\ Plain(b[k].to, b[k].pending)
        /\ \A k \in DOMAIN b : ReplyInv(b, k)
        /\ SavedHooks(b)
    <2>1. IsPushed(a, f, b)
      BY Pushed
    <2> QED BY <2>1 DEF IsPushed
  <1>2. FrameInv(f)
    BY DEF PushInv, FrameInv
  <1> HIDE DEF n
  <1>3. \A k \in 1 .. n + 1 : k = n + 1 \/ k \in 1 .. n
    BY <1>1
  <1>4. StackInv(b)
    BY <1>1, <1>2, <1>3 DEF StackInv
  <1>5. ExpectedBelow(b, Len(b) + 1, s)
    <2> SUFFICES ASSUME NEW k \in 1 .. n + 1, NEW i \in DOMAIN b[k].pending
                 PROVE  Expected(s, b[k].to, b[k].pending[i])
      BY <1>1 DEF ExpectedBelow
    <2>1. CASE k = n + 1
      BY <1>1, <2>1
    <2>2. CASE k \in 1 .. n
      <3>1. b[k] = a[k] /\ k < n + 1 /\ k \in DOMAIN a
        BY <1>1, <2>2
      <3>2. ExpectedBelow(a, n + 1, s)
        BY DEF n
      <3> QED BY <3>1, <3>2 DEF ExpectedBelow
    <2> QED BY <1>3, <2>1, <2>2
  <1>6. HooksInv(b, s)
    BY <1>1, <1>5 DEF HooksInv, SavedHooks
  <1>7. TopInv(b, s)
    BY <1>1 DEF TopInv
  <1> QED BY <1>4, <1>6, <1>7 DEF Inv

----------------------------------------------------------------------------
(* Errors *)

\* The pre-propose module is removed.
LEMMA PolicyChanged ==
    ASSUME NEW s, Settled(s), NEW p \in Pms, NEW t, t = [s EXCEPT !.pm[p].policy = Anyone]
    PROVE  Quiet(s, t)
  <1> DEFINE M == [proposals : Seq(Proposal), policy : Addr \cup {Anyone}]
             x == [s.pm[p] EXCEPT !.policy = Anyone]
             pm == [s.pm EXCEPT ![p] = x]
  <1>1. s \in Store /\ s.pm \in [Pms -> M] /\ validate(s.config.submission_policy) /\ Pm \in Pms
    BY DEF Settled, StoreInv, Store, Pms
  <1>2. x \in M /\ x.proposals = s.pm[p].proposals
    BY <1>1
  <1>3. t = [s EXCEPT !.pm = pm]
    OBVIOUS
  <1> HIDE DEF x
  <1>4. pm \in [Pms -> M] /\ pm[Pm].proposals = s.pm[Pm].proposals
    <2>1. s.pm[p] \in M /\ DOMAIN s.pm = Pms
      BY <1>1
    <2>2. pm \in [Pms -> M]
      BY <1>1, <1>2
    <2>3. p = Pm => pm[Pm] = x
      BY <1>1, <2>1
    <2>4. p # Pm => pm[Pm] = s.pm[Pm]
      BY <1>1, <2>1
    <2> HIDE DEF pm
    <2> QED BY <1>2, <2>2, <2>3, <2>4
  <1> HIDE DEF pm
  <1>5. t \in Store
    BY <1>1, <1>3, <1>4 DEF Store
  <1> QED BY <1>1, <1>3, <1>4, <1>5 DEF Quiet, Same, Store

\* A proposal module hears of a failed message.
LEMMA Replied ==
    ASSUME NEW s, Settled(s), NEW p \in Pms, NEW rid,
           reply_type(rid) # FAILED_PRE_PROPOSE_MODULE_HOOK_ID =>
               p = Pm /\ Ran(s, id_after_shift(rid))
    PROVE  Settled(AfterReply(s, p, rid)) /\ Kept(s, AfterReply(s, p, rid))
  <1> DEFINE t == AfterReply(s, p, rid)
  <1>1. CASE reply_type(rid) = FAILED_PRE_PROPOSE_MODULE_HOOK_ID
    <2>1. t = [s EXCEPT !.pm[p].policy = Anyone]
      BY <1>1 DEF AfterReply
    <2> HIDE DEF t
    <2>2. Settled(t) /\ Kept(s, t)
      BY <2>1, PolicyChanged, QuietKeeps
    <2> QED BY <2>2 DEF t
  <1>2. CASE reply_type(rid) # FAILED_PRE_PROPOSE_MODULE_HOOK_ID
    <2> DEFINE id == id_after_shift(rid)
               status == "execution_failed"
    <2>1. id \in DOMAIN s.pm[Pm].proposals /\ Passed(s.pm[Pm].proposals[id].status)
      BY <1>2 DEF Ran
    <2>2. t = WithStatus(s, id, status)
      BY <1>2 DEF AfterReply, WithStatus, WithProposals
    <2>3. status \in ProposalStatus /\ status # "open" /\ Passed(status)
      BY DEF ProposalStatus, Passed
    <2> HIDE DEF t, id, status
    <2>4. Settled(t) /\ Kept(s, t)
      BY <2>1, <2>2, <2>3, StatusChanged
    <2> QED BY <2>4 DEF t
  <1> QED BY <1>1, <1>2

LEMMA NoCalls ==
    ASSUME NEW s, Settled(s)
    PROVE  Inv(<<>>, s)
  <1> DEFINE st == <<>>
  <1>1. st \in Seq(Call1) /\ DOMAIN st = {} /\ st = <<>>
    OBVIOUS
  <1> HIDE DEF st
  <1>2. Idle(st) /\ ExpectedBelow(st, Len(st) + 1, s)
    BY <1>1 DEF Idle, StackInv, AllPlain, SavedHooks, DifferentHooks, ExpectedBelow
  <1> QED BY <1>1, <1>2, IdleInv

\* A stack on top of which an error is raised.
UnwindInv(st) ==
    /\ st \in Seq(Call1) /\ st # <<>> /\ SavedHooks(st)
    /\ \A k \in DOMAIN st :
           /\ ReplyInv(st, k)
           /\ k = 1 \/ st[k].reply_on = "error" => Settled(st[k].saved)
           /\ k # Len(st) => FrameInv(st[k]) /\ Plain(st[k].to, st[k].pending)

\* The transaction goes back to before the failed call, or to its start.
LEMMA Unwound ==
    ASSUME NEW st, UnwindInv(st), Unwind(st)
    PROVE  Inv(stack', store')
  <1>1. /\ st \in Seq(Call1) /\ Len(st) \in Nat /\ DOMAIN st = 1 .. Len(st) /\ Len(st) # 0
    BY StackFields DEF UnwindInv
  <1>2. CASE /\ store' = st[1].saved
             /\ stack' = <<>>
    <2>1. 1 \in DOMAIN st
      BY <1>1
    <2>2. Settled(st[1].saved)
      BY <2>1 DEF UnwindInv
    <2> QED BY <1>2, <2>2, NoCalls
  <1>3. ASSUME NEW k \in Catching(st),
               store' = AfterReply(st[k].saved, st[k - 1].to, st[k].reply_id),
               stack' = SubSeq(st, 1, k - 1)
        PROVE  Inv(stack', store')
    <2> DEFINE n == k - 1
               s == st[k].saved
               p == st[n].to
               rid == st[k].reply_id
               t == AfterReply(s, p, rid)
               a == SubSeq(st, 1, n)
    <2>1. k \in 2 .. Len(st) /\ st[k].reply_on = "error"
      BY DEF Catching
    <2>2. /\ k \in DOMAIN st /\ n \in 0 .. Len(st) /\ n \in Nat /\ n + 1 = k
          /\ \A j \in 1 .. n : j \in DOMAIN st /\ j # Len(st) /\ j < k
      <3> DEFINE L == Len(st)
      <3>1. L \in Nat /\ k \in 2 .. L /\ DOMAIN st = 1 .. L
        BY <1>1, <2>1
      <3> HIDE DEF L
      <3>2. /\ k \in 1 .. L /\ k - 1 \in 0 .. L /\ k - 1 \in Nat /\ (k - 1) + 1 = k
            /\ \A j \in 1 .. k - 1 : j \in 1 .. L /\ j # L /\ j < k
        BY <3>1
      <3>3. /\ k \in 1 .. L /\ n \in 0 .. L /\ n \in Nat /\ n + 1 = k
            /\ \A j \in 1 .. n : j \in 1 .. L /\ j # L /\ j < k
        BY <3>2
      <3> HIDE DEF n
      <3>4. DOMAIN st = 1 .. L /\ Len(st) = L
        BY <3>1 DEF L
      <3> QED BY <3>3, <3>4
    <2>3. Settled(s) /\ ReplyInv(st, k)
      BY <2>1, <2>2 DEF UnwindInv
    <2>4. /\ p \in Pms
          /\ reply_type(rid) # FAILED_PRE_PROPOSE_MODULE_HOOK_ID => p = Pm /\ Ran(s, id_after_shift(rid))
      BY <2>1, <2>3 DEF ReplyInv
    <2>5. \A j \in 1 .. n : FrameInv(st[j]) /\ ReplyInv(st, j) /\ Plain(st[j].to, st[j].pending)
      BY <2>2 DEF UnwindInv
    <2>6. ExpectedBelow(st, k, s) /\ SavedHooks(st)
      BY <2>2 DEF UnwindInv, SavedHooks
    <2>7. store' = t /\ stack' = a
      BY <1>3
    <2>a. a = SubSeq(st, 1, n)
      OBVIOUS
    <2> HIDE DEF n, s, p, rid
    <2>8. Settled(t) /\ Kept(s, t)
      BY <2>3, <2>4, Replied
    <2> HIDE DEF t, a
    <2>9. Idle(a) /\ Remains(a, st) /\ Len(a) = n
      <3>1. st \in Seq(Call1) /\ n \in 0 .. Len(st) /\ SavedHooks(st)
        BY <1>1, <2>2, <2>6
      <3> QED BY <2>5, <2>a, <3>1, Cut
    <2>10. ExpectedBelow(a, k, s)
      BY <2>6, <2>9, RemainsExpected
    <2>11. ExpectedBelow(a, Len(a) + 1, t)
      <3>1. ExpectedBelow(a, n + 1, s)
        BY <2>2, <2>10
      <3> QED BY <2>8, <2>9, <3>1, KeptExpected DEF ExpectedBelow
    <2>12. Inv(a, t)
      BY <2>8, <2>9, <2>11, IdleInv
    <2> QED BY <2>7, <2>12
  <1> QED BY <1>2, <1>3 DEF Unwind

----------------------------------------------------------------------------
(* Delivering a message *)

\* Contract from sends m in storage s, and the calls of a go on afterwards.
Sending(s, a, from, m) ==
    /\ StoreInv(s) /\ from \in Addr /\ MsgInv(from, m) /\ Expected(s, from, m)
    /\ Idle(a) /\ a # <<>> /\ Last(a).to = from
    /\ ExpectedBelow(a, Len(a) + 1, s)
    /\ Announces(from, m) => AnnouncedIn(s, m.body.proposer)
    /\ ~Announces(from, m) => Settled(s)
    /\ Pays(from, m) => DueIn(s, m.body.ref, m.body.to) /\ Undisputed(a, s, m.body.ref)
    /\ IsHook(from, m) =>
           \A k \in DOMAIN a : \A j \in DOMAIN a[k].pending :
               IsHook(a[k].to, a[k].pending[j]) => a[k].pending[j].body.id # m.body.id

LEMMA SendingInv ==
    ASSUME NEW st, NEW s, Inv(st, s), st # <<>>, Last(st).pending # <<>>
    PROVE  Sending(s, Advance(st), Last(st).to, Head(Last(st).pending))
  <1> DEFINE a == Advance(st)
             n == Len(st)
             from == Last(st).to
             q == Last(st).pending
             m == Head(q)
  <1>1. /\ StoreInv(s) /\ StackInv(st) /\ HooksInv(st, s) /\ TopInv(st, s) /\ SavedHooks(st)
    BY DEF Inv, HooksInv, SavedHooks
  <1>2. /\ st \in Seq(Call1) /\ n \in Nat /\ DOMAIN st = 1 .. n /\ n \in DOMAIN st
        /\ Last(st) = st[n] /\ from \in Addr /\ q \in Seq(Message) /\ q # <<>>
    BY <1>1, StackFields DEF StackInv
  <1>3. m = q[1] /\ 1 \in DOMAIN q
    BY <1>2, HeadMsg
  <1>4. MsgsInv(from, q)
    BY <1>1, <1>2 DEF StackInv, FrameInv
  <1>5. MsgInv(from, m)
    BY <1>3, <1>4 DEF MsgsInv
  <1>6. /\ Idle(a) /\ Remains(a, st) /\ Len(a) = n /\ a # <<>> /\ Last(a).to = from
        /\ \A i \in DOMAIN Last(a).pending :
               i + 1 \in DOMAIN q /\ Last(a).pending[i] = q[i + 1]
    BY <1>1, Advanced
  <1> HIDE DEF a, n, from, m
  <1>7. ExpectedBelow(st, n + 1, s)
    BY <1>1 DEF HooksInv, n
  <1>8. Expected(s, from, m)
    <2>1. n < n + 1
      BY <1>2
    <2> QED BY <1>2, <1>3, <1>7, <2>1 DEF ExpectedBelow, from
  <1>9. ExpectedBelow(a, Len(a) + 1, s)
    BY <1>6, <1>7, RemainsExpected
  <1>10. HeadInv(s, from, q) /\ (Pays(from, m) => Undisputed(st, s, m.body.ref))
    BY <1>1, <1>2 DEF TopInv, from, m
  <1>11. /\ Announces(from, m) => AnnouncedIn(s, m.body.proposer)
         /\ ~Announces(from, m) => Settled(s)
         /\ Pays(from, m) => DueIn(s, m.body.ref, m.body.to)
    <2> HIDE DEF q
    <2> QED BY <1>1, <1>2, <1>10 DEF HeadInv, Settled, m
  <1>12. ASSUME NEW k \in DOMAIN a, NEW j \in DOMAIN a[k].pending
         PROVE  /\ k \in DOMAIN st /\ a[k].to = st[k].to
                /\ \E i \in DOMAIN st[k].pending : a[k].pending[j] = st[k].pending[i]
    BY <1>6 DEF Remains
  <1>13. ASSUME Pays(from, m)
         PROVE  Undisputed(a, s, m.body.ref)
    <2>1. Undisputed(st, s, m.body.ref)
      BY <1>10, <1>13
    <2> SUFFICES ASSUME NEW k \in DOMAIN a, NEW j \in DOMAIN a[k].pending,
                        IsHook(a[k].to, a[k].pending[j]),
                        s.deposits[a[k].pending[j].body.id] # NoEntry
                 PROVE  s.deposits[a[k].pending[j].body.id].ref # m.body.ref
      BY DEF Undisputed
    <2>2. PICK i \in DOMAIN st[k].pending : a[k].pending[j] = st[k].pending[i]
      BY <1>12
    <2>3. k \in DOMAIN st /\ a[k].to = st[k].to
      BY <1>12
    <2> QED BY <2>1, <2>2, <2>3 DEF Undisputed
  <1>14. ASSUME IsHook(from, m), NEW k \in DOMAIN a, NEW j \in DOMAIN a[k].pending,
                IsHook(a[k].to, a[k].pending[j]), a[k].pending[j].body.id = m.body.id
         PROVE  FALSE
    <2>1. DifferentHooks(st) /\ st[n].to = from /\ st[n].pending[1] = m /\ 1 \in DOMAIN st[n].pending
      BY <1>1, <1>2, <1>3 DEF SavedHooks, from
    <2>2. k = n
      <3>1. PICK i \in DOMAIN st[k].pending : a[k].pending[j] = st[k].pending[i]
        BY <1>12
      <3>2. k \in DOMAIN st /\ a[k].to = st[k].to
        BY <1>12
      <3> QED BY <1>2, <1>14, <2>1, <3>1, <3>2 DEF DifferentHooks
    <2>3. a[k] = Last(a) /\ a \in Seq(Call1)
      BY <1>6, <2>2, StackFields DEF Idle, StackInv
    <2>4. j \in Nat /\ j # 0
      <3>1. a[k].pending \in Seq(Message)
        BY <2>3, StackFields
      <3> QED BY <3>1
    <2>5. j + 1 \in DOMAIN st[n].pending /\ a[k].pending[j] = st[n].pending[j + 1] /\ a[k].to = from
      BY <1>2, <1>6, <2>3
    <2>6. j + 1 = 1
      BY <1>2, <1>14, <2>1, <2>5 DEF DifferentHooks
    <2> QED BY <2>4, <2>6
  <1>15. from \in Addr
    BY <1>2
  <1>16. Sending(s, a, from, m)
    BY <1>1, <1>5, <1>6, <1>8, <1>9, <1>11, <1>13, <1>14, <1>15 DEF Sending
  <1> QED BY <1>16 DEF a, from, m

\* The call that delivers m, with messages of its own.
LEMMA FramePush ==
    ASSUME NEW s, NEW a, NEW from, NEW m, Sending(s, a, from, m),
           NEW msgs, MsgsInv(m.to, msgs), NEW done \in BOOLEAN,
           \A i \in DOMAIN msgs : IsHook(m.to, msgs[i]) =>
               /\ s.pm[Pm].proposals[msgs[i].body.id].status = "open"
               /\ \A j \in DOMAIN msgs : IsHook(m.to, msgs[j]) => i = j,
           NEW f, f = Frame(m, s, msgs, done)
    PROVE  /\ PushInv(a, f) /\ f.to = m.to /\ f.pending = msgs /\ f.saved = s
           /\ f.reply_on = m.reply_on
  <1>1. m \in Message /\ s \in Store /\ msgs \in Seq(Message)
    BY DEF Sending, MsgInv, StoreInv, MsgsInv
  <1>2. /\ f.to = m.to /\ f.body = m.body /\ f.reply_on = m.reply_on /\ f.reply_id = m.reply_id
        /\ f.saved = s /\ f.pending = msgs /\ f.called = done
    BY DEF Frame
  <1>3. f \in Call1
    <2>1. m.to \in Addr /\ m.body \in Body /\ m.reply_on \in {"never", "error"} /\ m.reply_id \in Nat
      BY <1>1 DEF Message
    <2> QED BY <1>1, <2>1 DEF Call1, Frame
  <1>4. ASSUME m.reply_on = "error"
        PROVE  /\ a # <<>> /\ Last(a).to \in Pms
               /\ reply_type(m.reply_id) # FAILED_PRE_PROPOSE_MODULE_HOOK_ID =>
                      Last(a).to = Pm /\ Ran(s, id_after_shift(m.reply_id))
    BY <1>4 DEF Sending, MsgInv, Expected, IsRun
  <1>5. ASSUME NEW i \in DOMAIN msgs, IsHook(m.to, msgs[i]), NEW k \in DOMAIN a,
               NEW j \in DOMAIN a[k].pending, IsHook(a[k].to, a[k].pending[j])
        PROVE  a[k].pending[j].body.id # msgs[i].body.id
    <2>1. k < Len(a) + 1
      BY StackFields DEF Sending, Idle, StackInv
    <2>2. Expected(s, a[k].to, a[k].pending[j])
      BY <2>1 DEF Sending, ExpectedBelow
    <2> DEFINE id == a[k].pending[j].body.id
               status == a[k].pending[j].body.status
    <2>3. Owed(s, id, status)
      BY <1>5, <2>2 DEF Expected
    <2> HIDE DEF id, status
    <2>4. s.pm[Pm].proposals[id].status # "open"
      BY <2>3 DEF Owed, Passed
    <2> QED BY <1>5, <2>4 DEF id
  <1>6. ExpectedBelow(a, Len(a) + 1, s)
    BY DEF Sending
  <1>7. PushInv(a, f)
    BY <1>2, <1>3, <1>4, <1>5, <1>6 DEF PushInv
  <1> QED BY <1>2, <1>7

\* A foreign contract is called.
LEMMA ForeignCall ==
    ASSUME NEW s, NEW a, NEW from, NEW m, Sending(s, a, from, m), m.to \notin Contracts
    PROVE  Inv(Append(a, Frame(m, s, <<>>, FALSE)), s)
  <1> DEFINE msgs == <<>>
             done == FALSE
             f == Frame(m, s, msgs, done)
             b == Append(a, f)
  <1>1. MsgsInv(m.to, msgs) /\ msgs = <<>> /\ DOMAIN msgs = {} /\ done \in BOOLEAN
    BY DEF MsgsInv
  <1>2. ~Announces(from, m)
    BY Addresses DEF Sending, MsgInv, Announces
  <1>3. Settled(s) /\ Idle(a) /\ ExpectedBelow(a, Len(a) + 1, s)
    BY <1>2 DEF Sending
  <1> HIDE DEF done, msgs, f, b
  <1>4. /\ PushInv(a, f) /\ f.to = m.to /\ f.pending = msgs /\ f.saved = s
    BY <1>1, FramePush DEF f
  <1>5. HeadInv(s, f.to, f.pending) /\ StoreInv(s)
    BY <1>1, <1>3, <1>4 DEF HeadInv, Settled
  <1>6. Inv(b, s)
    BY <1>1, <1>3, <1>4, <1>5, PushedInv DEF b
  <1> QED BY <1>6 DEF b, f, msgs, done

\* A message is handled and sends nothing.
LEMMA QuietCall ==
    ASSUME NEW s, NEW a, NEW from, NEW m, Sending(s, a, from, m), NEW t, Settled(t), Kept(s, t)
    PROVE  Inv(a, t)
  <1>1. ExpectedBelow(a, Len(a) + 1, t)
    BY KeptExpected DEF Sending, ExpectedBelow
  <1> QED BY <1>1, IdleInv DEF Sending

\* A message is handled and sends messages.
LEMMA LoudCall ==
    ASSUME NEW s, NEW a, NEW from, NEW m, Sending(s, a, from, m), ~Special(from, m), NEW t, NEW msgs,
           Result(s, from, m, t, msgs)
    PROVE  Inv(Append(a, Frame(m, s, msgs, TRUE)), t)
  <1> DEFINE done == TRUE
             f == Frame(m, s, msgs, done)
             b == Append(a, f)
  <1>1. /\ StoreInv(t) /\ Kept(s, t) /\ MsgsInv(m.to, msgs) /\ HeadInv(t, m.to, msgs)
        /\ NewMsgs(s, m.to, t, msgs)
        /\ msgs # <<>> /\ Pays(m.to, Head(msgs)) => Disputes(t, Head(msgs).body.ref, from, m)
    BY DEF Result
  <1>2. \A i \in DOMAIN msgs : IsHook(m.to, msgs[i]) =>
               /\ s.pm[Pm].proposals[msgs[i].body.id].status = "open"
               /\ \A j \in DOMAIN msgs : IsHook(m.to, msgs[j]) => i = j
    BY <1>1 DEF NewMsgs
  <1>3. Settled(s) /\ Idle(a) /\ ExpectedBelow(a, Len(a) + 1, t)
    BY <1>1, KeptExpected DEF Sending, ExpectedBelow, Special
  <1>a. done \in BOOLEAN
    OBVIOUS
  <1> HIDE DEF done, f, b
  <1>4. /\ PushInv(a, f) /\ f.to = m.to /\ f.pending = msgs /\ f.saved = s
    BY <1>1, <1>2, <1>a, FramePush DEF f
  <1>5. IsPushed(a, f, b)
    BY <1>3, <1>4, Pushed DEF b
  <1>6. ASSUME msgs # <<>>, Pays(m.to, Head(msgs))
        PROVE  Undisputed(b, t, Head(msgs).body.ref)
    <2> DEFINE ref == Head(msgs).body.ref
    <2>1. Disputes(t, ref, from, m) /\ m.to # Pm
      BY <1>1, <1>6, Addresses DEF Pays
    <2> HIDE DEF ref
    <2> SUFFICES ASSUME NEW k \in DOMAIN b, NEW i \in DOMAIN b[k].pending,
                        IsHook(b[k].to, b[k].pending[i]),
                        t.deposits[b[k].pending[i].body.id] # NoEntry,
                        t.deposits[b[k].pending[i].body.id].ref = ref
                 PROVE  FALSE
      BY DEF Undisputed, ref
    <2>2. k \in DOMAIN a /\ b[k] = a[k]
      <3>1. /\ DOMAIN b = 1 .. Len(a) + 1 /\ Len(a) \in Nat /\ DOMAIN a = 1 .. Len(a) /\ b[Len(a) + 1] = f
            /\ \A x \in DOMAIN a : b[x] = a[x]
        BY <1>5 DEF IsPushed
      <3>2. k # Len(a) + 1
        BY <1>4, <2>1, <3>1 DEF IsHook
      <3> QED BY <3>1, <3>2
    <2>3. k < Len(a) + 1
      BY <1>3, <2>2, StackFields DEF Idle, StackInv
    <2>4. Expected(t, a[k].to, a[k].pending[i])
      BY <1>3, <2>2, <2>3 DEF ExpectedBelow
    <2>5. a[k].pending[i].body.id \in Ids
      BY <2>2, <2>4 DEF Expected, Owed
    <2>6. IsHook(from, m) /\ a[k].pending[i].body.id = m.body.id
      BY <2>1, <2>2, <2>5 DEF Disputes
    <2> QED BY <2>2, <2>6 DEF Sending
  <1>7. \A i \in DOMAIN msgs : Expected(t, m.to, msgs[i])
    BY <1>1 DEF NewMsgs
  <1>8. Inv(b, t)
    BY <1>1, <1>3, <1>4, <1>6, <1>7, PushedInv DEF b
  <1> QED BY <1>8 DEF b, f, done

\* A call that fails.
LEMMA FailedCall ==
    ASSUME NEW s, NEW a, NEW from, NEW m, Sending(s, a, from, m)
    PROVE  UnwindInv(Append(a, Frame(m, s, <<>>, TRUE)))
  <1> DEFINE msgs == <<>>
             done == TRUE
             f == Frame(m, s, msgs, done)
             b == Append(a, f)
             n == Len(a)
  <1>1. MsgsInv(m.to, msgs) /\ msgs = <<>> /\ DOMAIN msgs = {} /\ done \in BOOLEAN
    BY DEF MsgsInv
  <1> HIDE DEF done, msgs, f, b
  <1>2. /\ PushInv(a, f) /\ f.saved = s /\ f.reply_on = m.reply_on
    BY <1>1, FramePush DEF f
  <1>3. Idle(a) /\ a # <<>>
    BY DEF Sending
  <1>4. IsPushed(a, f, b)
    BY <1>2, <1>3, Pushed DEF b
  <1>5. /\ b \in Seq(Call1) /\ Len(b) = n + 1 /\ DOMAIN b = 1 .. n + 1
        /\ n \in Nat /\ DOMAIN a = 1 .. n /\ b[n + 1] = f /\ b # <<>>
        /\ \A k \in DOMAIN a : b[k] = a[k] /\ FrameInv(b[k]) /\ Plain(b[k].to, b[k].pending)
        /\ \A k \in DOMAIN b : ReplyInv(b, k)
        /\ SavedHooks(b)
    BY <1>4 DEF IsPushed
  <1>6. n # 0
    BY <1>3, StackFields DEF Idle, StackInv
  <1>7. m.reply_on = "error" => Settled(s)
    BY Addresses DEF Sending, MsgInv, Announces, Pms
  <1> HIDE DEF n
  <1>8. ASSUME NEW k \in 1 .. n + 1
        PROVE  /\ k = 1 \/ b[k].reply_on = "error" => Settled(b[k].saved)
               /\ k # n + 1 => FrameInv(b[k]) /\ Plain(b[k].to, b[k].pending)
    <2>1. CASE k = n + 1
      <3>1. k # 1
        BY <1>5, <1>6, <2>1
      <3> QED BY <1>2, <1>5, <1>7, <2>1, <3>1
    <2>2. CASE k # n + 1
      <3>1. k \in DOMAIN a
        BY <1>5, <2>2
      <3> QED BY <1>5, <3>1 DEF FrameInv
    <2> QED BY <2>1, <2>2
  <1>9. UnwindInv(b)
    BY <1>5, <1>8 DEF UnwindInv
  <1> QED BY <1>9 DEF b, f, msgs, done

\* The proposal that Pre has announced is made.
LEMMA AnnouncedCall ==
    ASSUME NEW s, NEW a, NEW from, NEW m, Sending(s, a, from, m), Announces(from, m),
           NEW r \in execute(s, m.to, from, m.body)
    PROVE  Inv(a, r.store) /\ r.msgs = <<>>
  <1> DEFINE who == m.body.proposer
  <1>1. /\ from = Pre /\ m.body.kind = "propose_internal" /\ m.to = Pm /\ AnnouncedIn(s, who)
        /\ m \in Message /\ StoreInv(s)
    BY DEF Announces, Sending, MsgInv
  <1>2. /\ Pre \in Addr /\ Pm \in Pms /\ Pm # Pre /\ Pm # Approver
    BY Addresses DEF Pms
  <1>a. Pm \notin Denom
    BY Addresses
  <1>3. who \in Addr
    BY <1>1, BodyFields DEF Message
  <1>4. r \in pm_propose(s, Pm, Pre, who)
    <2>1. r \in execute(s, Pm, Pre, m.body)
      BY <1>1
    <2>2. r \in execute_pm(s, Pm, Pre, m.body)
      BY <1>2, <1>a, <2>1 DEF execute
    <2> QED BY <1>1, <2>2 DEF execute_pm
  <1> HIDE DEF who
  <1>5. Settled(r.store) /\ Kept(s, r.store) /\ r.msgs = <<>>
    BY <1>1, <1>2, <1>3, <1>4, ProposeHandler
  <1> QED BY <1>5, QuietCall

\* A deposit is paid out.
PaidOut(s, ref, to) == [s EXCEPT !.paid[ref] = Append(@, to)]

IsPaid(s, ref, to, t) ==
    /\ t \in Store /\ t.config = s.config /\ t.flow = s.flow /\ t.deposits = s.deposits
    /\ t.current_id = s.current_id /\ t.pending = s.pending /\ t.completed = s.completed
    /\ t.created_to_completed = s.created_to_completed /\ t.terms = s.terms /\ t.pm = s.pm
    /\ t.bank = s.bank /\ t.withdrawn = s.withdrawn
    /\ t.paid[ref] = <<to>> /\ \A r \in Ids : r # ref => t.paid[r] = s.paid[r]

LEMMA PaidFields ==
    ASSUME NEW s \in Store, NEW ref \in Ids, NEW to \in Addr, s.paid[ref] = <<>>, NEW t,
           t = PaidOut(s, ref, to)
    PROVE  IsPaid(s, ref, to, t)
  <1> DEFINE q == <<to>>
             paid == [s.paid EXCEPT ![ref] = q]
  <1>1. s.paid \in [Ids -> Seq(Addr)]
    BY DEF Store
  <1>2. Append(s.paid[ref], to) = q /\ q \in Seq(Addr)
    <2>1. Append(<<>>, to) = <<to>>
      OBVIOUS
    <2> QED BY <2>1
  <1>3. t = [s EXCEPT !.paid = paid]
    BY <1>2 DEF PaidOut
  <1> HIDE DEF q
  <1>4. /\ paid \in [Ids -> Seq(Addr)] /\ paid[ref] = q
        /\ \A r \in Ids : r # ref => paid[r] = s.paid[r]
    BY <1>1, <1>2
  <1> HIDE DEF paid
  <1>5. t \in Store
    BY <1>3, <1>4 DEF Store
  <1>6. /\ t.config = s.config /\ t.flow = s.flow /\ t.deposits = s.deposits
        /\ t.current_id = s.current_id /\ t.pending = s.pending /\ t.completed = s.completed
        /\ t.created_to_completed = s.created_to_completed /\ t.terms = s.terms /\ t.pm = s.pm
        /\ t.bank = s.bank /\ t.withdrawn = s.withdrawn /\ t.paid = paid
    BY <1>3 DEF Store
  <1> QED BY <1>4, <1>5, <1>6 DEF IsPaid, q

LEMMA PaidKeeps ==
    ASSUME NEW s, Settled(s), NEW ref, NEW to \in Addr, DueIn(s, ref, to), NEW t,
           t = PaidOut(s, ref, to)
    PROVE  Settled(t) /\ IsPaid(s, ref, to, t)
  <1>1. s \in Store /\ ref \in Ids /\ s.paid[ref] = <<>> /\ validate(s.config.submission_policy)
    BY DEF Settled, StoreInv, DueIn
  <1>2. IsPaid(s, ref, to, t)
    BY <1>1, PaidFields
  <1>3. SubmissionsIn(t)
    BY <1>2 DEF IsPaid, Settled, StoreInv, SubmissionsIn, SingleIn, ApprovalIn, PendingIn,
                CompletedIn, CreatedIn, CountedIn
  <1>4. EntriesIn(t)
    BY <1>2 DEF IsPaid, Settled, StoreInv, EntriesIn
  <1>5. \A r : OutcomeIn(t, r) = OutcomeIn(s, r)
    BY <1>2 DEF IsPaid, OutcomeIn
  <1>6. \A r : PromisedIn(t, r) = PromisedIn(s, r)
    BY <1>2, <1>5 DEF IsPaid, PromisedIn
  <1>7. PaidIn(t)
    <2> SUFFICES ASSUME NEW r \in Ids, t.paid[r] # <<>>
                 PROVE  OutcomeIn(t, r) # "open" /\ t.paid[r] = <<PromisedIn(t, r)>>
      BY DEF PaidIn
    <2>1. CASE r = ref
      BY <1>2, <1>5, <1>6, <2>1 DEF IsPaid, DueIn
    <2>2. CASE r # ref
      BY <1>2, <1>5, <1>6, <2>2 DEF IsPaid, Settled, StoreInv, PaidIn
    <2> QED BY <2>1, <2>2
  <1>8. Below(t, Len(t.pm[Pm].proposals))
    BY <1>2 DEF IsPaid, Settled, Below
  <1> QED BY <1>1, <1>2, <1>3, <1>4, <1>7, <1>8 DEF Settled, StoreInv, IsPaid

LEMMA PayingCall ==
    ASSUME NEW s, NEW a, NEW from, NEW m, Sending(s, a, from, m), Pays(from, m),
           m.to \in Contracts, NEW r \in execute(s, m.to, from, m.body)
    PROVE  Inv(a, r.store) /\ r.msgs = <<>>
  <1> DEFINE c == m.body
             ref == c.ref
             to == c.to
             d == m.to
             u == Moved(s, d, Pre, to, c.amount)
  <1>1. /\ from = Pre /\ c.kind = "transfer" /\ ref # 0 /\ m \in Message
        /\ DueIn(s, ref, to) /\ Undisputed(a, s, ref)
    BY DEF Pays, Sending, MsgInv
  <1>2. to \in Addr /\ c.amount \in Nat
    BY <1>1, BodyFields DEF Message
  <1>3. Settled(s) /\ Idle(a) /\ ExpectedBelow(a, Len(a) + 1, s)
    BY <1>1 DEF Sending, Announces
  <1>4. /\ Pre # Approver /\ Pre \notin Pms /\ Approver \notin Pms
        /\ {Pre, Approver} \cap Denom = {} /\ Pms \cap Denom = {}
    BY Addresses DEF Pms
  <1>5. d \in Denom
    <2>1. d # Pre
      BY <1>1, <1>4 DEF execute, execute_pre
    <2>2. d # Approver
      BY <1>1, <1>4 DEF execute, execute_approver
    <2>3. d \notin Pms
      BY <1>1, <1>4 DEF execute, execute_pm
    <2> QED BY <2>1, <2>2, <2>3 DEF Contracts
  <1>6. r \in transfer(s, d, Pre, to, c.amount, ref)
    <2>1. r \in execute_token(s, d, Pre, c)
      BY <1>1, <1>4, <1>5 DEF execute
    <2> QED BY <1>1, <2>1 DEF execute_token
  <1> DEFINE g == s.bank[d][Pre] >= c.amount
             t == PaidOut(u, ref, to)
  <1>7. transfer(s, d, Pre, to, c.amount, ref) = Ok(g, t, <<>>) /\ g \in BOOLEAN
    BY <1>1 DEF transfer, PaidOut
  <1> HIDE DEF g, t
  <1>8. g /\ r.store = t /\ r.msgs = <<>>
    BY <1>6, <1>7, OkFields
  <1>9. Quiet(s, u)
    BY <1>2, <1>3, <1>5, <1>8, MovedQuiet DEF g
  <1>a. t = PaidOut(u, ref, to)
    BY DEF t
  <1> HIDE DEF u, ref, to, d
  <1>10. Settled(u) /\ Kept(s, u) /\ Same(s, u)
    BY <1>3, <1>9, QuietKeeps DEF Quiet
  <1>11. DueIn(u, ref, to)
    BY <1>1, <1>10, SameOutcome DEF DueIn, Same
  <1>12. Settled(t) /\ IsPaid(u, ref, to, t)
    BY <1>2, <1>10, <1>11, <1>a, PaidKeeps
  <1>13. ASSUME NEW k \in DOMAIN a, NEW i \in DOMAIN a[k].pending
         PROVE  Expected(t, a[k].to, a[k].pending[i])
    <2> DEFINE x == a[k].pending[i]
               id == x.body.id
    <2>1. k < Len(a) + 1
      BY <1>3, StackFields DEF Idle, StackInv
    <2>2. Expected(s, a[k].to, x)
      BY <1>3, <2>1 DEF ExpectedBelow
    <2>3. Expected(u, a[k].to, x)
      BY <1>10, <2>2, KeptExpected
    <2>4. IsRun(a[k].to, x) => Ran(t, id_after_shift(x.reply_id))
      BY <1>12, <2>3 DEF Expected, IsPaid, Ran
    <2>5. ASSUME IsHook(a[k].to, x)
          PROVE  Owed(t, id, x.body.status)
      <3>1. Owed(u, id, x.body.status)
        BY <2>3, <2>5 DEF Expected
      <3>2. s.deposits[id] # NoEntry => s.deposits[id].ref # ref
        BY <1>1, <2>5 DEF Undisputed
      <3> HIDE DEF id, x
      <3>3. u.deposits[id] # NoEntry => u.deposits[id].ref # ref
        BY <1>10, <3>2 DEF Same
      <3>4. id \in Ids /\ (u.deposits[id] # NoEntry => u.deposits[id].ref \in Ids)
        BY <1>10, <3>1, EntryRef DEF Owed, Settled
      <3>5. t.deposits = u.deposits /\ t.pm = u.pm /\ \A o \in Ids : o # ref => t.paid[o] = u.paid[o]
        BY <1>12 DEF IsPaid
      <3>6. t.deposits[id] # NoEntry => t.paid[t.deposits[id].ref] = <<>>
        BY <3>1, <3>3, <3>4, <3>5 DEF Owed
      <3> QED BY <3>1, <3>5, <3>6 DEF Owed
    <2> QED BY <2>4, <2>5 DEF Expected
  <1>14. ExpectedBelow(a, Len(a) + 1, t)
    BY <1>13 DEF ExpectedBelow
  <1>15. Inv(a, t)
    BY <1>3, <1>12, <1>14, IdleInv
  <1> QED BY <1>8, <1>15

----------------------------------------------------------------------------
(* Every step keeps the invariant *)

LEMMA DispatchInv ==
    ASSUME IInv, Dispatch
    PROVE  IInv'
  <1> DEFINE a == Advance(stack)
             from == Top.to
             m == NextMsg
             results == execute(store, m.to, from, m.body)
  <1>1. Inv(stack, store) /\ stack # <<>> /\ Last(stack).pending # <<>>
    BY DEF IInv, Dispatch, Running, Top
  <1>2. Sending(store, a, from, m)
    BY <1>1, SendingInv DEF Top, NextMsg
  <1>3. \/ /\ m.to \notin Contracts
           /\ stack' = Append(a, Frame(m, store, <<>>, FALSE))
           /\ store' = store
        \/ /\ m.to \in Contracts
           /\ \E r \in results :
                  /\ store' = r.store
                  /\ stack' = IF r.msgs = <<>> THEN a ELSE Append(a, Frame(m, store, r.msgs, TRUE))
        \/ Unwind(Append(a, Frame(m, store, <<>>, TRUE)))
    BY DEF Dispatch
  <1> HIDE DEF a, from, m, results
  <1>4. CASE /\ m.to \notin Contracts
             /\ stack' = Append(a, Frame(m, store, <<>>, FALSE))
             /\ store' = store
    BY <1>2, <1>4, ForeignCall DEF IInv
  <1>5. ASSUME m.to \in Contracts, NEW r \in results, store' = r.store,
               stack' = IF r.msgs = <<>> THEN a ELSE Append(a, Frame(m, store, r.msgs, TRUE))
        PROVE  Inv(stack', store')
    <2>1. r \in execute(store, m.to, from, m.body)
      BY <1>5 DEF results
    <2>2. CASE Announces(from, m)
      <3>1. Inv(a, r.store) /\ r.msgs = <<>>
        BY <1>2, <2>1, <2>2, AnnouncedCall
      <3> QED BY <1>5, <3>1
    <2>3. CASE Pays(from, m)
      <3>1. Inv(a, r.store) /\ r.msgs = <<>>
        BY <1>2, <1>5, <2>1, <2>3, PayingCall
      <3> QED BY <1>5, <3>1
    <2>4. CASE ~Special(from, m)
      <3>1. Settled(store) /\ from \in Addr /\ MsgInv(from, m) /\ Expected(store, from, m)
        BY <1>2, <2>4 DEF Sending, Special
      <3> DEFINE t == r.store
                 ms == r.msgs
      <3>2. Result(store, from, m, t, ms)
        BY <1>5, <2>1, <2>4, <3>1, Handler
      <3> HIDE DEF t, ms
      <3>3. CASE ms = <<>>
        <4>1. Settled(t) /\ Kept(store, t)
          BY <3>2, <3>3 DEF Result, HeadInv, Settled
        <4>2. Inv(a, t)
          BY <1>2, <4>1, QuietCall
        <4> QED BY <1>5, <3>3, <4>2 DEF t, ms
      <3>4. CASE ms # <<>>
        <4>1. Inv(Append(a, Frame(m, store, ms, TRUE)), t)
          BY <1>2, <2>4, <3>2, LoudCall
        <4> QED BY <1>5, <3>4, <4>1 DEF t, ms
      <3> QED BY <3>3, <3>4
    <2> QED BY <2>2, <2>3, <2>4 DEF Special
  <1>6. CASE Unwind(Append(a, Frame(m, store, <<>>, TRUE)))
    <2> DEFINE b == Append(a, Frame(m, store, <<>>, TRUE))
    <2>1. UnwindInv(b)
      BY <1>2, FailedCall
    <2>2. Unwind(b)
      BY <1>6
    <2> HIDE DEF b
    <2> QED BY <2>1, <2>2, Unwound DEF IInv
  <1> QED BY <1>3, <1>4, <1>5, <1>6 DEF IInv

LEMMA RaiseInv ==
    ASSUME IInv, Raise
    PROVE  IInv'
  <1>1. UnwindInv(stack)
    BY DEF IInv, Inv, StackInv, HooksInv, SavedHooks, UnwindInv, FrameInv, Raise, Running
  <1> QED BY <1>1, Unwound DEF Raise, IInv

LEMMA ReturnInv ==
    ASSUME IInv, Return
    PROVE  IInv'
  BY Returned DEF IInv, Return, Running, Top

\* A request is a message that relies on nothing.
LEMMA RequestMsg ==
    ASSUME NEW call \in Request, NEW m, m = Msg(call.to, call.body)
    PROVE  /\ MsgInv(call.sender, m) /\ call.sender \in Addr \ Contracts
           /\ \A s : Expected(s, call.sender, m)
  <1>1. /\ Pre \in Addr /\ Approver \in Addr /\ Pms \subseteq Addr /\ Users \subseteq Addr
        /\ Users \cap Contracts = {} /\ {Pre, Pm, ApproverPm} \subseteq Contracts
    BY Addresses
  <1>2. /\ call.sender \in Addr \ Contracts /\ call.to \in Addr
        /\ call.body \in Propose \cup PreMsg \cup ApproverMsg \cup PmMsg
        /\ call.body \in Propose => call.sender \in Users
    <2>1. CASE call \in [sender : Users, to : {Pre}, body : Propose]
      BY <1>1, <2>1
    <2>2. CASE call \in [sender : Addr \ Contracts, to : {Pre}, body : PreMsg]
      <3>1. call.body \notin Propose
        BY <2>2 DEF PreMsg, Completed, Propose
      <3> QED BY <1>1, <2>2, <3>1
    <2>3. CASE call \in [sender : Addr \ Contracts, to : {Approver}, body : ApproverMsg]
      <3>1. call.body \notin Propose
        BY <2>3 DEF ApproverMsg, Completed, Propose
      <3> QED BY <1>1, <2>3, <3>1
    <2>4. CASE call \in [sender : Addr \ Contracts, to : Pms, body : PmMsg]
      <3>1. call.body \notin Propose
        BY <2>4 DEF PmMsg, Propose
      <3> QED BY <1>1, <2>4, <3>1
    <2> QED BY <2>1, <2>2, <2>3, <2>4 DEF Request
  <1>3. /\ call.body \in Body /\ call.body.kind \notin {"transfer", "transfer_from", "execute"}
        /\ call.body.kind = "propose" => call.body \in Propose
    BY <1>2 DEF Body, Propose, PreMsg, ApproverMsg, PmMsg, Completed
  <1>4. MsgInv(call.sender, m)
    BY <1>1, <1>2, <1>3 DEF MsgInv, Message, Msg, NoReply, Pms
  <1>5. \A s : Expected(s, call.sender, m)
    BY <1>1, <1>2 DEF Expected, IsHook, IsRun
  <1> QED BY <1>2, <1>4, <1>5

\* A transaction starts.
LEMMA FirstCall ==
    ASSUME NEW s, Settled(s), NEW sender \in Addr \ Contracts, NEW m, MsgInv(sender, m),
           Expected(s, sender, m)
    PROVE  Inv(<<Frame(Msg(sender, [kind |-> "tx"]), s, <<m>>, TRUE)>>, s)
  <1> DEFINE a == <<>>
             x == Msg(sender, [kind |-> "tx"])
             msgs == <<m>>
             done == TRUE
             f == Frame(x, s, msgs, done)
             b == Append(a, f)
  <1>1. a \in Seq(Call1) /\ DOMAIN a = {} /\ a = <<>>
    OBVIOUS
  <1>2. b = <<f>>
    OBVIOUS
  <1>3. sender \in Addr /\ sender # Pre /\ sender # Pm
    BY Addresses
  <1>4. /\ x.to = sender /\ x.body \in [kind : {"tx"}] /\ x.reply_on = "never" /\ x.reply_id \in Nat
    BY DEF Msg, NoReply
  <1>5. done \in BOOLEAN
    OBVIOUS
  <1>6. /\ msgs \in Seq(Message) /\ msgs # <<>> /\ Head(msgs) = m /\ DOMAIN msgs = {1}
        /\ msgs[1] = m /\ MsgsInv(sender, msgs)
    BY OneMsg
  <1> HIDE DEF x, msgs, done
  <1>7. /\ f.to = sender /\ f.reply_on = "never" /\ f.saved = s /\ f.pending = msgs
    BY <1>4 DEF Frame
  <1>8. f \in Call1
    <2>1. s \in Store
      BY DEF Settled, StoreInv
    <2> QED BY <1>3, <1>4, <1>5, <1>6, <2>1 DEF Frame, Call1
  <1> HIDE DEF a, f, b
  <1>9. Idle(a) /\ ExpectedBelow(a, Len(a) + 1, s)
    BY <1>1 DEF Idle, StackInv, AllPlain, SavedHooks, DifferentHooks, ExpectedBelow
  <1>10. PushInv(a, f)
    BY <1>1, <1>6, <1>7, <1>8, <1>9 DEF PushInv
  <1>11. ~Announces(sender, m) /\ ~Pays(sender, m)
    BY <1>3 DEF Announces, Pays
  <1>12. HeadInv(s, f.to, f.pending)
    BY <1>6, <1>7, <1>11 DEF HeadInv, Settled
  <1>13. \A i \in DOMAIN f.pending : Expected(s, f.to, f.pending[i])
    BY <1>6, <1>7
  <1>14. StoreInv(s)
    BY DEF Settled
  <1>15. f.pending # <<>> /\ Pays(f.to, Head(f.pending)) => Undisputed(b, s, Head(f.pending).body.ref)
    BY <1>6, <1>7, <1>11
  <1>16. Inv(b, s)
    <2>1. b = Append(a, f) /\ Settled(f.saved)
      BY <1>7 DEF b
    <2> QED BY <1>9, <1>10, <1>12, <1>13, <1>14, <1>15, <2>1, PushedInv
  <1>17. f = Frame(Msg(sender, [kind |-> "tx"]), s, <<m>>, TRUE)
    BY DEF f, x, msgs, done
  <1> QED BY <1>2, <1>16, <1>17

\* A foreign contract that is running calls.
LEMMA NestedCall ==
    ASSUME NEW st, NEW s, Inv(st, s), st # <<>>, Last(st).to \notin Contracts,
           NEW m, MsgInv(Last(st).to, m), Expected(s, Last(st).to, m)
    PROVE  Inv(Append(Front(st), [Last(st) EXCEPT !.pending = <<m>>, !.called = TRUE]), s)
  <1> DEFINE n == Len(st)
             a == SubSeq(st, 1, n - 1)
             msgs == <<m>>
             f == [Last(st) EXCEPT !.pending = msgs, !.called = TRUE]
             b == Append(a, f)
             from == Last(st).to
  <1>1. StoreInv(s) /\ StackInv(st) /\ HooksInv(st, s) /\ TopInv(st, s) /\ SavedHooks(st)
    BY DEF Inv, HooksInv, SavedHooks
  <1>2. /\ st \in Seq(Call1) /\ n \in Nat /\ n # 0 /\ DOMAIN st = 1 .. n /\ n \in DOMAIN st
        /\ Last(st) = st[n] /\ st[n] \in Call1 /\ from \in Addr
    BY <1>1, StackFields DEF StackInv
  <1>3. from # Pre /\ from # Pm
    BY Addresses
  <1>4. /\ msgs \in Seq(Message) /\ msgs # <<>> /\ Head(msgs) = m /\ DOMAIN msgs = {1}
        /\ msgs[1] = m /\ MsgsInv(from, msgs)
    BY OneMsg
  <1>5. a = Front(st)
    BY DEF Front
  <1> HIDE DEF msgs
  <1>6. /\ f \in Call1 /\ f.to = from /\ f.saved = st[n].saved /\ f.reply_on = st[n].reply_on
        /\ f.reply_id = st[n].reply_id /\ f.pending = msgs
    BY <1>2, <1>4 DEF Call1
  <1> HIDE DEF f, from
  <1>7. \A k \in 1 .. n - 1 : k \in DOMAIN st /\ k # n /\ k < n /\ k \in 1 .. n
    <2>1. n \in Nat /\ DOMAIN st = 1 .. n
      BY <1>2
    <2> HIDE DEF n
    <2> QED BY <2>1
  <1>8. /\ \A k \in 1 .. n - 1 : FrameInv(st[k]) /\ ReplyInv(st, k) /\ Plain(st[k].to, st[k].pending)
        /\ FrameInv(st[n]) /\ ReplyInv(st, n)
    BY <1>1, <1>2, <1>7 DEF StackInv
  <1>9. n - 1 \in 0 .. Len(st) /\ n - 1 \in Nat
    BY <1>2
  <1>10. /\ a \in Seq(Call1) /\ Len(a) = n - 1 /\ DOMAIN a = 1 .. n - 1
         /\ \A k \in 1 .. n - 1 : a[k] = st[k]
    <2> DEFINE j == n - 1
    <2>1. j \in 0 .. Len(st) /\ a = SubSeq(st, 1, j)
      BY <1>9
    <2>2. st \in Seq(Call1) /\ Len(st) \in Nat /\ j \in Nat
      BY <1>2, <1>9
    <2> HIDE DEF j, a, n
    <2>3. /\ a \in Seq(Call1) /\ Len(a) = j /\ DOMAIN a = 1 .. j
          /\ \A k \in 1 .. j : a[k] = st[k] /\ k \in DOMAIN st
      BY <2>1, <2>2
    <2> QED BY <2>3 DEF j
  <1>11. Idle(a) /\ Remains(a, st)
    <2> DEFINE j == n - 1
    <2>1. j \in 0 .. Len(st) /\ a = SubSeq(st, 1, j)
      BY <1>9
    <2>2. \A k \in 1 .. j : FrameInv(st[k]) /\ ReplyInv(st, k) /\ Plain(st[k].to, st[k].pending)
      BY <1>8
    <2> HIDE DEF j, a
    <2> QED BY <1>1, <1>2, <2>1, <2>2, Cut
  <1> HIDE DEF a
  <1>12. n - 1 # 0 => a # <<>> /\ Last(a) = st[n - 1] /\ n - 1 \in 1 .. n - 1
    <2> HIDE DEF n
    <2> DEFINE j == n - 1
    <2>1. j \in Nat
      BY <1>9
    <2> HIDE DEF j
    <2>2. j # 0 => j \in 1 .. j
      BY <2>1
    <2>3. n - 1 # 0 => n - 1 \in 1 .. n - 1
      BY <2>2 DEF j
    <2> QED BY <1>10, <2>3, StackFields
  <1>13. b = Append(a, f)
    OBVIOUS
  <1>14. ExpectedBelow(a, Len(a) + 1, s) /\ ExpectedBelow(a, Len(a) + 1, f.saved)
    <2>1. ExpectedBelow(st, n + 1, s) /\ ExpectedBelow(st, n, st[n].saved)
      BY <1>1, <1>2 DEF HooksInv
    <2> HIDE DEF n
    <2>2. ExpectedBelow(a, n + 1, s) /\ ExpectedBelow(a, n, st[n].saved)
      BY <1>11, <2>1, RemainsExpected
    <2>3. \A k \in DOMAIN a : k < n + 1 /\ k < n
      BY <1>2, <1>7, <1>10
    <2> QED BY <1>6, <2>2, <2>3 DEF ExpectedBelow
  <1>15. ASSUME f.reply_on = "error"
         PROVE  /\ a # <<>> /\ Last(a).to \in Pms
                /\ reply_type(f.reply_id) # FAILED_PRE_PROPOSE_MODULE_HOOK_ID =>
                       Last(a).to = Pm /\ Ran(f.saved, id_after_shift(f.reply_id))
    <2> HIDE DEF n
    <2>1. /\ n # 1 /\ st[n - 1].to \in Pms
          /\ reply_type(f.reply_id) # FAILED_PRE_PROPOSE_MODULE_HOOK_ID =>
                 st[n - 1].to = Pm /\ Ran(f.saved, id_after_shift(f.reply_id))
      BY <1>6, <1>8, <1>15 DEF ReplyInv
    <2>2. n - 1 # 0
      BY <1>2, <2>1
    <2> QED BY <1>12, <2>1, <2>2
  <1>16. PushInv(a, f)
    BY <1>3, <1>4, <1>6, <1>14, <1>15 DEF PushInv, IsHook
  <1>17. Settled(f.saved) /\ Settled(s)
    <2>1. Settled(f.saved)
      BY <1>6, <1>8 DEF FrameInv
    <2>2. Below(s, Len(s.pm[Pm].proposals))
      BY <1>1, <1>3 DEF TopInv, HeadInv, Announces, from
    <2> QED BY <1>1, <2>1, <2>2 DEF Settled
  <1>18. ~Announces(from, m) /\ ~Pays(from, m)
    BY <1>3 DEF Announces, Pays
  <1>19. HeadInv(s, f.to, f.pending)
    BY <1>4, <1>6, <1>17, <1>18 DEF HeadInv, Settled
  <1>20. \A i \in DOMAIN f.pending : Expected(s, f.to, f.pending[i])
    BY <1>4, <1>6 DEF from
  <1>21. f.pending # <<>> /\ Pays(f.to, Head(f.pending)) => Undisputed(b, s, Head(f.pending).body.ref)
    BY <1>4, <1>6, <1>18
  <1> HIDE DEF b
  <1>22. Inv(b, s)
    BY <1>1, <1>11, <1>13, <1>14, <1>16, <1>17, <1>19, <1>20, <1>21, PushedInv
  <1> QED BY <1>5, <1>22 DEF msgs, f, b

LEMMA CallInv ==
    ASSUME IInv, NEW call \in Calls[store.flow], Call(call.sender, call.to, call.body)
    PROVE  IInv'
  <1> DEFINE m == Msg(call.to, call.body)
             from == call.sender
  <1>1. Inv(stack, store)
    BY DEF IInv
  <1>2. call \in Request
    <2>1. store.flow \in Flows
      BY <1>1 DEF Inv, StoreInv, Store
    <2> QED BY <2>1, InputAssumption DEF InputAssumption
  <1>3. MsgInv(from, m) /\ from \in Addr \ Contracts /\ Expected(store, from, m)
    BY <1>2, RequestMsg
  <1>4. store' = store /\ from \in Callers
    BY DEF Call
  <1>5. CASE stack = <<>>
    <2>1. stack' = <<Frame(Msg(from, [kind |-> "tx"]), store, <<m>>, TRUE)>>
      BY <1>5 DEF Call
    <2>2. Settled(store)
      BY <1>1, <1>5 DEF Inv, TopInv, Settled
    <2> HIDE DEF m, from
    <2>3. Inv(<<Frame(Msg(from, [kind |-> "tx"]), store, <<m>>, TRUE)>>, store)
      BY <1>3, <2>2, FirstCall
    <2> QED BY <1>4, <2>1, <2>3 DEF IInv
  <1>6. CASE stack # <<>>
    <2>1. from = Last(stack).to
      BY <1>4, <1>6 DEF Callers, Top
    <2>2. stack' = Append(Front(stack), [Last(stack) EXCEPT !.pending = <<m>>, !.called = TRUE])
      BY <1>6 DEF Call, Top
    <2> HIDE DEF m, from
    <2>3. Inv(Append(Front(stack), [Last(stack) EXCEPT !.pending = <<m>>, !.called = TRUE]), store)
      BY <1>1, <1>3, <1>6, <2>1, NestedCall
    <2> QED BY <1>4, <2>2, <2>3 DEF IInv
  <1> QED BY <1>5, <1>6

----------------------------------------------------------------------------
(* The start *)

\* A storage in which nothing has been submitted.
Blank(s) ==
    /\ s.deposits = [i \in Ids |-> NoEntry] /\ s.current_id = 0
    /\ s.pending = [i \in Ids |-> NoSubmission] /\ s.completed = [i \in Ids |-> NoSubmission]
    /\ s.created_to_completed = [i \in Ids |-> 0]
    /\ s.paid = [i \in Ids |-> <<>>]
    /\ \A id \in DOMAIN s.pm[Pm].proposals : s.pm[Pm].proposals[id].creator = Dao

LEMMA BlankSettled ==
    ASSUME NEW s \in Store, Blank(s), validate(s.config.submission_policy)
    PROVE  Settled(s)
  <1>1. s.flow \in {"single", "approval"}
    BY InputAssumption DEF InputAssumption, Store
  <1>2. SingleIn(s)
    BY DEF Blank, SingleIn
  <1>3. ASSUME NEW r \in Ids
        PROVE  PendingIn(s, r) /\ CompletedIn(s, r) /\ CreatedIn(s, r) /\ CountedIn(s, r)
    <2>1. /\ s.pending[r] = NoSubmission /\ s.completed[r] = NoSubmission
          /\ s.created_to_completed[r] = 0 /\ s.deposits[r] = NoEntry /\ s.current_id = 0
      BY <1>3 DEF Blank
    <2>2. ~(r <= 0)
      BY <1>3, InputAssumption DEF InputAssumption, Ids
    <2> QED BY <2>1, <2>2
          DEF PendingIn, CompletedIn, CreatedIn, CountedIn, NoSubmission
  <1>4. SubmissionsIn(s)
    BY <1>1, <1>2, <1>3 DEF SubmissionsIn, ApprovalIn
  <1>5. EntriesIn(s)
    <2>1. Dao # Pre
      BY Addresses
    <2> QED BY <2>1 DEF Blank, EntriesIn
  <1>6. PaidIn(s) /\ Below(s, Len(s.pm[Pm].proposals))
    BY DEF Blank, PaidIn, Below
  <1> QED BY <1>4, <1>5, <1>6 DEF Settled, StoreInv

\* instantiate leaves such a storage.
LEMMA Instantiated ==
    ASSUME NEW flow \in Flows, NEW config \in Config, NEW approver \in Addr,
           NEW hooks \in Seq(Addr), NEW n \in Nat,
           NEW s, s = instantiate(flow, config, approver, hooks, n)
    PROVE  s \in Store /\ Blank(s) /\ s.config = config
  <1> DEFINE given == IF approver = Approver THEN <<Approver>> ELSE <<>>
             all == hooks \o given
             open == [creator |-> Dao, proposer |-> Dao, status |-> "open"]
             first == [i \in 1 .. n |-> open]
             pm == [p \in Pms |-> [proposals |-> IF p = ApproverPm THEN <<>> ELSE first,
                                   policy |-> IF p = Pm THEN Pre ELSE Approver]]
             bank == [d \in Denom |-> [h \in Holders |-> IF h \in Users THEN Wealth ELSE 0]]
             terms == [i \in Ids |-> [info |-> NoDeposit, proposer |-> "none"]]
             M == [proposals : Seq(Proposal), policy : Addr \cup {Anyone}]
             T == [info : CheckedDepositInfo \cup {NoDeposit}, proposer : Addr \cup {"none"}]
  <1>1. s = [flow |-> flow, config |-> config, deposits |-> [i \in Ids |-> NoEntry],
             hooks |-> all, approver |-> approver, current_id |-> 0,
             pending |-> [i \in Ids |-> NoSubmission],
             completed |-> [i \in Ids |-> NoSubmission],
             created_to_completed |-> [i \in Ids |-> 0],
             proposal_to_pre_propose |-> [i \in Ids |-> 0],
             pre_propose_to_proposal |-> [i \in Ids |-> 0],
             pm |-> pm, bank |-> bank, terms |-> terms,
             paid |-> [i \in Ids |-> <<>>], withdrawn |-> {}]
    BY DEF instantiate
  <1>2. {Pre, Approver, Dao, Pm, ApproverPm} \subseteq Addr /\ Pm # ApproverPm /\ Pm \in Pms
    BY Addresses DEF Pms
  <1>3. 0 \in 0 .. MaxProposals /\ Wealth \in Nat
    BY InputAssumption DEF InputAssumption
  <1>4. all \in Seq(Addr)
    <2>1. given \in Seq(Addr)
      BY <1>2
    <2> HIDE DEF given
    <2> QED BY <2>1
  <1>5. first \in Seq(Proposal) /\ DOMAIN first = 1 .. n /\ \A i \in 1 .. n : first[i].creator = Dao
    <2>1. open \in Proposal /\ open.creator = Dao
      BY <1>2 DEF Proposal, ProposalStatus
    <2> HIDE DEF open
    <2> QED BY <2>1
  <1> HIDE DEF given, all, first
  <1>6. pm \in [Pms -> M] /\ pm[Pm].proposals = first
    <2>1. pm[Pm].proposals = first
      BY <1>2
    <2>2. ASSUME NEW p \in Pms
          PROVE  pm[p] \in M
      <3> DEFINE q == IF p = ApproverPm THEN <<>> ELSE first
                 a == IF p = Pm THEN Pre ELSE Approver
      <3>1. q \in Seq(Proposal) /\ a \in Addr \cup {Anyone}
        BY <1>2, <1>5
      <3>2. pm[p] = [proposals |-> q, policy |-> a]
        BY <2>2
      <3> HIDE DEF q, a, pm
      <3> QED BY <3>1, <3>2
    <2> HIDE DEF M
    <2>3. pm \in [Pms -> M]
      BY <2>2
    <2> QED BY <2>1, <2>3
  <1>7. bank \in [Denom -> [Holders -> Nat]]
    BY <1>3
  <1>8. terms \in [Ids -> T]
    <2>1. [info |-> NoDeposit, proposer |-> "none"] \in T
      OBVIOUS
    <2> HIDE DEF T
    <2> QED BY <2>1
  <1> HIDE DEF pm, bank, terms
  <1>9. s \in Store
    BY <1>1, <1>3, <1>4, <1>6, <1>7, <1>8 DEF Store
  <1>10. /\ s.deposits = [i \in Ids |-> NoEntry] /\ s.current_id = 0
         /\ s.pending = [i \in Ids |-> NoSubmission]
         /\ s.completed = [i \in Ids |-> NoSubmission]
         /\ s.created_to_completed = [i \in Ids |-> 0] /\ s.paid = [i \in Ids |-> <<>>]
         /\ s.pm = pm /\ s.config = config
    BY <1>1
  <1> QED BY <1>5, <1>6, <1>9, <1>10 DEF Blank

LEMMA InitInv ==
    ASSUME Init
    PROVE  IInv
  <1>1. stack = <<>>
    BY DEF Init
  <1>2. PICK flow \in Flows : \E config \in Configs[flow], approver \in Approvers[flow],
                                 hooks \in HookLists[flow], n \in Earlier[flow] :
           /\ config.deposit_info # NoDeposit => into_checked(config.deposit_info)
           /\ validate(config.submission_policy)
           /\ store = instantiate(flow, config, approver, hooks, n)
    BY DEF Init
  <1>3. PICK config \in Configs[flow], approver \in Approvers[flow],
             hooks \in HookLists[flow], n \in Earlier[flow] :
           /\ config.deposit_info # NoDeposit => into_checked(config.deposit_info)
           /\ validate(config.submission_policy)
           /\ store = instantiate(flow, config, approver, hooks, n)
    BY <1>2
  <1>4. /\ config \in [deposit_info : DepositInfo \cup {NoDeposit},
                       submission_policy : PreProposeSubmissionPolicy]
        /\ approver \in Addr /\ hooks \in Seq(Addr) /\ n \in Nat
    BY InputAssumption DEF InputAssumption
  <1>5. config \in Config
    <2>1. config.deposit_info \in CheckedDepositInfo \cup {NoDeposit}
      BY <1>3, <1>4 DEF into_checked, DepositInfo, CheckedDepositInfo
    <2> QED BY <1>4, <2>1 DEF Config
  <1>6. store \in Store /\ Blank(store) /\ store.config = config
    BY <1>3, <1>4, <1>5, Instantiated
  <1>7. Settled(store)
    BY <1>3, <1>6, BlankSettled
  <1>8. Inv(<<>>, store)
    BY <1>7, NoCalls
  <1> QED BY <1>1, <1>8 DEF IInv

LEMMA NextInv ==
    ASSUME IInv, [Next]_vars
    PROVE  IInv'
  <1>1. CASE UNCHANGED vars
    BY <1>1 DEF IInv, vars
  <1>2. CASE Next
    BY <1>2, CallInv, DispatchInv, ReturnInv, RaiseInv DEF Next
  <1> QED BY <1>1, <1>2

----------------------------------------------------------------------------
(* No deposit is left behind *)

\* A deposit that is to be paid out.
Due(s, r) == s.terms[r].info # NoDeposit /\ OutcomeIn(s, r) # "open" /\ s.paid[r] = <<>>

\* Message m of contract from will have the deposit of submission r paid out: it is the
\* hook of its proposal, or the payment.
Settles(s, from, m, r) ==
    \/ /\ IsHook(from, m) /\ m.to = Pre
       /\ s.deposits[m.body.id] # NoEntry /\ s.deposits[m.body.id].ref = r
    \/ from = Pre /\ m.to \in Denom /\ m.body.kind = "transfer" /\ m.body.ref = r

\* Pre has its place or nobody has, and a submission with a deposit has an entry.
OwnerIn(s) ==
    /\ s.pm[Pm].policy \in {Pre, Anyone}
    /\ s.flow = "single" =>
           \A p \in Ids : s.terms[p].info # NoDeposit => s.deposits[p] # NoEntry

\* A message of one of the calls below n will have the deposit paid out.
Underway(st, n, s, r) ==
    \E k \in DOMAIN st : k < n /\ \E i \in DOMAIN st[k].pending :
        Settles(s, st[k].to, st[k].pending[i], r)

Carried(st, n, s) ==
    s.pm[Pm].policy = Pre => \A r \in Ids : Due(s, r) => Underway(st, n, s, r)

\* Pre still has its place if the transaction goes back to before call k.
KeepsPlace(st, k) ==
    \/ k = 1
    \/ /\ st[k].reply_on = "error"
       /\ ~ /\ st[k - 1].to = Pm
            /\ reply_type(st[k].reply_id) = FAILED_PRE_PROPOSE_MODULE_HOOK_ID

SavedAt(st, k) ==
    OwnerIn(st[k].saved) /\ (KeepsPlace(st, k) => Carried(st, k, st[k].saved))

SavedCarried(st) == \A k \in DOMAIN st : SavedAt(st, k)

CarriedInv(st, s) == OwnerIn(s) /\ Carried(st, Len(st) + 1, s) /\ SavedCarried(st)

\* Handling message m of from leaves the storage t and messages msgs, by which every
\* deposit that comes to be due, or that m was to have paid out, is paid out.
Resolves(s, from, m, t, msgs) ==
    /\ OwnerIn(t) /\ t.pm[Pm].policy = s.pm[Pm].policy
    /\ \A id \in Ids : id \in DOMAIN s.pm[Pm].proposals => t.deposits[id] = s.deposits[id]
    /\ s.pm[Pm].policy = Pre =>
           \A r \in Ids : Due(t, r) =>
               \/ Due(s, r) /\ ~Settles(s, from, m, r)
               \/ \E i \in DOMAIN msgs : Settles(t, m.to, msgs[i], r)

\* The owner and what is due do not change.
Idles(s, t) == Same(s, t) /\ t.pm[Pm].policy = s.pm[Pm].policy

LEMMA IdleResolves ==
    ASSUME NEW s, NEW t, OwnerIn(s), Idles(s, t), NEW from, NEW m, NEW msgs,
           \A r \in Ids : ~Settles(s, from, m, r)
    PROVE  Resolves(s, from, m, t, msgs)
  <1>1. OwnerIn(t)
    BY DEF OwnerIn, Idles, Same
  <1>2. \A r \in Ids : Due(t, r) => Due(s, r)
    BY SameOutcome DEF Idles, Same, Due
  <1> QED BY <1>1, <1>2 DEF Resolves, Idles, Same

\* Most messages pay nothing out.
LEMMA SettlesNothing ==
    ASSUME NEW s, NEW from, NEW m,
           \/ m.to = Pre /\ m.body.kind # "completed"
           \/ m.to \in {Approver} \cup Pms
           \/ m.to \in Denom /\ (from # Pre \/ m.body.kind # "transfer" \/ m.body.ref = 0)
    PROVE  \A r \in Ids : ~Settles(s, from, m, r)
  <1>1. /\ Pre \notin Denom /\ Approver \notin Denom /\ Pms \cap Denom = {}
        /\ Pre # Approver /\ Pre \notin Pms
    BY Addresses DEF Pms
  <1> SUFFICES ASSUME NEW r \in Ids, Settles(s, from, m, r)
               PROVE  FALSE
    OBVIOUS
  <1>2. r # 0
    BY DEF Ids
  <1> QED BY <1>1, <1>2 DEF Settles, IsHook

----------------------------------------------------------------------------
(* Handlers that leave the deposits alone *)

LEMMA ConfigIdles ==
    ASSUME NEW s, Settled(s), NEW sender, NEW info, NEW policy,
           NEW r \in execute_update_config(s, sender, info, policy)
    PROVE  Idles(s, r.store)
  <1> DEFINE p == IF policy = {} THEN s.config.submission_policy ELSE CHOOSE q \in policy : TRUE
  <1>1. r.store = [s EXCEPT !.config.deposit_info = info, !.config.submission_policy = p]
    BY DEF execute_update_config, Ok
  <1>2. s \in Store
    BY DEF Settled, StoreInv
  <1> HIDE DEF p
  <1> QED BY <1>1, <1>2 DEF Idles, Same, Store

LEMMA PolicyIdles ==
    ASSUME NEW s, Settled(s), NEW sender, NEW u,
           NEW r \in execute_update_submission_policy(s, sender, u)
    PROVE  Idles(s, r.store)
  <1> DEFINE p == updated(s.config.submission_policy, u)
  <1>1. r.store = [s EXCEPT !.config.submission_policy = p]
    BY DEF execute_update_submission_policy, Ok
  <1>2. s \in Store
    BY DEF Settled, StoreInv
  <1> HIDE DEF p
  <1> QED BY <1>1, <1>2 DEF Idles, Same, Store

LEMMA HooksIdle ==
    ASSUME NEW s, Settled(s), NEW allowed, NEW addr, NEW r,
           \/ r \in execute_add_proposal_submitted_hook(s, allowed, addr)
           \/ r \in execute_remove_proposal_submitted_hook(s, allowed, addr)
    PROVE  Idles(s, r.store)
  <1> DEFINE more == add_hook(s.hooks, addr)
             less == remove_hook(s.hooks, addr)
  <1>1. r.store = [s EXCEPT !.hooks = more] \/ r.store = [s EXCEPT !.hooks = less]
    BY DEF execute_add_proposal_submitted_hook, execute_remove_proposal_submitted_hook, Ok
  <1>2. s \in Store
    BY DEF Settled, StoreInv
  <1> HIDE DEF more, less
  <1>3. CASE r.store = [s EXCEPT !.hooks = more]
    BY <1>2, <1>3 DEF Idles, Same, Store
  <1>4. CASE r.store = [s EXCEPT !.hooks = less]
    BY <1>2, <1>4 DEF Idles, Same, Store
  <1> QED BY <1>1, <1>3, <1>4

LEMMA ApproverIdles ==
    ASSUME NEW s, Settled(s), NEW sender, NEW addr,
           NEW r \in execute_update_approver(s, sender, addr)
    PROVE  Idles(s, r.store)
  <1>1. r.store = [s EXCEPT !.approver = addr]
    BY DEF execute_update_approver, Ok
  <1>2. s \in Store
    BY DEF Settled, StoreInv
  <1> QED BY <1>1, <1>2 DEF Idles, Same, Store

LEMMA MovedIdles ==
    ASSUME NEW s, Settled(s), NEW d, NEW from, NEW to, NEW amount
    PROVE  Idles(s, Moved(s, d, from, to, amount))
  <1> DEFINE left == [s.bank[d] EXCEPT ![from] = @ - amount]
             x == [left EXCEPT ![to] = @ + amount]
             t == Moved(s, d, from, to, amount)
  <1>1. t = [s EXCEPT !.bank[d] = x]
    BY DEF Moved
  <1>2. s \in Store
    BY DEF Settled, StoreInv
  <1> HIDE DEF x, t
  <1>3. Idles(s, t)
    BY <1>1, <1>2 DEF Idles, Same, Store
  <1> QED BY <1>3 DEF t

LEMMA WithdrawIdles ==
    ASSUME NEW s, NEW sender, NEW denom, NEW r \in execute_withdraw(s, sender, denom)
    PROVE  Idles(s, r.store)
  <1> DEFINE chosen == IF denom = {} THEN {s.config.deposit_info.denom} \cap Denom ELSE denom
  <1>1. PICK d \in chosen : r \in Ok(sender = Dao /\ s.bank[d][Pre] # 0, s,
                                     <<TransferMsg(d, Dao, s.bank[d][Pre], 0)>>)
    BY DEF execute_withdraw, TransferMsg
  <1>2. r.store = s
    BY <1>1 DEF Ok
  <1> QED BY <1>2 DEF Idles, Same

LEMMA ApproverModuleIdles ==
    ASSUME NEW s, Settled(s), NEW from, NEW c, NEW r \in execute_approver(s, from, c)
    PROVE  Idles(s, r.store)
  <1>1. s \in Store
    BY DEF Settled, StoreInv
  <1>2. CASE c.kind = "submitted"
    <2> DEFINE id == next_proposal_id(s, ApproverPm)
               x == [s.proposal_to_pre_propose EXCEPT ![id] = c.ref]
               y == [s.pre_propose_to_proposal EXCEPT ![c.ref] = id]
    <2>1. r \in approver_execute_propose(s, from, c.ref)
      BY <1>2 DEF execute_approver
    <2>2. r.store = [s EXCEPT !.proposal_to_pre_propose = x, !.pre_propose_to_proposal = y]
      BY <2>1 DEF approver_execute_propose, Ok
    <2> HIDE DEF x, y
    <2> QED BY <1>1, <2>2 DEF Idles, Same, Store
  <1>3. CASE c.kind = "completed"
    <2>1. r \in execute_proposal_completed(s, from, c.id, c.status)
      BY <1>3 DEF execute_approver
    <2>2. r.store = s
      BY <2>1 DEF execute_proposal_completed, Ok
    <2> QED BY <2>2 DEF Idles, Same
  <1>4. CASE c.kind = "reset_approver"
    <2>1. r \in execute_reset_approver(s, from)
      BY <1>4 DEF execute_approver
    <2>2. r.store = s
      BY <2>1 DEF execute_reset_approver, Ok
    <2> QED BY <2>2 DEF Idles, Same
  <1> QED BY <1>2, <1>3, <1>4 DEF execute_approver

----------------------------------------------------------------------------
(* Handlers that deposits depend on *)

\* What is due after storages that each leave the owner and what is due alone.
LEMMA ThenResolves ==
    ASSUME NEW s, NEW u, Idles(s, u), NEW from, NEW m, NEW t, NEW msgs,
           \A r \in Ids : ~Settles(s, from, m, r), Resolves(u, from, m, t, msgs)
    PROVE  Resolves(s, from, m, t, msgs)
  <1>1. \A r \in Ids : Due(u, r) => Due(s, r)
    BY SameOutcome DEF Idles, Same, Due
  <1> QED BY <1>1 DEF Resolves, Idles, Same

\* What a submission changes.
OnlyNoted(s, id, t) ==
    /\ t.pm = s.pm /\ t.flow = s.flow /\ t.completed = s.completed /\ t.paid = s.paid
    /\ \A p \in Ids : p # id => t.deposits[p] = s.deposits[p] /\ t.terms[p] = s.terms[p]
    /\ t.deposits[id] # NoEntry

LEMMA NotedOnly ==
    ASSUME NEW s \in Store, NEW id \in Ids, NEW info \in OptInfo, NEW who \in Addr, NEW t,
           t = Noted(s, id, info, who)
    PROVE  OnlyNoted(s, id, t)
  <1>1. /\ t \in Store /\ t.config = s.config /\ t.pm = s.pm
        /\ t.flow = s.flow /\ t.current_id = s.current_id
        /\ t.pending = s.pending /\ t.completed = s.completed
        /\ t.created_to_completed = s.created_to_completed /\ t.paid = s.paid
        /\ t.bank = s.bank /\ t.withdrawn = s.withdrawn /\ t.approver = s.approver
        /\ t.deposits[id] = [info |-> info, proposer |-> who, ref |-> id]
        /\ t.terms[id] = [info |-> info, proposer |-> who]
        /\ \A p \in Ids : p # id => t.deposits[p] = s.deposits[p] /\ t.terms[p] = s.terms[p]
        /\ t.deposits[id] # NoEntry
    BY NotedFields
  <1> QED BY <1>1 DEF OnlyNoted

OnlyAwaiting(s, id, t) ==
    /\ t.pm = s.pm /\ t.flow = s.flow /\ t.completed = s.completed /\ t.paid = s.paid
    /\ t.deposits = s.deposits
    /\ \A p \in Ids : p # id => t.terms[p] = s.terms[p]

LEMMA AwaitingOnly ==
    ASSUME NEW s \in Store, NEW id \in Ids, NEW sub \in Submission, NEW t,
           t = Awaiting(s, id, sub)
    PROVE  OnlyAwaiting(s, id, t)
  <1>1. /\ t \in Store /\ t.config = s.config /\ t.pm = s.pm /\ t.deposits = s.deposits
        /\ t.flow = s.flow /\ t.current_id = id /\ t.completed = s.completed
        /\ t.created_to_completed = s.created_to_completed /\ t.paid = s.paid
        /\ t.bank = s.bank /\ t.withdrawn = s.withdrawn /\ t.approver = s.approver
        /\ t.pending[id] = sub
        /\ t.terms[id] = [info |-> sub.deposit, proposer |-> sub.proposer]
        /\ \A r \in Ids : r # id => t.pending[r] = s.pending[r] /\ t.terms[r] = s.terms[r]
    BY AwaitingFields
  <1> QED BY <1>1 DEF OnlyAwaiting

\* A submission of the flow without an approver.
LEMMA SingleResolves ==
    ASSUME NEW s, Settled(s), OwnerIn(s), s.flow = "single", NEW from \in Users, NEW m,
           \A x \in Ids : ~Settles(s, from, m, x),
           NEW funds, NEW r \in execute_propose(s, from, funds)
    PROVE  Resolves(s, from, m, r.store, r.msgs)
  <1> DEFINE id == NextId(s)
             info == s.config.deposit_info
             u == Noted(s, id, info, from)
             t == r.store
  <1>1. s \in Store /\ info \in OptInfo /\ from \in Addr
    BY Addresses DEF Settled, StoreInv, Store, Config, OptInfo
  <1>2. id \in Ids /\ t = u
    BY DEF execute_propose, Ok, NextId, next_proposal_id, Noted
  <1>a. OnlyNoted(s, id, t)
    <2>1. id \in Ids /\ t = Noted(s, id, info, from)
      BY <1>2
    <2> HIDE DEF id, info, t, u
    <2> QED BY <1>1, <2>1, NotedOnly
  <1>3. /\ t.pm = s.pm /\ t.flow = s.flow /\ t.completed = s.completed /\ t.paid = s.paid
        /\ \A p \in Ids : p # id => t.deposits[p] = s.deposits[p] /\ t.terms[p] = s.terms[p]
        /\ t.deposits[id] # NoEntry
    BY <1>a DEF OnlyNoted
  <1>4. id \notin DOMAIN s.pm[Pm].proposals
    <2>1. s.pm[Pm].proposals \in Seq(Proposal)
      BY <1>1 DEF Store, Pms
    <2> QED BY <2>1 DEF NextId
  <1> HIDE DEF id, t
  <1>5. OutcomeIn(t, id) = "open"
    BY <1>3, <1>4 DEF OutcomeIn
  <1>6. \A x \in Ids : Due(t, x) => Due(s, x)
    <2>1. \A x : OutcomeIn(t, x) = OutcomeIn(s, x)
      BY <1>3 DEF OutcomeIn
    <2> QED BY <1>3, <1>5, <2>1 DEF Due
  <1>7. OwnerIn(t)
    BY <1>3 DEF OwnerIn
  <1> QED BY <1>3, <1>4, <1>6, <1>7 DEF Resolves, t

\* A submission that waits for the approver.
LEMMA ApprovalResolves ==
    ASSUME NEW s, Settled(s), OwnerIn(s), s.flow = "approval", NEW from \in Users, NEW m,
           \A x \in Ids : ~Settles(s, from, m, x),
           NEW funds, NEW r \in approval_execute_propose(s, from, funds)
    PROVE  Resolves(s, from, m, r.store, r.msgs)
  <1> DEFINE id == s.current_id + 1
             info == s.config.deposit_info
             sub == [status |-> "pending", created |-> 0, proposer |-> from, deposit |-> info]
             u == Awaiting(s, id, sub)
             t == r.store
  <1>1. s \in Store /\ info \in OptInfo /\ from \in Addr /\ StoreInv(s) /\ ApprovalIn(s)
    BY Addresses DEF Settled, StoreInv, SubmissionsIn, Store, Config, OptInfo
  <1>2. id \in Ids /\ t = u
    BY DEF approval_execute_propose, Ok, Awaiting
  <1>3. sub \in Submission
    <2>1. 0 \in 0 .. MaxProposals
      BY InputAssumption DEF InputAssumption
    <2> QED BY <1>1, <2>1 DEF Submission, OptInfo
  <1> HIDE DEF sub
  <1>a. OnlyAwaiting(s, id, t)
    <2>1. id \in Ids /\ t = Awaiting(s, id, sub)
      BY <1>2 DEF sub
    <2> HIDE DEF id, info, t, u
    <2> QED BY <1>1, <1>3, <2>1, AwaitingOnly
  <1>4. /\ t.pm = s.pm /\ t.flow = s.flow /\ t.completed = s.completed /\ t.paid = s.paid
        /\ t.deposits = s.deposits
        /\ \A p \in Ids : p # id => t.terms[p] = s.terms[p]
    BY <1>a DEF OnlyAwaiting
  <1>5. s.completed[id] = NoSubmission
    <2>1. CountedIn(s, id) /\ s.current_id \in 0 .. MaxProposals
      BY <1>1, <1>2 DEF ApprovalIn, Store
    <2>2. ~(id <= s.current_id)
      BY <2>1
    <2> QED BY <2>1, <2>2 DEF CountedIn
  <1> HIDE DEF id, t
  <1>6. \A x : OutcomeIn(t, x) = OutcomeIn(s, x)
    BY <1>4 DEF OutcomeIn
  <1>7. OutcomeIn(t, id) = "open"
    BY <1>1, <1>2, <1>5, <1>6, UndecidedOpen
  <1>8. \A x \in Ids : Due(t, x) => Due(s, x)
    BY <1>4, <1>6, <1>7 DEF Due
  <1>9. OwnerIn(t)
    BY <1>4 DEF OwnerIn
  <1> QED BY <1>4, <1>8, <1>9 DEF Resolves, t

LEMMA ProposeResolves ==
    ASSUME NEW s, Settled(s), OwnerIn(s), NEW from \in Users, NEW m,
           \A x \in Ids : ~Settles(s, from, m, x),
           NEW funds \in [denom : Denom, amount : Nat], NEW r \in pre_propose(s, from, funds)
    PROVE  Resolves(s, from, m, r.store, r.msgs)
  <1> DEFINE moved == Moved(s, funds.denom, from, Pre, funds.amount)
             t == IF funds.amount = 0 THEN s ELSE moved
  <1>1. funds.denom \in Denom /\ funds.amount \in Nat
    OBVIOUS
  <1>2. /\ ~(funds.amount # 0 /\ s.bank[funds.denom][from] < funds.amount)
        /\ s.flow = "single" => r \in execute_propose(t, from, funds)
        /\ s.flow # "single" => r \in approval_execute_propose(t, from, funds)
    BY DEF pre_propose
  <1>3. Settled(t) /\ Idles(s, t)
    <2>1. CASE funds.amount = 0
      BY <2>1 DEF Idles, Same
    <2>2. CASE funds.amount # 0
      <3>1. from \in Holders /\ s.bank[funds.denom][from] \in Nat
        BY <1>1 DEF Holders, Settled, StoreInv, Store
      <3>2. s.bank[funds.denom][from] >= funds.amount
        BY <1>1, <1>2, <2>2, <3>1
      <3>3. Quiet(s, moved)
        BY <1>1, <3>2, MovedQuiet
      <3>4. Idles(s, moved)
        BY MovedIdles
      <3> HIDE DEF moved
      <3>5. Settled(moved)
        BY <3>3, QuietKeeps
      <3> QED BY <2>2, <3>4, <3>5
    <2> QED BY <2>1, <2>2
  <1>4. s.flow \in {"single", "approval"} /\ t.flow = s.flow
    BY <1>3 DEF Settled, StoreInv, SubmissionsIn, Idles, Same
  <1> HIDE DEF t
  <1>5. OwnerIn(t) /\ \A x \in Ids : ~Settles(t, from, m, x)
    BY <1>3 DEF OwnerIn, Idles, Same, Settles
  <1>6. Resolves(t, from, m, r.store, r.msgs)
    <2>1. CASE s.flow = "single"
      BY <1>2, <1>3, <1>4, <1>5, <2>1, SingleResolves
    <2>2. CASE s.flow = "approval"
      <3>1. r \in approval_execute_propose(t, from, funds) /\ t.flow = "approval"
        BY <1>2, <1>4, <2>2
      <3> QED BY <1>3, <1>5, <3>1, ApprovalResolves
    <2> QED BY <1>4, <2>1, <2>2
  <1> QED BY <1>3, <1>6, ThenResolves

\* A submission is approved: its proposal is not there yet.
LEMMA ApproveResolves ==
    ASSUME NEW s, Settled(s), OwnerIn(s), NEW from, NEW m, \A x \in Ids : ~Settles(s, from, m, x),
           NEW id \in Ids, NEW r \in execute_approve(s, from, id)
    PROVE  Resolves(s, from, m, r.store, r.msgs)
  <1> DEFINE sub == s.pending[id]
             pid == NextId(s)
             u == Approved(s, id, pid, sub)
             t == r.store
  <1>1. sub # NoSubmission /\ pid \in Ids /\ t = u
    BY DEF execute_approve, Ok, next_proposal_id, NextId, Approved
  <1>2. s \in Store
    BY DEF Settled, StoreInv
  <1>3. s.flow = "approval" /\ sub \in Submission
    BY <1>1, <1>2 DEF Settled, StoreInv, SubmissionsIn, SingleIn, Store
  <1>4. pid \notin DOMAIN s.pm[Pm].proposals
    <2>1. s.pm[Pm].proposals \in Seq(Proposal)
      BY <1>2 DEF Store, Pms
    <2> QED BY <2>1 DEF NextId
  <1> HIDE DEF sub, pid, t
  <1>5. IsApproved(s, id, pid, sub, t)
    BY <1>1, <1>2, <1>3, ApprovedFields
  <1>6. OutcomeIn(t, id) = "open"
    BY <1>3, <1>4, <1>5 DEF IsApproved, OutcomeIn
  <1>7. \A x \in Ids : x # id => OutcomeIn(t, x) = OutcomeIn(s, x)
    BY <1>5 DEF IsApproved, OutcomeIn
  <1>8. \A x \in Ids : Due(t, x) => Due(s, x)
    BY <1>5, <1>6, <1>7 DEF IsApproved, Due
  <1>9. OwnerIn(t)
    BY <1>3, <1>5 DEF IsApproved, OwnerIn
  <1>10. /\ t.pm = s.pm
         /\ \A p \in Ids : p \in DOMAIN s.pm[Pm].proposals => t.deposits[p] = s.deposits[p]
    BY <1>4, <1>5 DEF IsApproved
  <1> QED BY <1>8, <1>9, <1>10 DEF Resolves, t

\* A submission is rejected: its deposit is paid out by a message.
LEMMA RejectResolves ==
    ASSUME NEW s, Settled(s), OwnerIn(s), NEW from, NEW m, m.to = Pre,
           \A x \in Ids : ~Settles(s, from, m, x),
           NEW id \in Ids, NEW r \in execute_reject(s, from, id)
    PROVE  Resolves(s, from, m, r.store, r.msgs)
  <1> DEFINE sub == s.pending[id]
             g == /\ from = s.approver
                  /\ sub # NoSubmission
             u == Rejected(s, id, sub)
             to == RejectTo(sub)
             ms == IF sub.deposit = NoDeposit THEN <<>>
                   ELSE <<TransferMsg(sub.deposit.denom, to, sub.deposit.amount, id)>>
             t == r.store
  <1>1. execute_reject(s, from, id) = Ok(g, u, ms)
    BY DEF execute_reject, Rejected, RejectTo, get_return_deposit_message, TransferMsg
  <1>2. g \in BOOLEAN
    OBVIOUS
  <1> HIDE DEF g, u, ms
  <1>3. g /\ t = u /\ r.msgs = ms
    BY <1>1, <1>2, OkFields
  <1>4. sub # NoSubmission /\ s \in Store
    BY <1>3 DEF g, Settled, StoreInv
  <1>5. s.flow = "approval" /\ sub \in Submission
    BY <1>4 DEF Settled, StoreInv, SubmissionsIn, SingleIn, Store
  <1>6. sub.created = 0 /\ s.terms[id].info = sub.deposit
    <2>1. PendingIn(s, id)
      BY <1>5 DEF Settled, StoreInv, SubmissionsIn, ApprovalIn
    <2> QED BY <1>4, <2>1 DEF PendingIn
  <1>a. u = Rejected(s, id, sub)
    BY DEF u
  <1> HIDE DEF sub, t
  <1>7. IsRejected(s, id, t)
    BY <1>3, <1>4, <1>5, <1>6, <1>a, RejectedFields
  <1>8. \A x \in Ids : x # id => OutcomeIn(t, x) = OutcomeIn(s, x)
    BY <1>7 DEF IsRejected, OutcomeIn
  <1>9. \A x \in Ids : x # id /\ Due(t, x) => Due(s, x)
    BY <1>7, <1>8 DEF IsRejected, Due
  <1>10. Due(t, id) => \E i \in DOMAIN r.msgs : Settles(t, m.to, r.msgs[i], id)
    <2> SUFFICES ASSUME Due(t, id)
                 PROVE  \E i \in DOMAIN r.msgs : Settles(t, m.to, r.msgs[i], id)
      OBVIOUS
    <2> DEFINE d == sub.deposit.denom
               b == [kind |-> "transfer", to |-> to, amount |-> sub.deposit.amount, ref |-> id]
               x == Msg(d, b)
    <2>1. sub.deposit # NoDeposit
      BY <1>6, <1>7 DEF Due, IsRejected
    <2>2. d \in Denom
      BY <1>5, <2>1 DEF Submission, CheckedDepositInfo
    <2>3. r.msgs = <<x>>
      BY <1>3, <2>1 DEF ms, TransferMsg
    <2>4. b.kind = "transfer" /\ b.ref = id
      OBVIOUS
    <2> HIDE DEF b, d
    <2>5. x.to = d /\ x.body = b
      BY DEF Msg
    <2> HIDE DEF x
    <2>6. Settles(t, m.to, x, id)
      BY <2>2, <2>4, <2>5 DEF Settles
    <2> QED BY <2>3, <2>6
  <1>11. OwnerIn(t)
    BY <1>5, <1>7 DEF IsRejected, OwnerIn
  <1>12. t.pm = s.pm /\ t.deposits = s.deposits
    BY <1>7 DEF IsRejected
  <1> QED BY <1>9, <1>10, <1>11, <1>12 DEF Resolves, t

\* The hook of a proposal: the payment takes its place.
LEMMA HookResolves ==
    ASSUME NEW s, Settled(s), OwnerIn(s), NEW from, NEW m, m.to = Pre, m.body.kind = "completed",
           m.body.id \in Ids,
           NEW r \in execute_proposal_completed_hook(s, from, m.body.id, m.body.status)
    PROVE  Resolves(s, from, m, r.store, r.msgs)
  <1> DEFINE id == m.body.id
             status == m.body.status
             entry == s.deposits[id]
             to == IF should_refund_to_proposer(status, entry.info.refund_policy)
                   THEN entry.proposer ELSE Dao
             g == from = Pm /\ status \in {"closed", "executed", "vetoed"}
             ms == IF entry.info = NoDeposit THEN <<>>
                   ELSE <<TransferMsg(entry.info.denom, to, entry.info.amount, entry.ref)>>
  <1>1. execute_proposal_completed_hook(s, from, id, status) = Ok(g, s, ms)
    BY DEF execute_proposal_completed_hook, get_return_deposit_message, TransferMsg
  <1>2. g \in BOOLEAN /\ r \in execute_proposal_completed_hook(s, from, id, status)
    OBVIOUS
  <1> HIDE DEF g, ms
  <1>3. g /\ r.store = s /\ r.msgs = ms
    BY <1>1, <1>2, OkFields
  <1>4. Pre \notin Denom
    BY Addresses
  <1>5. ASSUME NEW x \in Ids, Due(s, x), Settles(s, from, m, x)
        PROVE  \E i \in DOMAIN r.msgs : Settles(s, m.to, r.msgs[i], x)
    <2>1. entry # NoEntry /\ entry.ref = x
      BY <1>4, <1>5 DEF Settles
    <2>2. s.terms[x] = TermsOf(entry) /\ entry \in Entry
      BY <2>1, EntryRef DEF Settled
    <2>3. entry.info # NoDeposit
      BY <1>5, <2>2 DEF Due, TermsOf
    <2> DEFINE d == entry.info.denom
               b == [kind |-> "transfer", to |-> to, amount |-> entry.info.amount, ref |-> entry.ref]
               y == Msg(d, b)
    <2>4. d \in Denom
      BY <2>2, <2>3 DEF Entry, CheckedDepositInfo
    <2>5. r.msgs = <<y>>
      BY <1>3, <2>3 DEF ms, TransferMsg
    <2>6. b.kind = "transfer" /\ b.ref = x
      BY <2>1
    <2> HIDE DEF b, d
    <2>7. y.to = d /\ y.body = b
      BY DEF Msg
    <2> HIDE DEF y
    <2>8. Settles(s, m.to, y, x)
      BY <2>4, <2>6, <2>7 DEF Settles
    <2> QED BY <2>5, <2>8
  <1> QED BY <1>3, <1>5 DEF Resolves

----------------------------------------------------------------------------
(* Proposals are made and completed *)

\* Only the proposals of one module change.
OnlyProposals(s, p, q, t) ==
    /\ t.pm[p].proposals = q /\ t.pm[Pm].policy = s.pm[Pm].policy
    /\ p # Pm => t.pm[Pm].proposals = s.pm[Pm].proposals
    /\ t.flow = s.flow /\ t.deposits = s.deposits /\ t.current_id = s.current_id
    /\ t.pending = s.pending /\ t.completed = s.completed
    /\ t.created_to_completed = s.created_to_completed
    /\ t.terms = s.terms /\ t.paid = s.paid

LEMMA ProposalsOnly ==
    ASSUME NEW s \in Store, NEW p \in Pms, NEW q \in Seq(Proposal), NEW t,
           t = WithProposals(s, p, q)
    PROVE  OnlyProposals(s, p, q, t)
  <1>1. /\ t \in Store /\ t.pm[p].proposals = q /\ t.pm[p].policy = s.pm[p].policy
        /\ \A o \in Pms : o # p => t.pm[o] = s.pm[o]
        /\ t.flow = s.flow /\ t.deposits = s.deposits /\ t.current_id = s.current_id
        /\ t.pending = s.pending /\ t.completed = s.completed
        /\ t.created_to_completed = s.created_to_completed
        /\ t.terms = s.terms /\ t.paid = s.paid /\ t.config = s.config
        /\ t.bank = s.bank /\ t.withdrawn = s.withdrawn
    BY ProposalsReplaced
  <1>2. Pm \in Pms
    BY DEF Pms
  <1> QED BY <1>1, <1>2 DEF OnlyProposals

LEMMA OtherIdles ==
    ASSUME NEW s, NEW q, NEW t, OnlyProposals(s, ApproverPm, q, t)
    PROVE  Idles(s, t)
  <1>1. ApproverPm # Pm
    BY Addresses
  <1> QED BY <1>1 DEF OnlyProposals, Idles, Same

\* A new proposal is open.
LEMMA MadeResolves ==
    ASSUME NEW s, StoreInv(s), OwnerIn(s), NEW from \in Addr, NEW m, m.to \in Pms,
           NEW proposer \in Addr, NEW r \in pm_propose(s, m.to, from, proposer)
    PROVE  Resolves(s, from, m, r.store, r.msgs)
  <1> DEFINE p == m.to
             x == [creator |-> from, proposer |-> proposer, status |-> "open"]
             old == s.pm[p].proposals
             q == Append(old, x)
             t == r.store
  <1>1. t = WithProposals(s, p, q)
    BY DEF pm_propose, Ok, WithProposals
  <1>2. x \in Proposal /\ x.status = "open"
    BY DEF Proposal, ProposalStatus
  <1>3. s \in Store /\ old \in Seq(Proposal)
    BY DEF StoreInv, Store
  <1>a. old = s.pm[p].proposals /\ p \in Pms
    OBVIOUS
  <1> HIDE DEF x, old
  <1>4. /\ q \in Seq(Proposal) /\ DOMAIN q = 1 .. Len(old) + 1 /\ DOMAIN old = 1 .. Len(old)
        /\ q[Len(old) + 1] = x /\ \A i \in 1 .. Len(old) : q[i] = old[i]
        /\ Len(old) \in Nat
    BY <1>2, <1>3
  <1> HIDE DEF q, t, p
  <1>5. OnlyProposals(s, p, q, t)
    BY <1>1, <1>3, <1>4, <1>a, ProposalsOnly
  <1>6. \A o \in Ids : ~Settles(s, from, m, o)
    BY <1>a, SettlesNothing DEF p
  <1>7. CASE p = ApproverPm
    <2>1. Idles(s, t)
      BY <1>5, <1>7, OtherIdles
    <2>2. Resolves(s, from, m, t, r.msgs)
      BY <1>6, <2>1, IdleResolves
    <2> QED BY <2>2 DEF t
  <1>8. CASE p = Pm
    <2>1. \A i \in DOMAIN q : (i \in DOMAIN old /\ q[i] = old[i]) \/ q[i].status = "open"
      BY <1>2, <1>4
    <2>2. ASSUME NEW o \in Ids, OutcomeIn(t, o) # "open"
          PROVE  OutcomeIn(s, o) # "open"
      <3> DEFINE i == IF s.flow = "single" THEN o ELSE s.completed[o].created
      <3>1. CASE s.flow = "approval" /\ s.completed[o].status = "rejected"
        BY <3>1 DEF OutcomeIn
      <3>2. CASE ~(s.flow = "approval" /\ s.completed[o].status = "rejected")
        <4>1. OutcomeIn(t, o) = IF i \in DOMAIN q THEN q[i].status ELSE "open"
          BY <1>5, <1>8, <3>2 DEF OnlyProposals, OutcomeIn
        <4>2. OutcomeIn(s, o) = IF i \in DOMAIN old THEN old[i].status ELSE "open"
          BY <1>8, <1>a, <3>2 DEF OutcomeIn
        <4> HIDE DEF i
        <4> QED BY <2>1, <2>2, <4>1, <4>2
      <3> QED BY <3>1, <3>2
    <2>3. \A o \in Ids : Due(t, o) => Due(s, o)
      BY <1>5, <2>2 DEF OnlyProposals, Due
    <2>4. OwnerIn(t)
      BY <1>5 DEF OnlyProposals, OwnerIn
    <2>5. t.deposits = s.deposits /\ t.pm[Pm].policy = s.pm[Pm].policy
      BY <1>5 DEF OnlyProposals
    <2> QED BY <1>6, <2>3, <2>4, <2>5 DEF Resolves, t
  <1> QED BY <1>7, <1>8, <1>a DEF Pms

\* The submission whose proposal is completed has its entry.
ProposalOf(s, r, id) ==
    /\ s.terms[r].info # NoDeposit
    /\ id = IF s.flow = "single" THEN r ELSE s.completed[r].created
    /\ ~(s.flow = "approval" /\ s.completed[r].status = "rejected")

LEMMA EntryOfDecided ==
    ASSUME NEW s, StoreInv(s), OwnerIn(s), NEW r \in Ids, NEW id \in Ids,
           ProposalOf(s, r, id)
    PROVE  s.deposits[id] # NoEntry /\ s.deposits[id].ref = r
  <1>1. SubmissionsIn(s)
    BY DEF StoreInv
  <1>2. CASE s.flow = "single"
    BY <1>1, <1>2 DEF ProposalOf, SubmissionsIn, SingleIn, OwnerIn
  <1>3. CASE s.flow = "approval"
    <2>1. id # 0 /\ r # 0 /\ id = s.completed[r].created
      BY <1>3 DEF ProposalOf, Ids
    <2>2. s.created_to_completed[id] = r
      <3>1. CompletedIn(s, r)
        BY <1>1, <1>3 DEF SubmissionsIn, ApprovalIn
      <3> QED BY <2>1, <3>1 DEF CompletedIn
    <2>3. CreatedIn(s, id)
      BY <1>1, <1>3 DEF SubmissionsIn, ApprovalIn
    <2> QED BY <2>1, <2>2, <2>3 DEF CreatedIn
  <1> QED BY <1>1, <1>2, <1>3 DEF SubmissionsIn

\* A completed proposal comes with the hook that pays its deposit out.
HasHook(msgs, id, status) == \E i \in DOMAIN msgs : msgs[i] = HookMsg(Pre, id, status)

LEMMA HookIsThere ==
    ASSUME NEW s, NEW id, NEW status, NEW has, NEW msgs,
           msgs = Execution(id, status, has) \o CompletedHook(Pre, id, status)
    PROVE  HasHook(msgs, id, status)
  <1> DEFINE e == MsgReplyOnError(Dao, [kind |-> "execute"], mask_proposal_execution_proposal_id(id))
             h == HookMsg(Pre, id, status)
             S == {e, h}
             a == Execution(id, status, has)
             b == CompletedHook(Pre, id, status)
  <1>1. Pre # Anyone
    BY Addresses
  <1>2. a \in Seq(S)
    <2>1. a = <<e>> \/ a = <<>>
      BY DEF Execution
    <2>2. e \in S
      OBVIOUS
    <2> HIDE DEF e, h, a, S
    <2>3. <<e>> \in Seq(S) /\ <<>> \in Seq(S)
      BY <2>2
    <2> QED BY <2>1, <2>3
  <1>3. b = <<h>>
    BY <1>1 DEF CompletedHook
  <1>a. msgs = a \o b
    OBVIOUS
  <1> HIDE DEF e, h, a
  <1>4. b \in Seq(S) /\ Len(b) = 1 /\ b[1] = h /\ 1 \in 1 .. Len(b)
    BY <1>3
  <1> HIDE DEF b, S
  <1>5. IsJoined(S, msgs, a, b)
    BY <1>2, <1>4, <1>a, Joined
  <1>6. Len(a) + 1 \in DOMAIN msgs /\ msgs[Len(a) + 1] = h
    BY <1>4, <1>5 DEF IsJoined
  <1>7. \E i \in DOMAIN msgs : msgs[i] = h
    BY <1>6
  <1> QED BY <1>7 DEF h, HasHook

\* Which submission is decided by a change of the proposal's status.
OnlyStatus(s, id, q) ==
    /\ DOMAIN q = DOMAIN s.pm[Pm].proposals
    /\ \A i \in DOMAIN q : i # id => q[i].status = s.pm[Pm].proposals[i].status

LEMMA StatusDecides ==
    ASSUME NEW s, StoreInv(s), NEW id, NEW q, NEW t, OnlyProposals(s, Pm, q, t), OnlyStatus(s, id, q),
           NEW r \in Ids, Due(t, r), ~Due(s, r)
    PROVE  ProposalOf(s, r, id)
  <1> DEFINE o == IF s.flow = "single" THEN r ELSE s.completed[r].created
  <1>1. /\ OutcomeIn(t, r) # "open" /\ OutcomeIn(s, r) = "open" /\ s.terms[r].info # NoDeposit
    BY DEF Due, OnlyProposals
  <1>2. ~(s.flow = "approval" /\ s.completed[r].status = "rejected")
    BY <1>1 DEF OutcomeIn
  <1>3. /\ OutcomeIn(t, r) = IF o \in DOMAIN q THEN q[o].status ELSE "open"
        /\ OutcomeIn(s, r) = IF o \in DOMAIN q THEN s.pm[Pm].proposals[o].status ELSE "open"
    BY <1>2 DEF OnlyProposals, OnlyStatus, OutcomeIn
  <1>4. id = o
    <2> HIDE DEF o
    <2> QED BY <1>1, <1>3 DEF OnlyStatus
  <1> QED BY <1>1, <1>2, <1>4 DEF ProposalOf

LEMMA CompleteResolves ==
    ASSUME NEW s, StoreInv(s), OwnerIn(s), NEW from, NEW m, m.to \in Pms,
           NEW id \in Ids, NEW status \in {"closed", "executed", "vetoed"}, NEW has,
           NEW r \in pm_complete(s, m.to, id, status, has)
    PROVE  Resolves(s, from, m, r.store, r.msgs)
  <1> DEFINE p == m.to
             old == s.pm[p].proposals
             q == [old EXCEPT ![id].status = status]
             t == r.store
             ms == r.msgs
  <1>1. Completes(s, p, id, status, has, t, ms)
    BY CompleteFields
  <1>2. /\ id \in DOMAIN old /\ t = WithProposals(s, p, q)
        /\ ms = Execution(id, status, has) \o CompletedHook(s.pm[p].policy, id, status)
    BY <1>1 DEF Completes
  <1>3. s \in Store /\ old \in Seq(Proposal)
    BY DEF StoreInv, Store
  <1>4. /\ q \in Seq(Proposal) /\ DOMAIN q = DOMAIN old
        /\ \A i \in DOMAIN q : i # id => q[i] = old[i]
    <2>1. [old[id] EXCEPT !.status = status] \in Proposal
      <3>1. old[id] \in Proposal /\ status \in ProposalStatus
        BY <1>2, <1>3 DEF ProposalStatus
      <3> HIDE DEF old
      <3> QED BY <3>1 DEF Proposal
    <2>2. q = [old EXCEPT ![id] = [old[id] EXCEPT !.status = status]]
      OBVIOUS
    <2> HIDE DEF q, old
    <2> QED BY <1>2, <1>3, <2>1, <2>2
  <1>a. old = s.pm[p].proposals /\ p \in Pms
    OBVIOUS
  <1> HIDE DEF p, q, old, t, ms
  <1>5. OnlyProposals(s, p, q, t)
    BY <1>2, <1>3, <1>4, <1>a, ProposalsOnly
  <1>6. \A o \in Ids : ~Settles(s, from, m, o)
    BY <1>a, SettlesNothing DEF p
  <1>7. CASE p = ApproverPm
    <2>1. Idles(s, t)
      BY <1>5, <1>7, OtherIdles
    <2>2. Resolves(s, from, m, t, ms)
      BY <1>6, <2>1, IdleResolves
    <2> QED BY <2>2 DEF t, ms
  <1>8. CASE p = Pm
    <2>1. ASSUME s.pm[Pm].policy = Pre, NEW o \in Ids, Due(t, o), ~Due(s, o)
          PROVE  \E i \in DOMAIN ms : Settles(t, m.to, ms[i], o)
      <3>1. ProposalOf(s, o, id)
        <4>1. OnlyProposals(s, Pm, q, t)
          BY <1>5, <1>8
        <4>2. OnlyStatus(s, id, q)
          BY <1>4, <1>8, <1>a DEF OnlyStatus
        <4> QED BY <2>1, <4>1, <4>2, StatusDecides
      <3>2. s.deposits[id] # NoEntry /\ s.deposits[id].ref = o
        BY <3>1, EntryOfDecided
      <3> DEFINE h == HookMsg(Pre, id, status)
      <3>3. h.to = Pre /\ h.body.kind = "completed" /\ h.body.id = id
        BY DEF HookMsg, MsgReplyOnError
      <3> HIDE DEF h
      <3>4. PICK i \in DOMAIN ms : ms[i] = h
        <4>1. ms = Execution(id, status, has) \o CompletedHook(Pre, id, status)
          BY <1>2, <1>8, <2>1
        <4>2. HasHook(ms, id, status)
          BY <4>1, HookIsThere
        <4> QED BY <4>2 DEF h, HasHook
      <3>5. t.deposits = s.deposits
        BY <1>5 DEF OnlyProposals
      <3>6. Settles(t, m.to, ms[i], o)
        BY <1>8, <3>2, <3>3, <3>4, <3>5 DEF Settles, IsHook, p
      <3> QED BY <3>6
    <2>2. OwnerIn(t)
      BY <1>5 DEF OnlyProposals, OwnerIn
    <2>3. t.deposits = s.deposits /\ t.pm[Pm].policy = s.pm[Pm].policy
      BY <1>5 DEF OnlyProposals
    <2>4. Resolves(s, from, m, t, ms)
      BY <1>6, <2>1, <2>2, <2>3 DEF Resolves
    <2> QED BY <2>4 DEF t, ms
  <1> QED BY <1>7, <1>8, <1>a DEF Pms

\* A proposal module handles a message.
LEMMA PmResolves ==
    ASSUME NEW s, StoreInv(s), OwnerIn(s), NEW from \in Addr, NEW m, MsgInv(from, m), m.to \in Pms,
           NEW r \in execute_pm(s, m.to, from, m.body)
    PROVE  Resolves(s, from, m, r.store, r.msgs)
  <1> DEFINE c == m.body
  <1>1. c \in Body
    BY DEF MsgInv, Message
  <1>2. CASE c.kind = "propose_internal"
    <2> DEFINE who == c.proposer
    <2>1. who \in Addr /\ r \in pm_propose(s, m.to, from, who)
      BY <1>1, <1>2, BodyFields DEF execute_pm
    <2> HIDE DEF who
    <2> QED BY <2>1, MadeResolves
  <1>3. CASE c.kind = "complete"
    <2> DEFINE id == c.id
               status == c.status
               has == c.has_msgs
    <2>1. id \in Ids /\ status \in {"closed", "executed", "vetoed"}
      BY <1>1, <1>3, BodyFields
    <2>2. r \in pm_complete(s, m.to, id, status, has)
      BY <1>3 DEF execute_pm
    <2> HIDE DEF id, status, has
    <2> QED BY <2>1, <2>2, CompleteResolves
  <1>4. CASE c.kind \notin {"propose_internal", "complete"}
    BY <1>4 DEF execute_pm
  <1> QED BY <1>2, <1>3, <1>4

----------------------------------------------------------------------------
(* Every handler *)

\* A payment makes its deposit no longer due.
LEMMA PaymentResolves ==
    ASSUME NEW s, NEW u, Settled(u), Idles(s, u), OwnerIn(s), NEW from, NEW m, NEW ref \in Ids,
           NEW to \in Addr, m.to \in Denom, m.body.ref = ref, DueIn(u, ref, to),
           NEW t, t = PaidOut(u, ref, to), NEW msgs
    PROVE  Resolves(s, from, m, t, msgs)
  <1>1. IsPaid(u, ref, to, t)
    BY PaidKeeps
  <1>2. \A x : OutcomeIn(t, x) = OutcomeIn(s, x)
    <2>1. \A x : OutcomeIn(t, x) = OutcomeIn(u, x)
      BY <1>1 DEF IsPaid, OutcomeIn
    <2> QED BY <2>1, SameOutcome DEF Idles
  <1>3. /\ t.terms = s.terms /\ t.pm[Pm].policy = s.pm[Pm].policy /\ t.flow = s.flow
        /\ t.deposits = s.deposits /\ \A x \in Ids : x # ref => t.paid[x] = s.paid[x]
        /\ t.paid[ref] # <<>>
    BY <1>1 DEF IsPaid, Idles, Same
  <1>4. OwnerIn(t)
    BY <1>3 DEF OwnerIn
  <1>5. ASSUME NEW x \in Ids, Due(t, x)
        PROVE  Due(s, x) /\ ~Settles(s, from, m, x)
    <2>1. x # ref
      BY <1>3, <1>5 DEF Due
    <2>2. Due(s, x)
      BY <1>2, <1>3, <1>5, <2>1 DEF Due
    <2>3. m.to # Pre
      BY Addresses
    <2> QED BY <2>1, <2>2, <2>3 DEF Settles
  <1> QED BY <1>3, <1>4, <1>5 DEF Resolves

LEMMA TokenResolves ==
    ASSUME NEW s, Settled(s), OwnerIn(s), NEW from, NEW m, MsgInv(from, m), m.to \in Denom,
           Pays(from, m) => DueIn(s, m.body.ref, m.body.to),
           NEW r \in execute_token(s, m.to, from, m.body)
    PROVE  Resolves(s, from, m, r.store, r.msgs)
  <1> DEFINE c == m.body
             d == m.to
  <1>1. /\ m \in Message /\ c \in Body
        /\ c.kind \in {"transfer", "transfer_from"} => from = Pre
    BY DEF MsgInv, Message
  <1>2. CASE c.kind = "transfer"
    <2> DEFINE u == Moved(s, d, from, c.to, c.amount)
               g == s.bank[d][from] >= c.amount
               w == [u EXCEPT !.withdrawn = @ \cup {d}]
               t == IF c.ref = 0 THEN w ELSE PaidOut(u, c.ref, c.to)
    <2>1. r \in transfer(s, d, from, c.to, c.amount, c.ref)
      BY <1>2 DEF execute_token
    <2>2. transfer(s, d, from, c.to, c.amount, c.ref) = Ok(g, t, <<>>) /\ g \in BOOLEAN
      BY DEF transfer, PaidOut
    <2>3. c.to \in Addr /\ c.amount \in Nat /\ c.ref \in 0 .. MaxProposals
      BY <1>1, <1>2, BodyFields
    <2> HIDE DEF g, t
    <2>4. g /\ r.store = t
      BY <2>1, <2>2, OkFields
    <2>5. Quiet(s, u)
      BY <2>3, <2>4, MovedQuiet DEF g
    <2>6. Settled(u) /\ Idles(s, u) /\ u \in Store
      BY <2>5, QuietKeeps, MovedIdles DEF Quiet
    <2>7. CASE c.ref = 0
      <3>1. t = [u EXCEPT !.withdrawn = @ \cup {d}]
        BY <2>7 DEF t
      <3> HIDE DEF u
      <3>2. Idles(u, t)
        BY <2>6, <3>1 DEF Idles, Same, Store
      <3>3. Idles(s, t)
        BY <2>6, <3>2 DEF Idles, Same
      <3>4. \A x \in Ids : ~Settles(s, from, m, x)
        BY <2>7, SettlesNothing
      <3> HIDE DEF t
      <3> QED BY <2>4, <3>3, <3>4, IdleResolves
    <2>8. CASE c.ref # 0
      <3> DEFINE ref == c.ref
                 to == c.to
      <3>1. t = PaidOut(u, ref, to)
        BY <2>8 DEF t
      <3>2. Pays(from, m)
        BY <1>1, <1>2, <2>8 DEF Pays
      <3>3. ref \in Ids /\ DueIn(s, ref, to) /\ to \in Addr /\ m.body.ref = ref
        BY <2>3, <3>2 DEF DueIn
      <3> HIDE DEF ref, to, u
      <3>4. DueIn(u, ref, to)
        BY <2>6, <3>3, SameOutcome DEF DueIn, Idles, Same
      <3>5. Resolves(s, from, m, t, r.msgs)
        BY <2>6, <3>1, <3>3, <3>4, PaymentResolves
      <3> QED BY <2>4, <3>5
    <2> QED BY <2>7, <2>8
  <1>3. CASE c.kind = "transfer_from"
    <2> DEFINE t == Moved(s, d, c.owner, c.to, c.amount)
    <2>1. r \in transfer_from(s, d, c.owner, c.to, c.amount)
      BY <1>3 DEF execute_token
    <2>2. r.store = t
      BY <2>1 DEF transfer_from, Ok
    <2>3. Idles(s, t)
      BY MovedIdles
    <2>4. \A x \in Ids : ~Settles(s, from, m, x)
      BY <1>3, SettlesNothing
    <2> HIDE DEF t
    <2> QED BY <2>2, <2>3, <2>4, IdleResolves
  <1>4. CASE c.kind \notin {"transfer", "transfer_from"}
    BY <1>4 DEF execute_token
  <1> QED BY <1>2, <1>3, <1>4

\* Pre handles a message.
LEMMA PreResolves ==
    ASSUME NEW s, Settled(s), OwnerIn(s), NEW from \in Addr, NEW m, MsgInv(from, m), m.to = Pre,
           NEW r \in execute_pre(s, from, m.body)
    PROVE  Resolves(s, from, m, r.store, r.msgs)
  <1> DEFINE c == m.body
  <1>1. m \in Message /\ c \in Body
    BY DEF MsgInv, Message
  <1>2. c.kind # "completed" => \A x \in Ids : ~Settles(s, from, m, x)
    BY SettlesNothing
  <1>a. ASSUME Idles(s, r.store), c.kind # "completed"
        PROVE  Resolves(s, from, m, r.store, r.msgs)
    BY <1>2, <1>a, IdleResolves
  <1>3. CASE c.kind = "propose"
    <2> DEFINE funds == c.funds
    <2>1. from \in Users /\ funds \in [denom : Denom, amount : Nat]
      BY <1>1, <1>3, BodyFields DEF MsgInv
    <2>2. r \in pre_propose(s, from, funds)
      BY <1>3 DEF execute_pre
    <2> HIDE DEF funds
    <2> QED BY <1>2, <1>3, <2>1, <2>2, ProposeResolves
  <1>4. CASE c.kind = "update_config"
    <2> DEFINE info == c.deposit_info
               policy == c.policy
    <2>1. r \in execute_update_config(s, from, info, policy)
      BY <1>4 DEF execute_pre
    <2> HIDE DEF info, policy
    <2> QED BY <1>4, <1>a, <2>1, ConfigIdles
  <1>5. CASE c.kind = "update_submission_policy"
    <2> DEFINE u == c.update
    <2>1. r \in execute_update_submission_policy(s, from, u)
      BY <1>5 DEF execute_pre
    <2> HIDE DEF u
    <2> QED BY <1>5, <1>a, <2>1, PolicyIdles
  <1>6. CASE c.kind = "withdraw"
    <2> DEFINE d == c.denom
    <2>1. r \in execute_withdraw(s, from, d)
      BY <1>6 DEF execute_pre
    <2> HIDE DEF d
    <2> QED BY <1>6, <1>a, <2>1, WithdrawIdles
  <1>7. CASE c.kind \in {"add_hook", "remove_hook"}
    <2> DEFINE a == c.addr
               allowed == may_change_hooks(s, from)
    <2>1. \/ r \in execute_add_proposal_submitted_hook(s, allowed, a)
          \/ r \in execute_remove_proposal_submitted_hook(s, allowed, a)
      BY <1>7 DEF execute_pre
    <2> HIDE DEF a, allowed
    <2> QED BY <1>7, <1>a, <2>1, HooksIdle
  <1>8. CASE c.kind = "completed"
    <2>1. c.id \in Ids /\ r \in execute_proposal_completed_hook(s, from, c.id, c.status)
      BY <1>1, <1>8, BodyFields DEF execute_pre
    <2> QED BY <1>8, <2>1, HookResolves
  <1>9. CASE c.kind = "approve"
    <2> DEFINE id == c.id
    <2>1. id \in Ids /\ r \in execute_approve(s, from, id)
      BY <1>1, <1>9, BodyFields DEF execute_pre
    <2> HIDE DEF id
    <2> QED BY <1>2, <1>9, <2>1, ApproveResolves
  <1>10. CASE c.kind = "reject"
    <2> DEFINE id == c.id
    <2>1. id \in Ids /\ r \in execute_reject(s, from, id)
      BY <1>1, <1>10, BodyFields DEF execute_pre
    <2> HIDE DEF id
    <2> QED BY <1>2, <1>10, <2>1, RejectResolves
  <1>11. CASE c.kind = "update_approver"
    <2> DEFINE a == c.addr
    <2>1. r \in execute_update_approver(s, from, a)
      BY <1>11 DEF execute_pre
    <2> HIDE DEF a
    <2> QED BY <1>11, <1>a, <2>1, ApproverIdles
  <1>12. CASE c.kind \notin {"propose", "update_config", "update_submission_policy", "withdraw",
                             "add_hook", "remove_hook", "completed", "approve", "reject",
                             "update_approver"}
    BY <1>12 DEF execute_pre
  <1> QED BY <1>3, <1>4, <1>5, <1>6, <1>7, <1>8, <1>9, <1>10, <1>11, <1>12

\* A contract handles a message that is delivered.
LEMMA HandlerResolves ==
    ASSUME NEW s, NEW a, NEW from, NEW m, Sending(s, a, from, m), OwnerIn(s), m.to \in Contracts,
           NEW r \in execute(s, m.to, from, m.body)
    PROVE  Resolves(s, from, m, r.store, r.msgs)
  <1>1. /\ Pre # Approver /\ Pre \notin Pms /\ Approver \notin Pms
        /\ {Pre, Approver} \cap Denom = {} /\ Pms \cap Denom = {} /\ Pm \in Pms
    BY Addresses DEF Pms
  <1>2. StoreInv(s) /\ from \in Addr /\ MsgInv(from, m)
    BY DEF Sending
  <1>3. m.to \notin Pms => Settled(s)
    BY <1>1, <1>2 DEF Sending, Announces, MsgInv
  <1>4. CASE m.to = Pre
    <2>1. r \in execute_pre(s, from, m.body)
      BY <1>1, <1>4 DEF execute
    <2> QED BY <1>1, <1>2, <1>3, <1>4, <2>1, PreResolves
  <1>5. CASE m.to = Approver
    <2>1. r \in execute_approver(s, from, m.body)
      BY <1>1, <1>5 DEF execute
    <2> DEFINE c == m.body
    <2>2. r \in execute_approver(s, from, c)
      BY <2>1
    <2> HIDE DEF c
    <2>3. Idles(s, r.store)
      BY <1>1, <1>3, <1>5, <2>2, ApproverModuleIdles
    <2>4. \A x \in Ids : ~Settles(s, from, m, x)
      BY <1>5, SettlesNothing
    <2> QED BY <2>3, <2>4, IdleResolves
  <1>6. CASE m.to \in Pms
    <2>1. r \in execute_pm(s, m.to, from, m.body)
      BY <1>1, <1>6 DEF execute
    <2> QED BY <1>2, <1>6, <2>1, PmResolves
  <1>7. CASE m.to \in Denom
    <2>1. r \in execute_token(s, m.to, from, m.body)
      BY <1>1, <1>7 DEF execute
    <2>2. Pays(from, m) => DueIn(s, m.body.ref, m.body.to)
      BY DEF Sending
    <2>3. Settled(s)
      BY <1>1, <1>3, <1>7
    <2> QED BY <1>2, <1>7, <2>1, <2>2, <2>3, TokenResolves
  <1> QED BY <1>4, <1>5, <1>6, <1>7 DEF Contracts

----------------------------------------------------------------------------
(* What is under way *)

\* Below call n, the calls of a are calls of b with the same messages to send.
Alike(a, b, n) ==
    \A k \in DOMAIN a : k < n =>
        k \in DOMAIN b /\ b[k].to = a[k].to /\ b[k].pending = a[k].pending

LEMMA AlikeCarried ==
    ASSUME NEW a, NEW b, NEW n, Alike(a, b, n), NEW s
    PROVE  /\ \A r : Underway(a, n, s, r) => Underway(b, n, s, r)
           /\ Carried(a, n, s) => Carried(b, n, s)
  <1>1. ASSUME NEW r, Underway(a, n, s, r)
        PROVE  Underway(b, n, s, r)
    <2>1. PICK k \in DOMAIN a : k < n /\ \E i \in DOMAIN a[k].pending :
                                    Settles(s, a[k].to, a[k].pending[i], r)
      BY <1>1 DEF Underway
    <2>2. k \in DOMAIN b /\ b[k].to = a[k].to /\ b[k].pending = a[k].pending
      BY <2>1 DEF Alike
    <2> QED BY <2>1, <2>2 DEF Underway
  <1> QED BY <1>1 DEF Carried

\* Call k of b goes back to where call k of a does.
Inherits(a, b, k) ==
    /\ k \in DOMAIN a /\ b[k].saved = a[k].saved
    /\ b[k].reply_on = a[k].reply_on /\ b[k].reply_id = a[k].reply_id
    /\ k # 1 => b[k - 1].to = a[k - 1].to
    /\ Alike(a, b, k)

LEMMA Inherited ==
    ASSUME NEW a, SavedCarried(a), NEW b, NEW k, Inherits(a, b, k)
    PROVE  SavedAt(b, k)
  <1>1. SavedAt(a, k) /\ b[k].saved = a[k].saved
    BY DEF SavedCarried, Inherits
  <1>2. KeepsPlace(b, k) => KeepsPlace(a, k)
    BY DEF Inherits, KeepsPlace
  <1>3. Carried(a, k, b[k].saved) => Carried(b, k, b[k].saved)
    BY AlikeCarried DEF Inherits
  <1> QED BY <1>1, <1>2, <1>3 DEF SavedAt

\* A hook under way keeps the entry of its proposal.
LEMMA StaysUnderway ==
    ASSUME NEW st, NEW n, NEW s, ExpectedBelow(st, n, s), NEW t,
           \A id \in Ids : id \in DOMAIN s.pm[Pm].proposals => t.deposits[id] = s.deposits[id],
           NEW r, Underway(st, n, s, r)
    PROVE  Underway(st, n, t, r)
  <1>1. PICK k \in DOMAIN st : k < n /\ \E i \in DOMAIN st[k].pending :
                                   Settles(s, st[k].to, st[k].pending[i], r)
    BY DEF Underway
  <1>2. PICK i \in DOMAIN st[k].pending : Settles(s, st[k].to, st[k].pending[i], r)
    BY <1>1
  <1> DEFINE x == st[k].pending[i]
  <1>3. Expected(s, st[k].to, x)
    BY <1>1 DEF ExpectedBelow
  <1> HIDE DEF x
  <1>4. IsHook(st[k].to, x) => x.body.id \in Ids /\ x.body.id \in DOMAIN s.pm[Pm].proposals
    BY <1>3 DEF Expected, Owed
  <1>5. Settles(t, st[k].to, x, r)
    BY <1>2, <1>4 DEF Settles, x
  <1> QED BY <1>1, <1>5 DEF Underway, x

\* The topmost call of st has sent its first message.
IsAdvanced(st, a) ==
    /\ DOMAIN a = DOMAIN st /\ Len(a) = Len(st)
    /\ \A k \in DOMAIN st :
           /\ a[k].to = st[k].to /\ a[k].saved = st[k].saved
           /\ a[k].reply_on = st[k].reply_on /\ a[k].reply_id = st[k].reply_id
           /\ k # Len(st) => a[k].pending = st[k].pending
           /\ \A i \in DOMAIN st[k].pending : i # 1 =>
                  \E j \in DOMAIN a[k].pending : a[k].pending[j] = st[k].pending[i]

LEMMA AdvancedFields ==
    ASSUME NEW st \in Seq(Call1), st # <<>>, Last(st).pending # <<>>, NEW a, a = Advance(st)
    PROVE  IsAdvanced(st, a)
  <1> DEFINE n == Len(st)
             q == st[n].pending
             f == [st[n] EXCEPT !.pending = Tail(q)]
  <1>1. /\ n \in Nat /\ n # 0 /\ DOMAIN st = 1 .. n /\ n \in DOMAIN st
        /\ Last(st) = st[n] /\ st[n] \in Call1 /\ q \in Seq(Message) /\ q # <<>>
    BY StackFields
  <1>2. a = [st EXCEPT ![n] = f]
    BY DEF Advance
  <1>b. q = st[n].pending
    OBVIOUS
  <1> HIDE DEF q
  <1>3. \A i \in DOMAIN q : i # 1 => i - 1 \in DOMAIN Tail(q) /\ Tail(q)[i - 1] = q[i]
    BY <1>1
  <1>4. /\ f.to = st[n].to /\ f.saved = st[n].saved /\ f.reply_on = st[n].reply_on
        /\ f.reply_id = st[n].reply_id /\ f.pending = Tail(q) /\ f \in Call1
    <2>1. Tail(q) \in Seq(Message)
      BY <1>1
    <2> QED BY <1>1, <2>1 DEF Call1
  <1> HIDE DEF f
  <1>5. DOMAIN a = DOMAIN st /\ Len(a) = n /\ \A k \in DOMAIN st : a[k] = IF k = n THEN f ELSE st[k]
    <2> HIDE DEF n
    <2>1. DOMAIN a = DOMAIN st /\ \A k \in DOMAIN st : a[k] = IF k = n THEN f ELSE st[k]
      BY <1>1, <1>2
    <2>2. a \in Seq(Call1)
      BY <1>1, <1>2, <1>4
    <2>3. Len(a) = n
      BY <1>1, <2>1, <2>2
    <2> QED BY <2>1, <2>3
  <1> HIDE DEF n
  <1>a. n = Len(st)
    BY DEF n
  <1>6. ASSUME NEW k \in DOMAIN st
        PROVE  /\ a[k].to = st[k].to /\ a[k].saved = st[k].saved
               /\ a[k].reply_on = st[k].reply_on /\ a[k].reply_id = st[k].reply_id
               /\ k # Len(st) => a[k].pending = st[k].pending
               /\ \A i \in DOMAIN st[k].pending : i # 1 =>
                      \E j \in DOMAIN a[k].pending : a[k].pending[j] = st[k].pending[i]
    <2>1. CASE k = n
      <3>1. a[k] = f /\ q = st[k].pending
        BY <1>5, <1>b, <2>1
      <3>2. \A i \in DOMAIN q : i # 1 => \E j \in DOMAIN Tail(q) : Tail(q)[j] = q[i]
        BY <1>3
      <3> DEFINE u == Tail(q)
      <3>3. a[k].pending = u /\ \A i \in DOMAIN q : i # 1 => \E j \in DOMAIN u : u[j] = q[i]
        BY <1>4, <3>1, <3>2
      <3> HIDE DEF u
      <3>4. \A i \in DOMAIN st[k].pending : i # 1 =>
                \E j \in DOMAIN a[k].pending : a[k].pending[j] = st[k].pending[i]
        BY <3>1, <3>3
      <3>5. k = Len(st)
        BY <1>a, <2>1
      <3> QED BY <1>4, <2>1, <3>1, <3>4, <3>5
    <2>2. CASE k # n
      BY <1>5, <1>a, <2>2
    <2> QED BY <2>1, <2>2
  <1> QED BY <1>5, <1>6, <1>a DEF IsAdvanced

\* Contract from sends m in storage s, and the calls of a go on afterwards.
SentCarried(s, a, from, m) ==
    /\ OwnerIn(s) /\ SavedCarried(a)
    /\ s.pm[Pm].policy = Pre =>
           \A r \in Ids : Due(s, r) => Underway(a, Len(a) + 1, s, r) \/ Settles(s, from, m, r)

LEMMA SendingCarried ==
    ASSUME NEW st, NEW s, StackInv(st), CarriedInv(st, s), st # <<>>, Last(st).pending # <<>>
    PROVE  SentCarried(s, Advance(st), Last(st).to, Head(Last(st).pending))
  <1> DEFINE n == Len(st)
             a == Advance(st)
             m == Head(Last(st).pending)
  <1>1. /\ st \in Seq(Call1) /\ n \in Nat /\ DOMAIN st = 1 .. n /\ n \in DOMAIN st
        /\ Last(st) = st[n] /\ st[n].pending \in Seq(Message)
    BY StackFields DEF StackInv
  <1>2. m = st[n].pending[1]
    BY <1>1, HeadMsg
  <1>3. IsAdvanced(st, a)
    BY <1>1, AdvancedFields
  <1>4. OwnerIn(s) /\ SavedCarried(st) /\ Carried(st, n + 1, s)
    BY DEF CarriedInv
  <1> HIDE DEF a, m
  <1>5. ASSUME NEW k \in DOMAIN a
        PROVE  SavedAt(a, k)
    <2>1. k \in DOMAIN st /\ (k # 1 => k - 1 \in DOMAIN st)
      BY <1>1, <1>3 DEF IsAdvanced
    <2>2. \A l \in DOMAIN st : l < k => l # Len(st)
      BY <1>1, <2>1
    <2>3. Alike(st, a, k)
      BY <1>3, <2>2 DEF Alike, IsAdvanced
    <2>4. Inherits(st, a, k)
      BY <1>3, <2>1, <2>3 DEF Inherits, IsAdvanced
    <2> QED BY <1>4, <2>4, Inherited
  <1>6. ASSUME NEW r, Underway(st, n + 1, s, r), ~Settles(s, Last(st).to, m, r)
        PROVE  Underway(a, Len(a) + 1, s, r)
    <2>1. PICK k \in DOMAIN st : k < n + 1 /\ \E i \in DOMAIN st[k].pending :
                                     Settles(s, st[k].to, st[k].pending[i], r)
      BY <1>6 DEF Underway
    <2>2. PICK i \in DOMAIN st[k].pending : Settles(s, st[k].to, st[k].pending[i], r)
      BY <2>1
    <2> DEFINE x == st[k].pending[i]
    <2>3. \E j \in DOMAIN a[k].pending : a[k].pending[j] = x
      <3>1. CASE k = n
        <4>1. i # 1
          BY <1>1, <1>2, <1>6, <2>2, <3>1
        <4> QED BY <1>3, <4>1 DEF IsAdvanced
      <3>2. CASE k # n
        <4>1. a[k].pending = st[k].pending
          BY <1>3, <3>2 DEF IsAdvanced
        <4> QED BY <4>1
      <3> QED BY <3>1, <3>2
    <2>4. k \in DOMAIN a /\ a[k].to = st[k].to /\ k < Len(a) + 1
      BY <1>3, <2>1 DEF IsAdvanced
    <2>5. Settles(s, a[k].to, x, r)
      BY <2>2, <2>4
    <2> HIDE DEF x
    <2> QED BY <2>3, <2>4, <2>5 DEF Underway
  <1>7. SentCarried(s, a, Last(st).to, m)
    BY <1>4, <1>5, <1>6 DEF SentCarried, SavedCarried, Carried
  <1> QED BY <1>7 DEF a, m

\* The storage before a message whose error the proposal module would hear of, unless
\* that is the hook's: the message does not pay out.
LEMMA RepliedSettlesNothing ==
    ASSUME NEW from, NEW m, MsgInv(from, m), m.reply_on = "error",
           ~(from = Pm /\ reply_type(m.reply_id) = FAILED_PRE_PROPOSE_MODULE_HOOK_ID),
           NEW s, NEW r
    PROVE  ~Settles(s, from, m, r)
  <1>1. from # Pre /\ ~IsHook(from, m)
    BY Addresses DEF MsgInv, Pms, IsHook
  <1> QED BY <1>1 DEF Settles

\* A call is put on top.
IsTopped(a, f, b) ==
    /\ Len(b) = Len(a) + 1 /\ DOMAIN b = 1 .. Len(a) + 1 /\ DOMAIN a = 1 .. Len(a)
    /\ Len(a) \in Nat /\ b[Len(a) + 1] = f /\ \A k \in DOMAIN a : b[k] = a[k]

LEMMA Topped ==
    ASSUME NEW a \in Seq(Call1), NEW f, NEW b, b = Append(a, f)
    PROVE  IsTopped(a, f, b)
  <1> DEFINE S == Call1 \cup {f}
  <1>1. a \in Seq(S) /\ f \in S
    OBVIOUS
  <1> HIDE DEF S
  <1> QED BY <1>1 DEF IsTopped

LEMMA ToppedSaved ==
    ASSUME NEW s, NEW a \in Seq(Call1), NEW from, NEW m, SentCarried(s, a, from, m),
           MsgInv(from, m), a # <<>>, Last(a).to = from, NEW f, NEW b, IsTopped(a, f, b),
           f.saved = s, f.reply_on = m.reply_on, f.reply_id = m.reply_id
    PROVE  SavedCarried(b)
  <1> DEFINE n == Len(a)
  <1>1. /\ Len(b) = n + 1 /\ DOMAIN b = 1 .. n + 1 /\ DOMAIN a = 1 .. n /\ n \in Nat
        /\ b[n + 1] = f /\ \A k \in DOMAIN a : b[k] = a[k]
    BY DEF IsTopped
  <1> HIDE DEF n
  <1>a. n = Len(a)
    BY DEF n
  <1>2. ASSUME NEW k \in DOMAIN b
        PROVE  SavedAt(b, k)
    <2>1. \A l \in DOMAIN a : l \in DOMAIN b /\ b[l] = a[l]
      BY <1>1
    <2>2. CASE k \in DOMAIN a
      <3>1. k # 1 => k - 1 \in DOMAIN a
        BY <1>1, <2>2
      <3>2. Inherits(a, b, k)
        BY <2>1, <2>2, <3>1 DEF Inherits, Alike
      <3> QED BY <3>2, Inherited DEF SentCarried
    <2>3. CASE k = n + 1
      <3>1. b[k].saved = s /\ b[k].reply_on = m.reply_on /\ b[k].reply_id = m.reply_id
        BY <1>1, <2>3
      <3>2. b[k - 1].to = from /\ k # 1
        <4>1. Last(a) = a[n]
          BY <1>a DEF Last
        <4>2. n # 0
          BY <1>a, StackFields
        <4> QED BY <1>1, <2>3, <4>1, <4>2
      <3>3. ASSUME KeepsPlace(b, k), s.pm[Pm].policy = Pre, NEW r \in Ids, Due(s, r)
            PROVE  Underway(b, k, s, r)
        <4>1. ~Settles(s, from, m, r)
          BY <3>1, <3>2, <3>3, RepliedSettlesNothing DEF KeepsPlace
        <4>2. Underway(a, k, s, r)
          BY <1>a, <2>3, <3>3, <4>1 DEF SentCarried
        <4>3. Alike(a, b, k)
          BY <2>1 DEF Alike
        <4> QED BY <4>2, <4>3, AlikeCarried
      <3> QED BY <3>1, <3>3 DEF SavedAt, Carried, SentCarried
    <2> QED BY <1>1, <2>2, <2>3
  <1> QED BY <1>2 DEF SavedCarried

\* What is due is under way after m has been handled.
LEMMA ResolvedCarried ==
    ASSUME NEW s, NEW a, NEW from, NEW m, SentCarried(s, a, from, m), NEW t, NEW msgs,
           ExpectedBelow(a, Len(a) + 1, s), Resolves(s, from, m, t, msgs), t.pm[Pm].policy = Pre,
           NEW r \in Ids, Due(t, r)
    PROVE  \/ Underway(a, Len(a) + 1, t, r)
           \/ \E i \in DOMAIN msgs : Settles(t, m.to, msgs[i], r)
  <1>1. s.pm[Pm].policy = Pre
    BY DEF Resolves
  <1>2. CASE Due(s, r) /\ ~Settles(s, from, m, r)
    <2>1. Underway(a, Len(a) + 1, s, r)
      BY <1>1, <1>2 DEF SentCarried
    <2>2. \A id \in Ids : id \in DOMAIN s.pm[Pm].proposals => t.deposits[id] = s.deposits[id]
      BY DEF Resolves
    <2> DEFINE n == Len(a) + 1
    <2>3. ExpectedBelow(a, n, s) /\ Underway(a, n, s, r)
      BY <2>1
    <2> HIDE DEF n
    <2>4. Underway(a, n, t, r)
      BY <2>2, <2>3, StaysUnderway
    <2> QED BY <2>4 DEF n
  <1> QED BY <1>1, <1>2 DEF Resolves

\* A message is handled and sends nothing.
LEMMA QuietCarried ==
    ASSUME NEW s, NEW a, NEW from, NEW m, SentCarried(s, a, from, m), NEW t,
           ExpectedBelow(a, Len(a) + 1, s), Resolves(s, from, m, t, <<>>)
    PROVE  CarriedInv(a, t)
  <1>1. OwnerIn(t) /\ SavedCarried(a)
    BY DEF Resolves, SentCarried
  <1>2. ASSUME t.pm[Pm].policy = Pre, NEW r \in Ids, Due(t, r)
        PROVE  Underway(a, Len(a) + 1, t, r)
    <2> DEFINE ms == <<>>
    <2>1. DOMAIN ms = {} /\ Resolves(s, from, m, t, ms)
      OBVIOUS
    <2> HIDE DEF ms
    <2> QED BY <1>2, <2>1, ResolvedCarried
  <1> QED BY <1>1, <1>2 DEF CarriedInv, Carried

\* A message is handled and sends messages.
LEMMA LoudCarried ==
    ASSUME NEW s, NEW a \in Seq(Call1), NEW from, NEW m, SentCarried(s, a, from, m),
           MsgInv(from, m), a # <<>>, Last(a).to = from, NEW t, NEW msgs,
           ExpectedBelow(a, Len(a) + 1, s), Resolves(s, from, m, t, msgs),
           NEW f, f.to = m.to, f.pending = msgs, f.saved = s, f.reply_on = m.reply_on,
           f.reply_id = m.reply_id, NEW b, b = Append(a, f)
    PROVE  CarriedInv(b, t)
  <1>1. IsTopped(a, f, b)
    BY Topped
  <1>2. SavedCarried(b)
    BY <1>1, ToppedSaved
  <1>3. OwnerIn(t)
    BY DEF Resolves
  <1> DEFINE n == Len(a)
  <1>4. /\ Len(b) = n + 1 /\ DOMAIN b = 1 .. n + 1 /\ DOMAIN a = 1 .. n /\ n \in Nat
        /\ b[n + 1] = f /\ \A k \in DOMAIN a : b[k] = a[k]
    BY <1>1 DEF IsTopped
  <1> HIDE DEF n
  <1>a. n = Len(a)
    BY DEF n
  <1>5. ASSUME t.pm[Pm].policy = Pre, NEW r \in Ids, Due(t, r)
        PROVE  Underway(b, Len(b) + 1, t, r)
    <2>1. CASE Underway(a, n + 1, t, r)
      <3>1. PICK k \in DOMAIN a : k < n + 1 /\ \E i \in DOMAIN a[k].pending :
                                      Settles(t, a[k].to, a[k].pending[i], r)
        BY <2>1 DEF Underway
      <3>2. k \in DOMAIN b /\ b[k] = a[k] /\ k < Len(b) + 1
        BY <1>4, <3>1
      <3> QED BY <3>1, <3>2 DEF Underway
    <2>2. ASSUME NEW i \in DOMAIN msgs, Settles(t, m.to, msgs[i], r)
          PROVE  Underway(b, Len(b) + 1, t, r)
      <3>1. n + 1 \in DOMAIN b /\ n + 1 < Len(b) + 1 /\ b[n + 1].to = m.to /\ b[n + 1].pending = msgs
        BY <1>4
      <3> QED BY <2>2, <3>1 DEF Underway
    <2> QED BY <1>5, <1>a, <2>1, <2>2, ResolvedCarried
  <1> QED BY <1>2, <1>3, <1>5 DEF CarriedInv, Carried

\* A foreign contract is called: that pays nothing out.
LEMMA ForeignCarried ==
    ASSUME NEW s, NEW a \in Seq(Call1), NEW from, NEW m, SentCarried(s, a, from, m),
           MsgInv(from, m), a # <<>>, Last(a).to = from, m.to \notin Contracts,
           ExpectedBelow(a, Len(a) + 1, s), NEW f, f.to = m.to, f.pending = <<>>, f.saved = s,
           f.reply_on = m.reply_on, f.reply_id = m.reply_id, NEW b, b = Append(a, f)
    PROVE  CarriedInv(b, s)
  <1>1. \A r : ~Settles(s, from, m, r)
    BY Addresses DEF Settles, Contracts
  <1>2. Resolves(s, from, m, s, <<>>)
    BY <1>1 DEF Resolves, SentCarried
  <1> DEFINE ms == <<>>
  <1>3. f.pending = ms /\ Resolves(s, from, m, s, ms)
    BY <1>2
  <1> HIDE DEF ms
  <1> QED BY <1>3, LoudCarried

----------------------------------------------------------------------------
(* Errors, returns and calls *)

LEMMA NoCallsCarried ==
    ASSUME NEW s, OwnerIn(s), NEW st, NEW n, Carried(st, n, s), \A k \in DOMAIN st : ~(k < n)
    PROVE  CarriedInv(<<>>, s)
  <1> DEFINE a == <<>>
  <1>1. DOMAIN a = {}
    OBVIOUS
  <1> HIDE DEF a
  <1>2. \A r : ~Underway(st, n, s, r)
    BY DEF Underway
  <1>3. Carried(a, Len(a) + 1, s)
    BY <1>2 DEF Carried
  <1>4. CarriedInv(a, s)
    BY <1>1, <1>3 DEF CarriedInv, SavedCarried
  <1> QED BY <1>4 DEF a

\* The calls below call n + 1.
LEMMA CutCarried ==
    ASSUME NEW st \in Seq(Call1), NEW n \in 0 .. Len(st), SavedCarried(st),
           NEW s, OwnerIn(s), Carried(st, n + 1, s), NEW a, a = SubSeq(st, 1, n)
    PROVE  CarriedInv(a, s)
  <1>1. Len(st) \in Nat /\ DOMAIN st = 1 .. Len(st) /\ n \in Nat
    BY StackFields
  <1>2. Len(a) = n /\ DOMAIN a = 1 .. n /\ \A k \in 1 .. n : a[k] = st[k] /\ k \in DOMAIN st
    BY <1>1
  <1>3. ASSUME NEW k \in DOMAIN a
        PROVE  SavedAt(a, k)
    <2>1. k # 1 => k - 1 \in DOMAIN a
      BY <1>1, <1>2
    <2>2. \A l \in DOMAIN st : l < k => l \in DOMAIN a
      BY <1>1, <1>2
    <2>3. Alike(st, a, k)
      BY <1>2, <2>2 DEF Alike
    <2>4. Inherits(st, a, k)
      BY <1>2, <2>1, <2>3 DEF Inherits
    <2> QED BY <2>4, Inherited
  <1>4. Alike(st, a, n + 1)
    <2>1. \A l \in DOMAIN st : l < n + 1 => l \in DOMAIN a
      BY <1>1, <1>2
    <2> QED BY <1>2, <2>1 DEF Alike
  <1>5. Carried(a, n + 1, s)
    <2> DEFINE k == n + 1
    <2>1. Alike(st, a, k) /\ Carried(st, k, s)
      BY <1>4
    <2> HIDE DEF k
    <2>2. Carried(a, k, s)
      BY <2>1, AlikeCarried
    <2> QED BY <2>2 DEF k
  <1> QED BY <1>2, <1>3, <1>5 DEF CarriedInv, SavedCarried

\* A proposal module hears of an error: if its pre-propose module keeps its place,
\* what is due does not change.
LEMMA RepliedCarried ==
    ASSUME NEW s, Settled(s), OwnerIn(s), NEW p \in Pms, NEW rid,
           reply_type(rid) # FAILED_PRE_PROPOSE_MODULE_HOOK_ID =>
               p = Pm /\ Ran(s, id_after_shift(rid)),
           NEW st, NEW n,
           ~(p = Pm /\ reply_type(rid) = FAILED_PRE_PROPOSE_MODULE_HOOK_ID) => Carried(st, n, s),
           NEW t, t = AfterReply(s, p, rid)
    PROVE  OwnerIn(t) /\ Carried(st, n, t)
  <1>1. s \in Store
    BY DEF Settled, StoreInv
  <1>2. CASE reply_type(rid) = FAILED_PRE_PROPOSE_MODULE_HOOK_ID
    <2>1. t = [s EXCEPT !.pm[p].policy = Anyone]
      BY <1>2 DEF AfterReply
    <2>2. Same(s, t)
      BY <2>1, PolicyChanged DEF Quiet
    <2>3. CASE p = Pm
      <3>1. t.pm[Pm].policy = Anyone
        BY <1>1, <2>1, <2>3 DEF Store
      <3>2. Anyone # Pre
        BY Addresses
      <3> QED BY <2>2, <3>1, <3>2 DEF OwnerIn, Same, Carried
    <2>4. CASE p # Pm
      <3>1. t.pm[Pm] = s.pm[Pm]
        BY <1>1, <2>1, <2>4 DEF Store, Pms
      <3>2. \A r : Due(t, r) => Due(s, r)
        BY <2>2, SameOutcome DEF Same, Due
      <3>3. \A r : Underway(st, n, s, r) => Underway(st, n, t, r)
        BY <2>2 DEF Underway, Settles, Same
      <3> QED BY <2>2, <2>4, <3>1, <3>2, <3>3 DEF OwnerIn, Same, Carried
    <2> QED BY <2>3, <2>4
  <1>3. CASE reply_type(rid) # FAILED_PRE_PROPOSE_MODULE_HOOK_ID
    <2> DEFINE id == id_after_shift(rid)
               old == s.pm[Pm].proposals
               q == [old EXCEPT ![id].status = "execution_failed"]
    <2>1. p = Pm /\ id \in DOMAIN old /\ Passed(old[id].status)
      BY <1>3 DEF Ran
    <2>2. t = WithProposals(s, Pm, q)
      BY <1>3, <2>1 DEF AfterReply, WithProposals
    <2>3. old \in Seq(Proposal) /\ Pm \in Pms
      BY <1>1 DEF Store, Pms
    <2>a. old = s.pm[Pm].proposals
      OBVIOUS
    <2>4. /\ q \in Seq(Proposal) /\ DOMAIN q = DOMAIN old
          /\ \A i \in DOMAIN q : i # id => q[i] = old[i]
      <3> DEFINE x == [old[id] EXCEPT !.status = "execution_failed"]
      <3> HIDE DEF id, old
      <3>1. old[id] \in Proposal
        BY <2>1, <2>3
      <3>2. x \in Proposal
        BY <3>1 DEF Proposal, ProposalStatus
      <3>3. q = [old EXCEPT ![id] = x]
        OBVIOUS
      <3> HIDE DEF q, x
      <3> QED BY <2>1, <2>3, <3>2, <3>3
    <2> HIDE DEF q, id, old
    <2>5. OnlyProposals(s, Pm, q, t)
      BY <1>1, <2>2, <2>3, <2>4, ProposalsOnly
    <2>6. OnlyStatus(s, id, q)
      BY <2>4, <2>a DEF OnlyStatus
    <2>7. ASSUME NEW r \in Ids, Due(t, r)
          PROVE  Due(s, r)
      <3> SUFFICES ASSUME ~Due(s, r)
                   PROVE  FALSE
        OBVIOUS
      <3>1. ProposalOf(s, r, id)
        BY <2>5, <2>6, <2>7, StatusDecides DEF Settled
      <3>2. OutcomeIn(s, r) = old[id].status
        BY <2>1, <2>a, <3>1 DEF ProposalOf, OutcomeIn
      <3>3. OutcomeIn(s, r) # "open"
        BY <2>1, <3>2 DEF Passed
      <3> QED BY <2>5, <2>7, <3>3 DEF OnlyProposals, Due
    <2>8. \A r : Underway(st, n, s, r) => Underway(st, n, t, r)
      BY <2>5 DEF Underway, Settles, OnlyProposals
    <2>9. OwnerIn(t)
      BY <2>5 DEF OnlyProposals, OwnerIn
    <2>10. Carried(st, n, s) /\ t.pm[Pm].policy = s.pm[Pm].policy
      BY <1>3, <2>5 DEF OnlyProposals
    <2> QED BY <2>7, <2>8, <2>9, <2>10 DEF Carried
  <1> QED BY <1>2, <1>3

\* The transaction goes back to before the failed call, or to its start.
LEMMA UnwoundCarried ==
    ASSUME NEW st, UnwindInv(st), SavedCarried(st), Unwind(st)
    PROVE  CarriedInv(stack', store')
  <1>1. st \in Seq(Call1) /\ Len(st) \in Nat /\ DOMAIN st = 1 .. Len(st) /\ Len(st) # 0
    BY StackFields DEF UnwindInv
  <1>2. CASE /\ store' = st[1].saved
             /\ stack' = <<>>
    <2> DEFINE n == 1
               s == st[1].saved
    <2>1. SavedAt(st, 1)
      BY <1>1 DEF SavedCarried
    <2>2. OwnerIn(s) /\ Carried(st, n, s) /\ \A k \in DOMAIN st : ~(k < n)
      BY <1>1, <2>1 DEF SavedAt, KeepsPlace
    <2> HIDE DEF n, s
    <2>3. CarriedInv(<<>>, s)
      BY <2>2, NoCallsCarried
    <2> QED BY <1>2, <2>3 DEF s
  <1>3. ASSUME NEW k \in Catching(st),
               store' = AfterReply(st[k].saved, st[k - 1].to, st[k].reply_id),
               stack' = SubSeq(st, 1, k - 1)
        PROVE  CarriedInv(stack', store')
    <2> DEFINE n == k - 1
               s == st[k].saved
               p == st[n].to
               rid == st[k].reply_id
               t == AfterReply(s, p, rid)
               a == SubSeq(st, 1, n)
    <2>1. k \in 2 .. Len(st) /\ st[k].reply_on = "error"
      BY DEF Catching
    <2>2. k \in DOMAIN st /\ n \in 0 .. Len(st) /\ n + 1 = k
      <3> DEFINE L == Len(st)
      <3>1. L \in Nat /\ k \in 2 .. L /\ DOMAIN st = 1 .. L
        BY <1>1, <2>1
      <3> HIDE DEF L
      <3>2. k \in 1 .. L /\ k - 1 \in 0 .. L /\ (k - 1) + 1 = k
        BY <3>1
      <3> QED BY <3>1, <3>2 DEF L
    <2>3. Settled(s) /\ ReplyInv(st, k)
      BY <2>1, <2>2 DEF UnwindInv
    <2>4. /\ p \in Pms
          /\ reply_type(rid) # FAILED_PRE_PROPOSE_MODULE_HOOK_ID => p = Pm /\ Ran(s, id_after_shift(rid))
      BY <2>1, <2>3 DEF ReplyInv
    <2>5. OwnerIn(s)
      BY <2>2 DEF SavedCarried, SavedAt
    <2>6. ~(p = Pm /\ reply_type(rid) = FAILED_PRE_PROPOSE_MODULE_HOOK_ID) => Carried(st, k, s)
      BY <2>1, <2>2 DEF SavedCarried, SavedAt, KeepsPlace
    <2>7. store' = t /\ stack' = a
      BY <1>3
    <2>a. a = SubSeq(st, 1, n) /\ t = AfterReply(s, p, rid)
      OBVIOUS
    <2> HIDE DEF n, s, p, rid, t, a
    <2>8. OwnerIn(t) /\ Carried(st, k, t)
      BY <2>3, <2>4, <2>5, <2>6, <2>a, RepliedCarried
    <2>9. CarriedInv(a, t)
      BY <1>1, <2>2, <2>8, <2>a, CutCarried
    <2> QED BY <2>7, <2>9
  <1> QED BY <1>2, <1>3 DEF Unwind

LEMMA RaiseCarried ==
    ASSUME IInv, CarriedInv(stack, store), Raise
    PROVE  CarriedInv(stack', store')
  <1>1. UnwindInv(stack)
    BY DEF IInv, Inv, StackInv, HooksInv, SavedHooks, UnwindInv, FrameInv, Raise, Running
  <1> QED BY <1>1, UnwoundCarried DEF Raise, CarriedInv

LEMMA ReturnCarried ==
    ASSUME IInv, CarriedInv(stack, store), Return
    PROVE  CarriedInv(stack', store')
  <1> DEFINE st == stack
             n == Len(st) - 1
             a == Front(st)
             s == store
  <1>1. st # <<>> /\ Last(st).pending = <<>> /\ stack' = a /\ store' = s
    BY DEF Return, Running, Top
  <1>2. /\ st \in Seq(Call1) /\ Len(st) \in Nat /\ DOMAIN st = 1 .. Len(st)
        /\ Last(st) = st[Len(st)] /\ Len(st) # 0
    BY <1>1, StackFields DEF IInv, Inv, StackInv
  <1>3. a = SubSeq(st, 1, n) /\ n \in 0 .. Len(st) /\ n + 1 = Len(st)
    BY <1>2 DEF Front
  <1>4. OwnerIn(s) /\ SavedCarried(st) /\ Carried(st, Len(st) + 1, s)
    BY DEF CarriedInv
  <1> HIDE DEF st, n, a, s
  <1>5. Carried(st, n + 1, s)
    <2>1. DOMAIN st[Len(st)].pending = {}
      BY <1>1, <1>2
    <2>2. \A k \in DOMAIN st : k < Len(st) + 1 => k < Len(st) \/ k = Len(st)
      BY <1>2
    <2>3. \A r : Underway(st, Len(st) + 1, s, r) => Underway(st, Len(st), s, r)
      BY <2>1, <2>2 DEF Underway
    <2> QED BY <1>3, <1>4, <2>3 DEF Carried
  <1>6. CarriedInv(a, s)
    BY <1>2, <1>3, <1>4, <1>5, CutCarried
  <1> QED BY <1>1, <1>6

LEMMA DispatchCarried ==
    ASSUME IInv, CarriedInv(stack, store), Dispatch
    PROVE  CarriedInv(stack', store')
  <1> DEFINE a == Advance(stack)
             from == Top.to
             m == NextMsg
             results == execute(store, m.to, from, m.body)
  <1>1. Inv(stack, store) /\ stack # <<>> /\ Last(stack).pending # <<>>
    BY DEF IInv, Dispatch, Running, Top
  <1>2. Sending(store, a, from, m)
    BY <1>1, SendingInv DEF Top, NextMsg
  <1>3. SentCarried(store, a, from, m)
    BY <1>1, SendingCarried DEF Top, NextMsg, Inv
  <1>4. \/ /\ m.to \notin Contracts
           /\ stack' = Append(a, Frame(m, store, <<>>, FALSE))
           /\ store' = store
        \/ /\ m.to \in Contracts
           /\ \E r \in results :
                  /\ store' = r.store
                  /\ stack' = IF r.msgs = <<>> THEN a ELSE Append(a, Frame(m, store, r.msgs, TRUE))
        \/ Unwind(Append(a, Frame(m, store, <<>>, TRUE)))
    BY DEF Dispatch
  <1> HIDE DEF a, from, m, results
  <1>5. /\ a \in Seq(Call1) /\ a # <<>> /\ Last(a).to = from /\ MsgInv(from, m)
        /\ ExpectedBelow(a, Len(a) + 1, store) /\ OwnerIn(store)
    BY <1>2, <1>3 DEF Sending, SentCarried, Idle, StackInv
  <1>6. ASSUME NEW msgs, NEW done
        PROVE  /\ Frame(m, store, msgs, done).to = m.to
               /\ Frame(m, store, msgs, done).pending = msgs
               /\ Frame(m, store, msgs, done).saved = store
               /\ Frame(m, store, msgs, done).reply_on = m.reply_on
               /\ Frame(m, store, msgs, done).reply_id = m.reply_id
    BY DEF Frame
  <1>7. CASE /\ m.to \notin Contracts
             /\ stack' = Append(a, Frame(m, store, <<>>, FALSE))
             /\ store' = store
    <2> DEFINE f == Frame(m, store, <<>>, FALSE)
    <2>1. /\ f.to = m.to /\ f.pending = <<>> /\ f.saved = store
          /\ f.reply_on = m.reply_on /\ f.reply_id = m.reply_id
      BY <1>6
    <2>2. stack' = Append(a, f)
      BY <1>7
    <2> HIDE DEF f
    <2>3. CarriedInv(stack', store)
      BY <1>3, <1>5, <1>7, <2>1, <2>2, ForeignCarried
    <2> QED BY <1>7, <2>3
  <1>8. ASSUME m.to \in Contracts, NEW r \in results, store' = r.store,
               stack' = IF r.msgs = <<>> THEN a ELSE Append(a, Frame(m, store, r.msgs, TRUE))
        PROVE  CarriedInv(stack', store')
    <2> DEFINE t == r.store
               ms == r.msgs
    <2>1. r \in execute(store, m.to, from, m.body)
      BY <1>8 DEF results
    <2>2. Resolves(store, from, m, t, ms)
      BY <1>2, <1>5, <1>8, <2>1, HandlerResolves
    <2>3. store' = t /\ stack' = IF ms = <<>> THEN a ELSE Append(a, Frame(m, store, ms, TRUE))
      BY <1>8
    <2> HIDE DEF t, ms
    <2>4. CASE ms = <<>>
      <3>1. Resolves(store, from, m, t, <<>>)
        BY <2>2, <2>4
      <3>2. CarriedInv(a, t)
        BY <1>3, <1>5, <3>1, QuietCarried
      <3> QED BY <2>3, <2>4, <3>2
    <2>5. CASE ms # <<>>
      <3> DEFINE f == Frame(m, store, ms, TRUE)
      <3>1. /\ f.to = m.to /\ f.pending = ms /\ f.saved = store
            /\ f.reply_on = m.reply_on /\ f.reply_id = m.reply_id
        BY <1>6
      <3>2. stack' = Append(a, f)
        BY <2>3, <2>5
      <3> HIDE DEF f
      <3>3. CarriedInv(stack', t)
        BY <1>3, <1>5, <2>2, <3>1, <3>2, LoudCarried
      <3> QED BY <2>3, <3>3
    <2> QED BY <2>4, <2>5
  <1>9. CASE Unwind(Append(a, Frame(m, store, <<>>, TRUE)))
    <2> DEFINE f == Frame(m, store, <<>>, TRUE)
               b == Append(a, f)
    <2>1. UnwindInv(b)
      BY <1>2, FailedCall
    <2>2. Unwind(b)
      BY <1>9
    <2>3. f.saved = store /\ f.reply_on = m.reply_on /\ f.reply_id = m.reply_id
      BY <1>6
    <2> HIDE DEF f
    <2>4. IsTopped(a, f, b)
      BY <1>5, Topped
    <2> HIDE DEF b
    <2>5. SavedCarried(b)
      BY <1>3, <1>5, <2>3, <2>4, ToppedSaved
    <2> QED BY <2>1, <2>2, <2>5, UnwoundCarried
  <1> QED BY <1>4, <1>7, <1>8, <1>9

\* A transaction starts.
LEMMA FirstCarried ==
    ASSUME NEW s, CarriedInv(<<>>, s), NEW f, f.saved = s
    PROVE  CarriedInv(<<f>>, s)
  <1> DEFINE a == <<>>
             b == <<f>>
  <1>1. DOMAIN a = {} /\ Len(b) = 1 /\ DOMAIN b = {1} /\ b[1] = f
    OBVIOUS
  <1>2. CarriedInv(a, s)
    OBVIOUS
  <1> HIDE DEF a, b
  <1>3. s.pm[Pm].policy = Pre => \A r \in Ids : ~Due(s, r)
    BY <1>1, <1>2 DEF CarriedInv, Carried, Underway
  <1>4. \A n : Carried(b, n, s)
    BY <1>3 DEF Carried
  <1>5. SavedAt(b, 1)
    BY <1>1, <1>2, <1>4 DEF SavedAt, CarriedInv
  <1>6. CarriedInv(b, s)
    BY <1>1, <1>2, <1>4, <1>5 DEF CarriedInv, SavedCarried
  <1> QED BY <1>6 DEF b

\* A foreign contract that is running calls: none of its messages pays out.
LEMMA NestedCarried ==
    ASSUME NEW st, NEW s, st \in Seq(Call1), CarriedInv(st, s), st # <<>>,
           Last(st).to \notin Contracts, NEW f, f.saved = Last(st).saved,
           f.reply_on = Last(st).reply_on, f.reply_id = Last(st).reply_id,
           NEW b, b = Append(Front(st), f)
    PROVE  CarriedInv(b, s)
  <1> DEFINE n == Len(st) - 1
             a == Front(st)
  <1>1. /\ Len(st) \in Nat /\ DOMAIN st = 1 .. Len(st) /\ Last(st) = st[Len(st)] /\ Len(st) # 0
    BY StackFields
  <1>2. n \in Nat /\ n + 1 = Len(st)
    BY <1>1
  <1>3. a \in Seq(Call1) /\ Len(a) = n /\ DOMAIN a = 1 .. n /\ \A k \in DOMAIN a : a[k] = st[k]
    BY <1>1, <1>2 DEF Front
  <1> HIDE DEF a
  <1>4. IsTopped(a, f, b)
    BY <1>3, Topped DEF a
  <1> HIDE DEF n
  <1>5. /\ Len(b) = n + 1 /\ DOMAIN b = 1 .. n + 1 /\ b[n + 1] = f
        /\ \A k \in 1 .. n : b[k] = st[k]
    BY <1>3, <1>4 DEF IsTopped
  <1>6. \A k \in DOMAIN b : k \in DOMAIN st /\ b[k].saved = st[k].saved
                            /\ b[k].reply_on = st[k].reply_on /\ b[k].reply_id = st[k].reply_id
    <2>1. ASSUME NEW k \in DOMAIN b
          PROVE  k \in DOMAIN st /\ b[k].saved = st[k].saved
                 /\ b[k].reply_on = st[k].reply_on /\ b[k].reply_id = st[k].reply_id
      <3>1. CASE k = n + 1
        BY <1>1, <1>2, <1>5, <3>1
      <3>2. CASE k # n + 1
        BY <1>1, <1>2, <1>5, <3>2
      <3> QED BY <3>1, <3>2
    <2> QED BY <2>1
  <1>7. ASSUME NEW k, k \in DOMAIN b \/ k = n + 1
        PROVE  Alike(st, b, k)
    <2>1. \A l \in DOMAIN st : l < k => l \in DOMAIN b /\ l \in 1 .. n
      BY <1>1, <1>2, <1>5, <1>7
    <2> QED BY <1>5, <2>1 DEF Alike
  <1>8. ASSUME NEW k \in DOMAIN b
        PROVE  SavedAt(b, k)
    <2>1. k # 1 => k - 1 \in 1 .. n
      BY <1>2, <1>5
    <2>2. Inherits(st, b, k)
      BY <1>5, <1>6, <1>7, <2>1 DEF Inherits
    <2> QED BY <2>2, Inherited DEF CarriedInv
  <1>9. ASSUME NEW r, Underway(st, Len(st) + 1, s, r)
        PROVE  Underway(b, Len(b) + 1, s, r)
    <2>1. PICK k \in DOMAIN st : k < Len(st) + 1 /\ \E i \in DOMAIN st[k].pending :
                                     Settles(s, st[k].to, st[k].pending[i], r)
      BY <1>9 DEF Underway
    <2>2. k # Len(st)
      <3>1. Pre \in Contracts /\ Pm \in Contracts
        BY Addresses
      <3>2. \A x : ~Settles(s, Last(st).to, x, r)
        BY <3>1 DEF Settles, IsHook
      <3> QED BY <1>1, <2>1, <3>2
    <2>3. k \in 1 .. n /\ k \in DOMAIN b /\ k < Len(b) + 1
      BY <1>1, <1>2, <1>5, <2>1, <2>2
    <2>4. b[k] = st[k]
      BY <1>5, <2>3
    <2> QED BY <2>1, <2>3, <2>4 DEF Underway
  <1>10. OwnerIn(s) /\ Carried(b, Len(b) + 1, s)
    BY <1>9 DEF CarriedInv, Carried
  <1> QED BY <1>8, <1>10 DEF CarriedInv, SavedCarried

LEMMA CallCarried ==
    ASSUME IInv, CarriedInv(stack, store), NEW sender, NEW to, NEW c, Call(sender, to, c),
           sender \in Addr \ Contracts
    PROVE  CarriedInv(stack', store')
  <1>1. store' = store /\ sender \in Callers
    BY DEF Call
  <1>2. CASE stack = <<>>
    <2> DEFINE f == Frame(Msg(sender, [kind |-> "tx"]), store, <<Msg(to, c)>>, TRUE)
    <2>1. stack' = <<f>>
      BY <1>2 DEF Call
    <2>2. f.saved = store
      BY DEF Frame
    <2>3. CarriedInv(<<>>, store)
      BY <1>2
    <2> HIDE DEF f
    <2>4. CarriedInv(<<f>>, store)
      BY <2>2, <2>3, FirstCarried
    <2> QED BY <1>1, <2>1, <2>4
  <1>3. CASE stack # <<>>
    <2> DEFINE q == <<Msg(to, c)>>
               f == [Last(stack) EXCEPT !.pending = q, !.called = TRUE]
               b == Append(Front(stack), f)
    <2>1. stack' = b
      BY <1>3 DEF Call, Top
    <2>2. sender = Last(stack).to
      BY <1>1, <1>3 DEF Callers, Top
    <2>3. stack \in Seq(Call1)
      BY DEF IInv, Inv, StackInv
    <2>4. Last(stack) \in Call1
      BY <1>3, <2>3, StackFields
    <2> HIDE DEF q
    <2>5. /\ f.saved = Last(stack).saved /\ f.reply_on = Last(stack).reply_on
          /\ f.reply_id = Last(stack).reply_id
      BY <2>4 DEF Call1
    <2> HIDE DEF f
    <2>6. CarriedInv(b, store)
      BY <1>3, <2>2, <2>3, <2>5, NestedCarried
    <2> QED BY <1>1, <2>1, <2>6
  <1> QED BY <1>2, <1>3

LEMMA NextCarried ==
    ASSUME IInv, CarriedInv(stack, store), [Next]_vars
    PROVE  CarriedInv(stack', store')
  <1>1. CASE UNCHANGED vars
    BY <1>1 DEF vars
  <1>2. ASSUME NEW call \in Calls[store.flow], Call(call.sender, call.to, call.body)
        PROVE  CarriedInv(stack', store')
    <2>1. store.flow \in Flows
      BY DEF IInv, Inv, StoreInv, Store
    <2>2. call \in Request
      BY <2>1, InputAssumption DEF InputAssumption
    <2>3. call.sender \in Addr \ Contracts
      BY <2>2, RequestMsg
    <2> QED BY <1>2, <2>3, CallCarried
  <1> QED BY <1>1, <1>2, DispatchCarried, ReturnCarried, RaiseCarried DEF Next

LEMMA InitCarried ==
    ASSUME Init
    PROVE  CarriedInv(stack, store)
  <1>1. PICK flow \in Flows : \E config \in Configs[flow], approver \in Approvers[flow],
                                 hooks \in HookLists[flow], n \in Earlier[flow] :
           /\ config.deposit_info # NoDeposit => into_checked(config.deposit_info)
           /\ validate(config.submission_policy)
           /\ store = instantiate(flow, config, approver, hooks, n)
    BY DEF Init
  <1>2. PICK config \in Configs[flow], approver \in Approvers[flow],
             hooks \in HookLists[flow], n \in Earlier[flow] :
           store = instantiate(flow, config, approver, hooks, n)
    BY <1>1
  <1>3. store.terms = [i \in Ids |-> [info |-> NoDeposit, proposer |-> "none"]]
    BY <1>2 DEF instantiate
  <1>4. store.pm[Pm].policy = Pre
    <2>1. Pm \in Pms
      BY DEF Pms
    <2> QED BY <1>2, <2>1 DEF instantiate
  <1>5. \A r \in Ids : store.terms[r].info = NoDeposit
    BY <1>3
  <1>6. OwnerIn(store)
    BY <1>4, <1>5 DEF OwnerIn
  <1>7. Carried(<<>>, 1, store)
    BY <1>5 DEF Carried, Due
  <1> DEFINE st == <<>>
             top == 1
  <1>8. Carried(st, top, store) /\ \A k \in DOMAIN st : ~(k < top)
    BY <1>7
  <1> HIDE DEF st, top
  <1>9. CarriedInv(<<>>, store)
    BY <1>6, <1>8, NoCallsCarried
  <1> QED BY <1>9 DEF Init

----------------------------------------------------------------------------
(* Theorems *)

\* The inductive invariant holds, through every nesting of calls, replies and
\* errors.
THEOREM Invariant == Spec => []IInv
  <1>1. Init => IInv
    BY InitInv
  <1>2. IInv /\ [Next]_vars => IInv'
    BY NextInv
  <1> QED BY <1>1, <1>2, PTL DEF Spec

\* Every variable keeps its type, in the storage and in every storage that an
\* error goes back to: in particular no ledger balance is ever overdrawn, in
\* whatever order the payments of a transaction are made.
THEOREM TypesCorrect == Spec => []TypeOK
  <1>1. IInv => TypeOK
    <2> SUFFICES ASSUME IInv
                 PROVE  TypeOK
      OBVIOUS
    <2>1. store \in Store /\ stack \in Seq(Call1)
      BY DEF IInv, Inv, StoreInv, StackInv
    <2>2. ASSUME NEW k \in DOMAIN stack
          PROVE  stack[k].saved \in Store /\ stack[k].pending \in Seq(Message)
      <3>1. stack[k] \in Call1
        BY <2>1, <2>2, StackFields
      <3> QED BY <3>1 DEF Call1
    <2>3. ASSUME NEW k \in DOMAIN stack, NEW i \in DOMAIN stack[k].pending
          PROVE  stack[k].pending[i].to \in Addr
      <3>1. stack[k].pending[i] \in Message
        BY <2>2, <2>3
      <3> QED BY <3>1 DEF Message
    <2> QED BY <2>1, <2>2, <2>3 DEF TypeOK
  <1> QED BY <1>1, Invariant, PTL

\* The submission policy is valid after every configuration, policy update and
\* failed transaction: it never excludes everybody or contradicts itself.
THEOREM PolicyAlwaysValid == Spec => []PolicyValid
  <1>1. IInv => PolicyValid
    BY DEF IInv, Inv, StoreInv, PolicyValid
  <1> QED BY <1>1, Invariant, PTL

\* A proposal that came through Pre has the deposit entry of its own proposer,
\* although Pre writes the entry for an id that the proposal module has yet to
\* give out, and other contracts run and submit in the same transaction.
THEOREM EntriesMatch == Spec => []EntryMatchesProposal
  <1>1. IInv => EntryMatchesProposal
    BY DEF IInv, Inv, StoreInv, EntriesIn, EntryMatchesProposal, Proposals
  <1> QED BY <1>1, Invariant, PTL

\* With an approver, a submission is pending or completed and never both, and
\* approved submissions and the proposals made of them correspond one to one.
THEOREM SubmissionsApprovedOnce == Spec => []ApprovedOnce
  <1>1. IInv => ApprovedOnce
    <2> SUFFICES ASSUME IInv, NEW r \in Ids
                 PROVE  /\ r <= store.current_id <=>
                               \/ store.pending[r] # NoSubmission
                               \/ store.completed[r] # NoSubmission
                        /\ store.pending[r] = NoSubmission \/ store.completed[r] = NoSubmission
                        /\ store.created_to_completed[r] # 0 =>
                               store.completed[store.created_to_completed[r]].created = r
                        /\ store.completed[r].created # 0 =>
                               store.created_to_completed[store.completed[r].created] = r
      BY DEF ApprovedOnce
    <2>1. SubmissionsIn(store)
      BY DEF IInv, Inv, StoreInv
    <2>2. CASE store.flow = "single"
      <3>1. /\ store.pending[r] = NoSubmission /\ store.completed[r] = NoSubmission
            /\ store.created_to_completed[r] = 0 /\ store.current_id = 0
        BY <2>1, <2>2 DEF SubmissionsIn, SingleIn
      <3>2. ~(r <= 0)
        BY InputAssumption DEF InputAssumption, Ids
      <3> QED BY <3>1, <3>2 DEF NoSubmission
    <2>3. CASE store.flow = "approval"
      <3>1. CompletedIn(store, r) /\ CreatedIn(store, r) /\ CountedIn(store, r)
        BY <2>1, <2>3 DEF SubmissionsIn, ApprovalIn
      <3> QED BY <3>1 DEF CompletedIn, CreatedIn, CountedIn
    <2> QED BY <2>1, <2>2, <2>3 DEF SubmissionsIn
  <1> QED BY <1>1, Invariant, PTL

\* A deposit is paid out at most once, only when its proposal is completed or its
\* submission rejected, and to whom the terms it was made on say: whatever calls
\* the contracts that are paid or notified make, whatever fails, and also if the
\* DAO has changed its configuration since.
THEOREM DepositsPaidAsPromised == Spec => []PaidAsPromised
  <1>1. IInv => PaidAsPromised
    <2> SUFFICES ASSUME IInv, NEW r \in Ids
                 PROVE  /\ Len(store.paid[r]) <= 1
                        /\ store.paid[r] # <<>> =>
                               Outcome(r) # "open" /\ store.paid[r] = <<Promised(r)>>
      BY DEF PaidAsPromised
    <2>1. PaidIn(store)
      BY DEF IInv, Inv, StoreInv
    <2>2. Outcome(r) = OutcomeIn(store, r)
      BY DEF Outcome, OutcomeIn, Proposals
    <2>3. Promised(r) = PromisedIn(store, r)
      BY <2>2 DEF Promised, PromisedIn, Passed
    <2>4. store.paid[r] # <<>> =>
              OutcomeIn(store, r) # "open" /\ store.paid[r] = <<PromisedIn(store, r)>>
      BY <2>1 DEF PaidIn
    <2>5. Len(store.paid[r]) <= 1
      <3> DEFINE to == PromisedIn(store, r)
      <3>1. Len(<<>>) <= 1 /\ Len(<<to>>) <= 1
        <4> HIDE DEF to
        <4> QED OBVIOUS
      <3> QED BY <2>4, <3>1
    <2> QED BY <2>2, <2>3, <2>4, <2>5
  <1> QED BY <1>1, Invariant, PTL

\* As long as Pre has its place, every deposit whose proposal is completed or whose
\* submission is rejected has been paid out when a transaction ends: whatever calls the
\* contracts that are paid or notified make, and whatever fails.
THEOREM NothingLeftBehind == Spec => []NothingStranded
  <1> DEFINE K == CarriedInv(stack, store)
  <1>1. Init => K
    BY InitCarried
  <1>2. IInv /\ K /\ [Next]_vars => K'
    BY NextCarried
  <1>3. K => NothingStranded
    <2> SUFFICES ASSUME K, stack = <<>>, store.pm[Pm].policy = Pre, NEW r \in Ids,
                        store.terms[r].info # NoDeposit, Outcome(r) # "open"
                 PROVE  store.paid[r] # <<>>
      BY DEF NothingStranded
    <2>1. Outcome(r) = OutcomeIn(store, r)
      BY DEF Outcome, OutcomeIn, Proposals
    <2>2. ~Underway(stack, Len(stack) + 1, store, r)
      <3> DEFINE a == <<>>
      <3>1. stack = a /\ DOMAIN a = {}
        OBVIOUS
      <3> HIDE DEF a
      <3> QED BY <3>1 DEF Underway
    <2> QED BY <2>1, <2>2 DEF CarriedInv, Carried, Due
  <1> HIDE DEF K
  <1> QED BY <1>1, <1>2, <1>3, Invariant, PTL DEF Spec
=============================================================================
