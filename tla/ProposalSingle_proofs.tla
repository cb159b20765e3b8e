------------------------ MODULE ProposalSingle_proofs ------------------------
(***************************************************************************)
(* Theorems about ProposalSingle, for every set of addresses, every        *)
(* configuration, every power function a voting module may answer with and *)
(* every bound.                                                            *)
(*                                                                         *)
(* The type invariant is not inductive by itself: remove_vote subtracts a  *)
(* ballot's power from a tally, which stays a natural number only because  *)
(* the tally is the sum of the ballots.  The inductive invariant IInv      *)
(* therefore carries the tallies and the ballots' powers along, for the    *)
(* storage and for every storage a running call has saved.                 *)
(***************************************************************************)
EXTENDS ProposalSingle, TLAPS

----------------------------------------------------------------------------
(* Facts about sequences *)

\* Replacing an element keeps a sequence's type and length.
LEMMA SeqExcept ==
    ASSUME NEW S, NEW s \in Seq(S), NEW i \in DOMAIN s, NEW e \in S
    PROVE  /\ [s EXCEPT ![i] = e] \in Seq(S)
           /\ Len([s EXCEPT ![i] = e]) = Len(s)
           /\ DOMAIN [s EXCEPT ![i] = e] = DOMAIN s
  OBVIOUS

\* Appending an element keeps a sequence's type and its other elements.
LEMMA SeqAppend ==
    ASSUME NEW S, NEW s \in Seq(S), NEW e \in S
    PROVE  /\ Append(s, e) \in Seq(S)
           /\ Len(Append(s, e)) = Len(s) + 1
           /\ DOMAIN Append(s, e) = 1 .. Len(s) + 1
           /\ Append(s, e)[Len(s) + 1] = e
           /\ \A i \in 1 .. Len(s) : Append(s, e)[i] = s[i]
  OBVIOUS

\* Removing an element from a sequence keeps its type.
LEMMA SeqRemoveAt ==
    ASSUME NEW S, NEW s \in Seq(S), NEW i \in 1 .. Len(s)
    PROVE  RemoveAt(s, i) \in Seq(S)
  BY DEF RemoveAt

\* A function on a sequence's indices is a sequence.
LEMMA SeqOfFunction ==
    ASSUME NEW S, NEW T, NEW s \in Seq(S), NEW f,
           f = [i \in DOMAIN s |-> f[i]], \A i \in DOMAIN s : f[i] \in T
    PROVE  f \in Seq(T)
  <1>1. DOMAIN s = 1 .. Len(s) /\ Len(s) \in Nat
    OBVIOUS
  <1>2. f \in [1 .. Len(s) -> T]
    BY <1>1, Zenon
  <1> QED BY <1>1, <1>2

----------------------------------------------------------------------------
(* Voting power *)

\* The power of a set that gains an address.
LEMMA PowerOfUnion ==
    ASSUME NEW h \in Heights, NEW S \in SUBSET Addr, NEW a \in Addr, a \notin S
    PROVE  PowerAt[h][S \cup {a}] = PowerAt[h][S] + PowerAt[h][{a}]
  <1>1. {a} \in SUBSET Addr /\ S \cap {a} = {}
    OBVIOUS
  <1> QED BY <1>1, PowerAssumption

\* Powers are natural numbers.
LEMMA PowerType ==
    ASSUME NEW h \in Heights, NEW S \in SUBSET Addr
    PROVE  PowerAt[h][S] \in Nat
  BY PowerAssumption

\* Nobody has no power.
LEMMA PowerOfNone ==
    ASSUME NEW h \in Heights
    PROVE  PowerAt[h][{}] = 0
  <1>1. {} \cap {} = {} /\ {} \cup {} = {} /\ {} \in SUBSET Addr
    OBVIOUS
  <1>2. PowerAt[h][{} \cup {}] = PowerAt[h][{}] + PowerAt[h][{}]
    BY <1>1, PowerAssumption
  <1> QED BY <1>1, <1>2, PowerType

----------------------------------------------------------------------------
(* The inductive invariant *)

\* Every ballot holds the voter's power at the proposal's start.
BallotsOK(s) ==
    \A id \in DOMAIN s.proposals : \A a \in Addr :
        s.ballots[id][a].vote # "none"
            => s.ballots[id][a].power = voting_power(a, s.proposals[id].start_height)

\* Proposals start at a height of the clock.
StartsOK(s) == \A id \in DOMAIN s.proposals : s.proposals[id].start_height \in Heights

StoreInv(s) == StoreOK(s) /\ StartsOK(s) /\ TalliesOK(s) /\ BallotsOK(s)

StackInv(st) ==
    /\ st \in Seq(FrameType)
    /\ \A k \in DOMAIN st : StoreInv(st[k].saved)

IInv == StoreInv(store) /\ height \in Heights /\ StackInv(stack)

----------------------------------------------------------------------------
(* Updating a status *)

\* current_status yields a status.
LEMMA CurrentStatusType ==
    ASSUME NEW p, p.status \in Status, NEW now
    PROVE  current_status(p, now) \in Status
  <1>1. CASE p.status = "open" /\ is_passed(p, now)
    BY <1>1 DEF current_status, Status
  <1>2. CASE p.status = "open" /\ ~is_passed(p, now)
    BY <1>2 DEF current_status, Status
  <1>3. CASE p.status = "veto_timelock"
    BY <1>3 DEF current_status, Status
  <1>4. CASE p.status \notin {"open", "veto_timelock"}
    BY <1>4 DEF current_status, Status
  <1> QED BY <1>1, <1>2, <1>3, <1>4

\* update_status changes the status only.
LEMMA UpdateStatusType ==
    ASSUME NEW p \in Proposal(Addr, MsgLists), NEW now
    PROVE  /\ update_status(p, now) \in Proposal(Addr, MsgLists)
           /\ update_status(p, now).start_height = p.start_height
           /\ update_status(p, now).votes = p.votes
           /\ update_status(p, now).msgs = p.msgs
           /\ update_status(p, now).veto = p.veto
  <1>1. current_status(p, now) \in Status
    BY CurrentStatusType DEF Proposal
  <1> QED BY <1>1 DEF update_status, Proposal

\* Saving a proposal of which only the status has changed keeps the invariant.
LEMMA SaveStatus ==
    ASSUME NEW s, StoreInv(s), NEW id \in DOMAIN s.proposals,
           NEW p \in Proposal(Addr, MsgLists),
           p.start_height = s.proposals[id].start_height,
           p.votes = s.proposals[id].votes
    PROVE  StoreInv([s EXCEPT !.proposals[id] = p])
  <1> DEFINE t == [s EXCEPT !.proposals[id] = p]
             ps == [s.proposals EXCEPT ![id] = p]
  <1>1. s \in Store
    BY DEF StoreInv, StoreOK
  <1>2. ps \in Seq(Proposal(Addr, MsgLists)) /\ Len(ps) = Len(s.proposals)
        /\ DOMAIN ps = DOMAIN s.proposals
    <2>1. s.proposals \in Seq(Proposal(Addr, MsgLists))
      BY <1>1 DEF Store
    <2> QED BY <2>1, SeqExcept
  <1>3. t.proposals = ps /\ t.ballots = s.ballots /\ t.ran = s.ran
    BY <1>1 DEF Store
  <1>4. t \in Store
    BY <1>1, <1>2 DEF Store
  <1>5. StoreOK(t)
    BY <1>2, <1>3, <1>4 DEF StoreInv, StoreOK
  <1>6. \A i \in DOMAIN s.proposals :
            /\ ps[i].start_height = s.proposals[i].start_height
            /\ ps[i].votes = s.proposals[i].votes
    OBVIOUS
  <1>7. StartsOK(t)
    BY <1>2, <1>3, <1>6 DEF StoreInv, StartsOK
  <1>8. TalliesOK(t)
    BY <1>2, <1>3, <1>6 DEF StoreInv, TalliesOK
  <1>9. BallotsOK(t)
    BY <1>2, <1>3, <1>6 DEF StoreInv, BallotsOK
  <1> QED BY <1>5, <1>7, <1>8, <1>9 DEF StoreInv

----------------------------------------------------------------------------
(* Voting *)

\* The votes with the old ballot's power taken out, if there is one.
Cleared(votes, ballot) ==
    IF ballot.vote = "none" THEN votes ELSE remove_vote(votes, ballot.vote, ballot.power)

\* votes is the tally of a ballot box.
IsTally(votes, h, box) ==
    /\ votes \in Votes
    /\ \A o \in Vote : votes[o] = PowerAt[h][Supporters(box, o)]

\* votes is the tally of a ballot box without one voter's ballot.
IsTallyWithout(votes, h, box, a) ==
    /\ votes \in Votes
    /\ \A o \in Vote : votes[o] = PowerAt[h][Supporters(box, o) \ {a}]

\* Taking a voter's old power out leaves the power of the other supporters.
LEMMA ClearedTally ==
    ASSUME NEW h \in Heights, NEW box \in [Addr -> Ballot], NEW a \in Addr,
           NEW votes, IsTally(votes, h, box),
           box[a].vote # "none" => box[a].power = PowerAt[h][{a}]
    PROVE  IsTallyWithout(Cleared(votes, box[a]), h, box, a)
  <1> USE DEF IsTally, IsTallyWithout
  <1>1. CASE box[a].vote = "none"
    <2>1. \A o \in Vote : Supporters(box, o) \ {a} = Supporters(box, o)
      BY <1>1 DEF Supporters, Vote
    <2> QED BY <1>1, <2>1 DEF Cleared
  <1>2. CASE box[a].vote # "none"
    <2> DEFINE old == box[a].vote
               rest == Supporters(box, old) \ {a}
               cleared == [votes EXCEPT ![old] = @ - PowerAt[h][{a}]]
    <2>1. old \in Vote
      BY <1>2 DEF Ballot
    <2>2. rest \in SUBSET Addr /\ a \notin rest /\ Supporters(box, old) = rest \cup {a}
      BY DEF Supporters
    <2>3. PowerAt[h][Supporters(box, old)] = PowerAt[h][rest] + PowerAt[h][{a}]
      BY <2>2, PowerOfUnion
    <2>4. PowerAt[h][rest] \in Nat /\ PowerAt[h][{a}] \in Nat
      BY <2>2, PowerType
    <2>5. votes[old] - PowerAt[h][{a}] = PowerAt[h][rest]
      BY <2>1, <2>3, <2>4
    <2>6. Cleared(votes, box[a]) = cleared
      BY <1>2 DEF Cleared, remove_vote
    <2>7. cleared \in Votes
      BY <2>1, <2>4, <2>5 DEF Votes
    <2>8. \A o \in Vote \ {old} : Supporters(box, o) \ {a} = Supporters(box, o)
      BY DEF Supporters
    <2>9. \A o \in Vote : cleared[o] = PowerAt[h][Supporters(box, o) \ {a}]
      BY <2>1, <2>5, <2>8 DEF Votes
    <2> QED BY <2>6, <2>7, <2>9
  <1> QED BY <1>1, <1>2

\* Counting a voter's new ballot gives the tally of the new ballot box.
LEMMA VoteTally ==
    ASSUME NEW h \in Heights, NEW box \in [Addr -> Ballot], NEW a \in Addr,
           NEW ballot \in Ballot, NEW vote \in Vote, ballot.vote = vote,
           NEW power, power = PowerAt[h][{a}],
           NEW votes, IsTallyWithout(votes, h, box, a)
    PROVE  IsTally(add_vote(votes, vote, power), h, [box EXCEPT ![a] = ballot])
  <1> USE DEF IsTally, IsTallyWithout
  <1> DEFINE new == [votes EXCEPT ![vote] = @ + PowerAt[h][{a}]]
             newbox == [box EXCEPT ![a] = ballot]
             rest == Supporters(box, vote) \ {a}
  <1>1. add_vote(votes, vote, power) = new
    BY DEF add_vote
  <1>2. PowerAt[h][{a}] \in Nat
    BY PowerType
  <1>3. new \in Votes
    BY <1>2 DEF Votes
  <1>4. Supporters(newbox, vote) = rest \cup {a}
    BY DEF Supporters
  <1>5. rest \in SUBSET Addr /\ a \notin rest
    BY DEF Supporters
  <1>6. PowerAt[h][rest \cup {a}] = PowerAt[h][rest] + PowerAt[h][{a}]
    <2> HIDE DEF rest
    <2> QED BY <1>5, PowerOfUnion
  <1>7. \A o \in Vote \ {vote} : Supporters(newbox, o) = Supporters(box, o) \ {a}
    BY DEF Supporters
  <1>8. \A o \in Vote : new[o] = PowerAt[h][Supporters(newbox, o)]
    <2> HIDE DEF newbox
    <2> QED BY <1>4, <1>6, <1>7 DEF Votes
  <1> QED BY <1>1, <1>3, <1>8

\* execute_vote keeps the storage's invariant.
LEMMA VoteKeepsStore ==
    ASSUME NEW s, StoreInv(s), height \in Heights,
           NEW sender \in Addr, NEW id, NEW vote \in Vote, NEW rationale \in Rationales,
           CanVote(s, sender, id, vote)
    PROVE  /\ StoreInv(AfterVote(s, sender, id, vote, rationale))
           /\ WithVote(s, sender, id, vote).status \in Status
           /\ id \in DOMAIN s.proposals
  <1> DEFINE p == s.proposals[id]
             h == p.start_height
             box == s.ballots[id]
             power == voting_power(sender, h)
             ballot == [vote |-> vote, power |-> power, rationale |-> rationale]
             cleared == Cleared(p.votes, box[sender])
             votes == add_vote(cleared, vote, power)
             q == [p EXCEPT !.votes = votes]
             w == WithVote(s, sender, id, vote)
             newbox == [box EXCEPT ![sender] = ballot]
             t == AfterVote(s, sender, id, vote, rationale)
             ps == [s.proposals EXCEPT ![id] = w]
             bs == [s.ballots EXCEPT ![id] = newbox]
  <1>1. s \in Store /\ Len(s.ballots) = Len(s.proposals) /\ Len(s.ran) = Len(s.proposals)
    BY DEF StoreInv, StoreOK
  <1>2. id \in DOMAIN s.proposals
    BY DEF CanVote
  <1>3. /\ s.proposals \in Seq(Proposal(Addr, MsgLists))
        /\ s.ballots \in Seq([Addr -> Ballot])
        /\ id \in DOMAIN s.ballots
        /\ DOMAIN s.ballots = DOMAIN s.proposals
    BY <1>1, <1>2 DEF Store
  <1>4. p \in Proposal(Addr, MsgLists) /\ box \in [Addr -> Ballot]
    BY <1>2, <1>3
  <1>5. h \in Heights
    BY <1>2 DEF StoreInv, StartsOK
  <1>6. power = PowerAt[h][{sender}] /\ power \in Nat
    BY <1>5, PowerType DEF voting_power
  <1>7. p.votes \in Votes
    BY <1>4 DEF Proposal
  <1>8. IsTally(p.votes, h, box)
    BY <1>2, <1>7 DEF StoreInv, TalliesOK, IsTally
  <1>9. box[sender].vote # "none" => box[sender].power = PowerAt[h][{sender}]
    BY <1>2 DEF StoreInv, BallotsOK, voting_power
  <1>10. IsTallyWithout(cleared, h, box, sender)
    <2> HIDE DEF p, h, box
    <2> QED BY <1>4, <1>5, <1>8, <1>9, ClearedTally
  <1>11. ballot \in Ballot /\ ballot.vote = vote
    BY <1>6 DEF Ballot
  <1>12. IsTally(votes, h, newbox)
    <2> HIDE DEF p, h, box, cleared, ballot, power
    <2> QED BY <1>4, <1>5, <1>6, <1>10, <1>11, VoteTally
  <1>13. q \in Proposal(Addr, MsgLists) /\ q.start_height = h /\ q.votes = votes
    BY <1>4, <1>12 DEF Proposal, IsTally
  <1>14. w = update_status(q, height)
    BY DEF WithVote, Cleared
  <1>15. w \in Proposal(Addr, MsgLists) /\ w.start_height = h /\ w.votes = votes
    <2> HIDE DEF q, w, h, votes
    <2> QED BY <1>13, <1>14, UpdateStatusType
  <1>16. newbox \in [Addr -> Ballot]
    BY <1>4, <1>11
  <1>17. /\ ps \in Seq(Proposal(Addr, MsgLists)) /\ Len(ps) = Len(s.proposals)
         /\ DOMAIN ps = DOMAIN s.proposals
    BY <1>2, <1>3, <1>15, SeqExcept
  <1>18. /\ bs \in Seq([Addr -> Ballot]) /\ Len(bs) = Len(s.ballots)
         /\ DOMAIN bs = DOMAIN s.ballots
    BY <1>3, <1>16, SeqExcept
  <1>19. t = [s EXCEPT !.proposals = ps, !.ballots = bs]
    BY <1>1 DEF AfterVote, Store
  <1>20. t.proposals = ps /\ t.ballots = bs /\ t.ran = s.ran
    BY <1>1, <1>19 DEF Store
  <1>21. t \in Store
    BY <1>1, <1>17, <1>18, <1>19 DEF Store
  <1>22. StoreOK(t)
    BY <1>1, <1>17, <1>18, <1>20, <1>21 DEF StoreOK
  <1>23. ps[id] = w /\ bs[id] = newbox
    BY <1>2, <1>3
  <1>24. \A i \in DOMAIN s.proposals \ {id} : ps[i] = s.proposals[i] /\ bs[i] = s.ballots[i]
    BY <1>3
  <1>25. StartsOK(t)
    BY <1>5, <1>15, <1>17, <1>20, <1>23, <1>24 DEF StoreInv, StartsOK
  <1>26. TalliesOK(t)
    <2> HIDE DEF w, h, votes, newbox, ps, bs, t
    <2> QED BY <1>12, <1>15, <1>17, <1>20, <1>23, <1>24 DEF StoreInv, TalliesOK, IsTally
  <1>27. \A a \in Addr : newbox[a].vote # "none" => newbox[a].power = voting_power(a, h)
    BY <1>2, <1>4 DEF StoreInv, BallotsOK
  <1>28. BallotsOK(t)
    BY <1>15, <1>17, <1>20, <1>23, <1>24, <1>27 DEF StoreInv, BallotsOK
  <1>29. w.status \in Status
    BY <1>15 DEF Proposal
  <1> QED BY <1>2, <1>22, <1>25, <1>26, <1>28, <1>29 DEF StoreInv

----------------------------------------------------------------------------
(* Proposing *)

\* The configuration in the storage.
LEMMA ConfigType ==
    ASSUME NEW s, StoreInv(s)
    PROVE  /\ s \in Store
           /\ s.config \in Config
           /\ s.policy \in Policy
           /\ s.proposal_hooks \in Seq(Peer)
           /\ s.vote_hooks \in Seq(Peer)
           /\ s.proposals \in Seq(Proposal(Addr, MsgLists))
           /\ s.ballots \in Seq([Addr -> Ballot])
           /\ s.ran \in Seq(Nat)
           /\ Len(s.ballots) = Len(s.proposals)
           /\ Len(s.ran) = Len(s.proposals)
  BY DEF StoreInv, StoreOK, Store

\* A new proposal has no votes and starts now.
LEMMA NewProposalType ==
    ASSUME NEW s, StoreInv(s), height \in Heights, NEW msgs \in MsgLists
    PROVE  /\ NewProposal(s, msgs) \in Proposal(Addr, MsgLists)
           /\ NewProposal(s, msgs).start_height = height
           /\ NewProposal(s, msgs).votes = zero
  <1> DEFINE c == s.config
             q == [start_height |-> height,
                   min_voting_period |-> height + c.min_voting_period,
                   expiration |-> height + c.max_voting_period,
                   threshold |-> c.threshold,
                   total_power |-> TotalPowerAt[height],
                   msgs |-> msgs,
                   status |-> "open",
                   votes |-> zero,
                   allow_revoting |-> c.allow_revoting,
                   veto |-> c.veto]
  <1>1. c \in Config
    BY ConfigType
  <1>2. /\ c.threshold \in Threshold /\ c.min_voting_period \in Nat
        /\ c.max_voting_period \in Nat /\ c.allow_revoting \in BOOLEAN
        /\ c.veto \in {NoVeto} \cup VetoConfig(Addr)
    BY <1>1 DEF Config
  <1>3. height \in Nat /\ TotalPowerAt[height] \in Nat
    BY PowerAssumption, BoundAssumption DEF Heights
  <1>4. zero \in Votes
    BY DEF zero, Votes
  <1>5. "open" \in Status
    BY DEF Status
  <1>6. q \in Proposal(Addr, MsgLists)
    <2> HIDE DEF c
    <2> QED BY <1>2, <1>3, <1>4, <1>5 DEF Proposal
  <1>7. q.start_height = height /\ q.votes = zero
    OBVIOUS
  <1>8. NewProposal(s, msgs) = update_status(q, height)
    BY DEF NewProposal
  <1> HIDE DEF q
  <1> QED BY <1>6, <1>7, <1>8, UpdateStatusType

\* Saving a new proposal keeps the storage's invariant.
LEMMA ProposeKeepsStore ==
    ASSUME NEW s, StoreInv(s), height \in Heights, NEW msgs \in MsgLists
    PROVE  /\ StoreInv(AfterPropose(s, msgs))
           /\ DOMAIN AfterPropose(s, msgs).proposals = 1 .. Len(s.proposals) + 1
  <1> DEFINE p == NewProposal(s, msgs)
             box == [a \in Addr |-> NoBallot]
             n == Len(s.proposals) + 1
             ps == Append(s.proposals, p)
             bs == Append(s.ballots, box)
             rs == Append(s.ran, 0)
             t == AfterPropose(s, msgs)
  <1>1. p \in Proposal(Addr, MsgLists) /\ p.start_height = height /\ p.votes = zero
    BY NewProposalType
  <1>2. box \in [Addr -> Ballot]
    BY DEF NoBallot, Ballot
  <1>s. /\ s \in Store
        /\ s.proposals \in Seq(Proposal(Addr, MsgLists))
        /\ s.ballots \in Seq([Addr -> Ballot])
        /\ s.ran \in Seq(Nat)
        /\ Len(s.ballots) = Len(s.proposals)
        /\ Len(s.ran) = Len(s.proposals)
    BY ConfigType
  <1>3. /\ ps \in Seq(Proposal(Addr, MsgLists)) /\ Len(ps) = n /\ DOMAIN ps = 1 .. n
        /\ ps[n] = p /\ \A i \in 1 .. n - 1 : ps[i] = s.proposals[i]
        /\ n \in Nat /\ n - 1 = Len(s.proposals)
    <2> HIDE DEF p
    <2> QED BY <1>s, <1>1, SeqAppend
  <1>4. /\ bs \in Seq([Addr -> Ballot]) /\ Len(bs) = n
        /\ bs[n] = box /\ \A i \in 1 .. n - 1 : bs[i] = s.ballots[i]
    <2> HIDE DEF box
    <2> QED BY <1>s, <1>2, SeqAppend
  <1>r. rs \in Seq(Nat) /\ Len(rs) = n
    BY <1>s, SeqAppend
  <1>d. \A i \in 1 .. n : i = n \/ (i \in DOMAIN s.proposals /\ i \in 1 .. n - 1)
    <2>1. DOMAIN s.proposals = 1 .. n - 1 /\ n - 1 \in Nat
      BY <1>s
    <2>2. n \in Nat
      BY <1>3
    <2> HIDE DEF n
    <2> QED BY <2>1, <2>2
  <1>5. t = [s EXCEPT !.proposals = ps, !.ballots = bs, !.ran = rs]
    BY <1>s DEF AfterPropose, Store
  <1>6. t.proposals = ps /\ t.ballots = bs /\ t.ran = rs /\ t \in Store
    <2> HIDE DEF ps, bs, rs, t
    <2> QED BY <1>s, <1>3, <1>4, <1>r, <1>5 DEF Store
  <1>7. StoreOK(t)
    <2> HIDE DEF ps, bs, rs, t
    <2> QED BY <1>3, <1>4, <1>r, <1>6 DEF StoreOK
  <1>8. \A o \in Vote : p.votes[o] = PowerAt[height][Supporters(box, o)]
    <2>1. \A o \in Vote : Supporters(box, o) = {}
      BY DEF Supporters, NoBallot, Vote
    <2> QED BY <1>1, <2>1, PowerOfNone DEF zero
  <1>9. \A a \in Addr : box[a].vote = "none"
    BY DEF NoBallot
  <1> HIDE DEF p, box, ps, bs, rs, t, n
  <1>10. StartsOK(t)
    BY <1>1, <1>3, <1>4, <1>d, <1>6 DEF StoreInv, StartsOK
  <1>11. TalliesOK(t)
    BY <1>1, <1>3, <1>4, <1>d, <1>6, <1>8 DEF StoreInv, TalliesOK
  <1>12. BallotsOK(t)
    BY <1>1, <1>3, <1>4, <1>d, <1>6, <1>9 DEF StoreInv, BallotsOK
  <1>13. DOMAIN t.proposals = 1 .. Len(s.proposals) + 1
    BY <1>3, <1>6 DEF n
  <1> QED BY <1>7, <1>10, <1>11, <1>12, <1>13 DEF StoreInv, t

----------------------------------------------------------------------------
(* Storage changes that leave proposals and ballots alone *)

\* A storage with the same proposals and ballots satisfies the invariant too.
LEMMA SaveOther ==
    ASSUME NEW s, StoreInv(s), NEW t \in Store,
           t.proposals = s.proposals, t.ballots = s.ballots, Len(t.ran) = Len(s.ran)
    PROVE  StoreInv(t)
  BY DEF StoreInv, StoreOK, StartsOK, TalliesOK, BallotsOK

\* Saving a list of hook receivers.
LEMMA SaveHooks ==
    ASSUME NEW s, StoreInv(s), NEW hooks \in Seq(Peer)
    PROVE  /\ StoreInv([s EXCEPT !.proposal_hooks = hooks])
           /\ StoreInv([s EXCEPT !.vote_hooks = hooks])
  <1>1. s \in Store
    BY ConfigType
  <1>2. /\ [s EXCEPT !.proposal_hooks = hooks] \in Store
        /\ [s EXCEPT !.vote_hooks = hooks] \in Store
    BY <1>1 DEF Store
  <1> QED BY <1>1, <1>2, SaveOther DEF Store

\* Saving a creation policy.
LEMMA SavePolicy ==
    ASSUME NEW s, StoreInv(s), NEW policy \in Policy
    PROVE  StoreInv([s EXCEPT !.policy = policy])
  <1>1. s \in Store
    BY ConfigType
  <1>2. [s EXCEPT !.policy = policy] \in Store
    BY <1>1 DEF Store
  <1> QED BY <1>1, <1>2, SaveOther DEF Store

\* Saving a configuration.
LEMMA SaveConfig ==
    ASSUME NEW s, StoreInv(s), NEW config \in Config
    PROVE  StoreInv([s EXCEPT !.config = config])
  <1>1. s \in Store
    BY ConfigType
  <1>2. [s EXCEPT !.config = config] \in Store
    BY <1>1 DEF Store
  <1> QED BY <1>1, <1>2, SaveOther DEF Store

\* Counting an execution.
LEMMA SaveRan ==
    ASSUME NEW s, StoreInv(s), NEW id
    PROVE  StoreInv([s EXCEPT !.ran[id] = @ + 1])
  <1> DEFINE rs == [s.ran EXCEPT ![id] = @ + 1]
  <1>1. s \in Store /\ s.ran \in Seq(Nat)
    BY ConfigType
  <1>2. rs \in Seq(Nat) /\ Len(rs) = Len(s.ran)
    <2>1. CASE id \in DOMAIN s.ran
      <3>1. s.ran[id] + 1 \in Nat
        BY <1>1, <2>1
      <3>2. rs = [s.ran EXCEPT ![id] = s.ran[id] + 1]
        OBVIOUS
      <3> QED BY <1>1, <2>1, <3>1, <3>2, SeqExcept
    <2>2. CASE id \notin DOMAIN s.ran
      <3>1. rs = s.ran
        BY <1>1, <2>2
      <3> QED BY <1>1, <3>1
    <2> QED BY <2>1, <2>2
  <1>3. [s EXCEPT !.ran[id] = @ + 1] = [s EXCEPT !.ran = rs]
    BY <1>1 DEF Store
  <1> HIDE DEF rs
  <1>4. [s EXCEPT !.ran = rs] \in Store
    BY <1>1, <1>2 DEF Store
  <1>5. /\ [s EXCEPT !.ran = rs].proposals = s.proposals
        /\ [s EXCEPT !.ran = rs].ballots = s.ballots
        /\ [s EXCEPT !.ran = rs].ran = rs
    BY <1>1 DEF Store
  <1>6. StoreInv([s EXCEPT !.ran = rs])
    BY <1>2, <1>4, <1>5, SaveOther
  <1> QED BY <1>3, <1>6

\* Adding and removing hook receivers keeps a list of addresses.
LEMMA HookListType ==
    ASSUME NEW hooks \in Seq(Peer), NEW addr \in Peer
    PROVE  /\ add_hook(hooks, addr) \in Seq(Peer)
           /\ can_remove_hook(hooks, addr) => remove_hook(hooks, addr) \in Seq(Peer)
           /\ \A i \in Nat : can_remove_hook_by_index(hooks, i)
                                 => remove_hook_by_index(hooks, i) \in Seq(Peer)
  <1>1. add_hook(hooks, addr) \in Seq(Peer)
    BY SeqAppend DEF add_hook
  <1>2. ASSUME can_remove_hook(hooks, addr)
        PROVE  remove_hook(hooks, addr) \in Seq(Peer)
    <2>1. \E i \in DOMAIN hooks : hooks[i] = addr
      BY <1>2 DEF can_remove_hook, Contains
    <2> DEFINE j == CHOOSE i \in DOMAIN hooks : hooks[i] = addr
    <2>2. j \in DOMAIN hooks
      BY <2>1
    <2>3. j \in 1 .. Len(hooks)
      BY <2>2
    <2> QED BY <2>3, SeqRemoveAt DEF remove_hook
  <1>3. ASSUME NEW i \in Nat, can_remove_hook_by_index(hooks, i)
        PROVE  remove_hook_by_index(hooks, i) \in Seq(Peer)
    <2>1. i + 1 \in 1 .. Len(hooks)
      BY <1>3 DEF can_remove_hook_by_index
    <2> QED BY <2>1, SeqRemoveAt DEF remove_hook_by_index
  <1> QED BY <1>1, <1>2, <1>3

\* The handlers of the DAO keep the storage's invariant.
LEMMA DaoCallKeepsStore ==
    ASSUME NEW s, StoreInv(s), NEW call \in DaoRequest,
           DaoCallAccepted(s, call)
    PROVE  StoreInv(AfterDaoCall(s, call))
  <1>1. s.proposal_hooks \in Seq(Peer) /\ s.vote_hooks \in Seq(Peer)
    BY ConfigType
  <1>2. CASE call.kind = "update_config"
    <2>1. call.config \in Config
      BY <1>2 DEF DaoMsg, DaoRequest
    <2> QED BY <1>2, <2>1, SaveConfig DEF AfterDaoCall, execute_update_config
  <1>3. CASE call.kind = "update_pre_propose_info"
    <2>1. Anyone \in Policy
      BY DEF Policy
    <2> QED BY <1>3, <2>1, SavePolicy
            DEF AfterDaoCall, execute_update_proposal_creation_policy
  <1>4. call.kind \in {"add_proposal_hook", "remove_proposal_hook",
                       "add_vote_hook", "remove_vote_hook"} => call.addr \in Peer
    BY DEF DaoMsg, DaoRequest
  <1>5. CASE call.kind = "add_proposal_hook"
    BY <1>1, <1>4, <1>5, HookListType, SaveHooks
    DEF AfterDaoCall, execute_add_proposal_hook
  <1>6. CASE call.kind = "remove_proposal_hook"
    <2>1. can_remove_hook(s.proposal_hooks, call.addr)
      BY <1>6 DEF DaoCallAccepted
    <2> QED BY <1>1, <1>4, <1>6, <2>1, HookListType, SaveHooks
            DEF AfterDaoCall, execute_remove_proposal_hook
  <1>7. CASE call.kind = "add_vote_hook"
    BY <1>1, <1>4, <1>7, HookListType, SaveHooks
    DEF AfterDaoCall, execute_add_vote_hook
  <1>8. CASE call.kind = "remove_vote_hook"
    <2>1. can_remove_hook(s.vote_hooks, call.addr)
      BY <1>8 DEF DaoCallAccepted
    <2> QED BY <1>1, <1>4, <1>8, <2>1, HookListType, SaveHooks
            DEF AfterDaoCall, execute_remove_vote_hook
  <1>9. call.kind \in {"update_config", "update_pre_propose_info", "add_proposal_hook",
                       "remove_proposal_hook", "add_vote_hook", "remove_vote_hook"}
    BY DEF DaoMsg, DaoRequest
  <1> QED BY <1>2, <1>3, <1>5, <1>6, <1>7, <1>8, <1>9

\* The reply to a failed message keeps the storage's invariant.
LEMMA ReplyKeepsStore ==
    ASSUME NEW s, StoreInv(s), NEW reply_id \in Nat, ReplyAccepted(s, reply_id)
    PROVE  StoreInv(AfterFailureReply(s, reply_id))
  <1> DEFINE value == id_after_shift(reply_id)
             type == reply_type(reply_id)
  <1> USE DEF FAILED_PROPOSAL_EXECUTION_MASK, FAILED_PROPOSAL_HOOK_MASK,
              FAILED_VOTE_HOOK_MASK, FAILED_PRE_PROPOSE_MODULE_HOOK_ID
  <1>1. value \in Nat
    BY DEF id_after_shift, ReplyTypes
  <1>2. s.proposal_hooks \in Seq(Peer) /\ s.vote_hooks \in Seq(Peer)
        /\ s.proposals \in Seq(Proposal(Addr, MsgLists))
    BY ConfigType
  <1> HIDE DEF value, type
  <1>3. CASE type = 0
    <2>1. value \in DOMAIN s.proposals
      BY <1>3 DEF ReplyAccepted, value, type
    <2> DEFINE p == [s.proposals[value] EXCEPT !.status = "execution_failed"]
    <2>2. s.proposals[value] \in Proposal(Addr, MsgLists)
      BY <1>2, <2>1
    <2>3. /\ p \in Proposal(Addr, MsgLists)
          /\ p.start_height = s.proposals[value].start_height
          /\ p.votes = s.proposals[value].votes
      BY <2>2 DEF Proposal, Status
    <2>4. AfterFailureReply(s, reply_id) = [s EXCEPT !.proposals[value] = p]
      BY <1>3 DEF AfterFailureReply, value, type
    <2> HIDE DEF p
    <2> QED BY <2>1, <2>3, <2>4, SaveStatus
  <1>4. CASE type = 1
    <2>1. can_remove_hook_by_index(s.proposal_hooks, value)
      BY <1>4 DEF ReplyAccepted, value, type
    <2>2. AfterFailureReply(s, reply_id) =
              [s EXCEPT !.proposal_hooks = remove_hook_by_index(s.proposal_hooks, value)]
      BY <1>4 DEF AfterFailureReply, value, type
    <2>3. remove_hook_by_index(s.proposal_hooks, value) \in Seq(Peer)
      BY <1>1, <1>2, <2>1, HookListType, AddrAssumption
    <2> QED BY <2>2, <2>3, SaveHooks
  <1>5. CASE type = 2
    <2>1. can_remove_hook_by_index(s.vote_hooks, value)
      BY <1>5 DEF ReplyAccepted, value, type
    <2>2. AfterFailureReply(s, reply_id) =
              [s EXCEPT !.vote_hooks = remove_hook_by_index(s.vote_hooks, value)]
      BY <1>5 DEF AfterFailureReply, value, type
    <2>3. remove_hook_by_index(s.vote_hooks, value) \in Seq(Peer)
      BY <1>1, <1>2, <2>1, HookListType, AddrAssumption
    <2> QED BY <2>2, <2>3, SaveHooks
  <1>6. CASE type = 4
    <2>1. AfterFailureReply(s, reply_id) = [s EXCEPT !.policy = Anyone]
      BY <1>6 DEF AfterFailureReply, type
    <2>2. Anyone \in Policy
      BY DEF Policy
    <2> QED BY <2>1, <2>2, SavePolicy
  <1>7. type \in {0, 1, 2, 4}
    BY DEF ReplyAccepted, type
  <1> QED BY <1>3, <1>4, <1>5, <1>6, <1>7

----------------------------------------------------------------------------
(* Messages *)

\* Messages to other contracts.
LEMMA PeerMsgType ==
    ASSUME NEW a \in Peer, NEW body \in Body, NEW reply_id \in Nat
    PROVE  /\ Msg(a, body) \in SubMsg
           /\ MsgReplyOnError(a, body, reply_id) \in SubMsg
           /\ MsgReplyOnSuccess(a, body, reply_id) \in SubMsg
  BY DEF SubMsg, Msg, MsgReplyOnError, MsgReplyOnSuccess, NoReply, Peer

\* Reply identifiers.
LEMMA ReplyIdType ==
    ASSUME NEW i \in Nat
    PROVE  /\ mask_proposal_hook_index(i) \in Nat
           /\ mask_vote_hook_index(i) \in Nat
           /\ mask_proposal_execution_proposal_id(i) \in Nat
  BY DEF mask_proposal_hook_index, mask_vote_hook_index, ReplyTypes,
         mask_proposal_execution_proposal_id, FAILED_PROPOSAL_EXECUTION_MASK,
         FAILED_PROPOSAL_HOOK_MASK, FAILED_VOTE_HOOK_MASK

\* One message per receiver.
LEMMA PrepareHooksType ==
    ASSUME NEW hooks \in Seq(Peer), NEW prep \in [Peer \X Nat -> SubMsg]
    PROVE  prepare_hooks(hooks, prep) \in Seq(SubMsg)
  <1> DEFINE f == [i \in DOMAIN hooks |-> prep[<<hooks[i], i - 1>>]]
  <1>1. \A i \in DOMAIN hooks : <<hooks[i], i - 1>> \in Peer \X Nat
    OBVIOUS
  <1>2. \A i \in DOMAIN hooks : f[i] \in SubMsg
    BY <1>1
  <1>3. f = [i \in DOMAIN hooks |-> f[i]]
    OBVIOUS
  <1>4. f = prepare_hooks(hooks, prep)
    BY DEF prepare_hooks
  <1> HIDE DEF f
  <1>5. f \in Seq(SubMsg)
    BY <1>2, <1>3, SeqOfFunction
  <1> QED BY <1>4, <1>5

\* The hooks about a proposal, and the messages of the handlers that complete
\* one.
LEMMA HookMsgsType ==
    ASSUME NEW s, StoreInv(s), NEW id \in Nat, NEW old, NEW new \in Status
    PROVE  /\ new_proposal_hooks(s, id) \in Seq(SubMsg)
           /\ proposal_status_changed_hooks(s, id, old, new) \in Seq(SubMsg)
           /\ proposal_completed_hooks(s.policy, id, new) \in Seq(SubMsg)
           /\ new_vote_hooks(s) \in Seq(SubMsg)
           /\ CompletionHooks(s, id, old, new) \in Seq(SubMsg)
  <1>1. s.proposal_hooks \in Seq(Peer) /\ s.vote_hooks \in Seq(Peer) /\ s.policy \in Policy
    BY ConfigType
  <1>3. \A a \in Peer, i \in Nat : \A body \in Body :
            /\ MsgReplyOnError(a, body, mask_proposal_hook_index(i)) \in SubMsg
            /\ MsgReplyOnError(a, body, mask_vote_hook_index(i)) \in SubMsg
    BY ReplyIdType, PeerMsgType
  <1>4. ASSUME NEW body \in Body
        PROVE  /\ [r \in Peer \X Nat |->
                       MsgReplyOnError(r[1], body, mask_proposal_hook_index(r[2]))]
                      \in [Peer \X Nat -> SubMsg]
               /\ [r \in Peer \X Nat |->
                       MsgReplyOnError(r[1], body, mask_vote_hook_index(r[2]))]
                      \in [Peer \X Nat -> SubMsg]
    BY <1>3
  <1>5. /\ [kind |-> "new_vote"] \in Body
        /\ [kind |-> "new_proposal", id |-> id] \in Body
        /\ [kind |-> "status_changed", id |-> id, status |-> new] \in Body
        /\ [kind |-> "completed", id |-> id, status |-> new] \in Body
    BY DEF Body
  <1>6. new_proposal_hooks(s, id) \in Seq(SubMsg)
    BY <1>1, <1>4, <1>5, PrepareHooksType, Zenon DEF new_proposal_hooks
  <1>7. proposal_status_changed_hooks(s, id, old, new) \in Seq(SubMsg)
    <2>1. prepare_hooks(s.proposal_hooks,
              [r \in Peer \X Nat |->
                  MsgReplyOnError(r[1], [kind |-> "status_changed", id |-> id, status |-> new],
                                  mask_proposal_hook_index(r[2]))]) \in Seq(SubMsg)
      BY <1>1, <1>4, <1>5, PrepareHooksType, Zenon
    <2>2. CASE old = new
      BY <2>2 DEF proposal_status_changed_hooks
    <2>3. CASE old # new
      BY <2>1, <2>3, Zenon DEF proposal_status_changed_hooks
    <2> QED BY <2>2, <2>3
  <1>8. new_vote_hooks(s) \in Seq(SubMsg)
    BY <1>1, <1>4, <1>5, PrepareHooksType, Zenon DEF new_vote_hooks
  <1>9. proposal_completed_hooks(s.policy, id, new) \in Seq(SubMsg)
    <2>1. CASE s.policy.kind = "anyone"
      BY <2>1 DEF proposal_completed_hooks
    <2>2. CASE s.policy.kind # "anyone"
      <3>1. s.policy.addr \in Peer
        BY <1>1, <2>2 DEF Policy, Anyone
      <3>2. MsgReplyOnError(s.policy.addr, [kind |-> "completed", id |-> id, status |-> new],
                            FAILED_PRE_PROPOSE_MODULE_HOOK_ID) \in SubMsg
        BY <1>5, <3>1, PeerMsgType DEF FAILED_PRE_PROPOSE_MODULE_HOOK_ID
      <3> QED BY <2>2, <3>2 DEF proposal_completed_hooks
    <2> QED BY <2>1, <2>2
  <1>10. CompletionHooks(s, id, old, new) \in Seq(SubMsg)
    BY <1>7, <1>9 DEF CompletionHooks
  <1> QED BY <1>6, <1>7, <1>8, <1>9, <1>10

\* The message that has the DAO execute a proposal.
LEMMA ExecutionMsgsType ==
    ASSUME NEW id \in Nat, NEW p, p.msgs \in MsgLists
    PROVE  ExecutionMsgs(id, p) \in Seq(SubMsg)
  <1> DEFINE body == [kind |-> "execute_proposal_hook", id |-> id, msgs |-> p.msgs]
  <1>1. body \in Body
    BY DEF Body
  <1>2. Dao \in Peer
    BY AddrAssumption
  <1>3. mask_proposal_execution_proposal_id(id) \in Nat
    BY ReplyIdType
  <1> HIDE DEF body
  <1>4. /\ MsgReplyOnError(Dao, body, mask_proposal_execution_proposal_id(id)) \in SubMsg
        /\ Msg(Dao, body) \in SubMsg
    BY <1>1, <1>2, <1>3, PeerMsgType
  <1> QED BY <1>4 DEF ExecutionMsgs, body

\* The messages a call of the DAO gives rise to.
LEMMA DaoCallMsgsType ==
    ASSUME NEW call \in DaoRequest
    PROVE  DaoCallMsgs(call) \in Seq(SubMsg)
  <1>1. CASE call.kind = "update_pre_propose_info" /\ call.policy.kind = "module"
    <2>1. call.policy.addr \in Peer
      BY <1>1 DEF DaoRequest, DaoMsg, Policy, Anyone
    <2>2. [kind |-> "instantiate"] \in Body
      BY DEF Body
    <2>3. MsgReplyOnSuccess(call.policy.addr, [kind |-> "instantiate"],
                            PRE_PROPOSE_MODULE_INSTANTIATION_ID) \in SubMsg
      BY <2>1, <2>2, PeerMsgType DEF PRE_PROPOSE_MODULE_INSTANTIATION_ID
    <2> QED BY <1>1, <2>3 DEF DaoCallMsgs
  <1>2. CASE ~(call.kind = "update_pre_propose_info" /\ call.policy.kind = "module")
    BY <1>2 DEF DaoCallMsgs
  <1> QED BY <1>1, <1>2

\* The messages the DAO sends for a proposal.
LEMMA ProposalMsgsType ==
    ASSUME NEW msgs \in MsgLists
    PROVE  ProposalMsgs(msgs) \in Seq(SubMsg)
  <1>1. msgs \in Seq(DaoMsg)
    BY MsgAssumption
  <1>2. ASSUME NEW m \in DaoMsg
        PROVE  Msg(IF m.kind = "external" THEN m.to ELSE Self, m) \in SubMsg
    <2>1. m \in Body
      BY DEF Body
    <2>2. CASE m.kind = "external"
      <3>1. m.to \in Peer
        BY <2>2 DEF DaoMsg
      <3>2. Msg(m.to, m) \in SubMsg
        BY <2>1, <3>1, PeerMsgType
      <3> QED BY <2>2, <3>2
    <2>3. CASE m.kind # "external"
      <3>1. m \in DaoRequest /\ Self \in Addr
        BY <2>3, AddrAssumption DEF DaoRequest
      <3>2. Msg(Self, m) \in SubMsg
        BY <2>1, <3>1 DEF Msg, SubMsg, NoReply
      <3> QED BY <2>3, <3>2
    <2> QED BY <2>2, <2>3
  <1> QED BY <1>1, <1>2 DEF ProposalMsgs

----------------------------------------------------------------------------
(* The stack *)

\* A call is pushed.
LEMMA Push ==
    ASSUME NEW st, StackInv(st), NEW f \in FrameType, StoreInv(f.saved)
    PROVE  StackInv(Append(st, f))
  <1>1. st \in Seq(FrameType)
    BY DEF StackInv
  <1>2. /\ Append(st, f) \in Seq(FrameType)
        /\ DOMAIN Append(st, f) = 1 .. Len(st) + 1
        /\ Append(st, f)[Len(st) + 1] = f
        /\ \A i \in 1 .. Len(st) : Append(st, f)[i] = st[i]
    BY <1>1, SeqAppend
  <1>3. DOMAIN st = 1 .. Len(st) /\ Len(st) \in Nat
    BY <1>1
  <1>4. \A i \in 1 .. Len(st) + 1 : i = Len(st) + 1 \/ i \in 1 .. Len(st)
    BY <1>3
  <1>5. \A i \in DOMAIN Append(st, f) : StoreInv(Append(st, f)[i].saved)
    BY <1>2, <1>3, <1>4 DEF StackInv
  <1> QED BY <1>2, <1>5 DEF StackInv

\* The topmost call changes.
LEMMA Replace ==
    ASSUME NEW st, StackInv(st), st # <<>>, NEW f \in FrameType, StoreInv(f.saved)
    PROVE  StackInv([st EXCEPT ![Len(st)] = f])
  <1>1. st \in Seq(FrameType)
    BY DEF StackInv
  <1>2. Len(st) \in DOMAIN st
    BY <1>1
  <1>3. /\ [st EXCEPT ![Len(st)] = f] \in Seq(FrameType)
        /\ DOMAIN [st EXCEPT ![Len(st)] = f] = DOMAIN st
    BY <1>1, <1>2, SeqExcept
  <1>4. \A k \in DOMAIN st : [st EXCEPT ![Len(st)] = f][k] = IF k = Len(st) THEN f ELSE st[k]
    OBVIOUS
  <1>5. \A k \in DOMAIN st : StoreInv([st EXCEPT ![Len(st)] = f][k].saved)
    BY <1>4 DEF StackInv
  <1> QED BY <1>3, <1>5 DEF StackInv

\* Calls are popped.
LEMMA Pop ==
    ASSUME NEW st, StackInv(st), NEW k \in Nat, k <= Len(st)
    PROVE  StackInv(SubSeq(st, 1, k))
  <1>1. st \in Seq(FrameType) /\ Len(st) \in Nat
    BY DEF StackInv
  <1>2. SubSeq(st, 1, k) \in Seq(FrameType)
        /\ DOMAIN SubSeq(st, 1, k) = 1 .. k
        /\ \A i \in 1 .. k : SubSeq(st, 1, k)[i] = st[i] /\ i \in DOMAIN st
    BY <1>1
  <1> QED BY <1>2 DEF StackInv

\* The topmost frame.
LEMMA TopType ==
    ASSUME NEW st, StackInv(st), st # <<>>
    PROVE  /\ Last(st) = st[Len(st)]
           /\ Last(st) \in FrameType
           /\ StoreInv(Last(st).saved)
           /\ Len(st) \in DOMAIN st
           /\ Len(st) \in Nat \ {0}
  <1>1. st \in Seq(FrameType)
    BY DEF StackInv
  <1>2. Len(st) \in DOMAIN st /\ Len(st) \in Nat \ {0}
    BY <1>1
  <1>3. Last(st) = st[Len(st)]
    BY DEF Last
  <1> QED BY <1>1, <1>2, <1>3 DEF StackInv

\* The empty stack.
LEMMA EmptyStack == StackInv(<<>>)
  BY DEF StackInv

\* Sending a handler's messages keeps the stack well formed.
LEMMA RespondKeepsStack ==
    ASSUME StoreInv(store), StackInv(stack), NEW sender \in Peer,
           NEW msgs \in Seq(SubMsg), Respond(sender, msgs)
    PROVE  StackInv(stack')
  <1>1. CASE stack = <<>>
    <2> DEFINE f == Frame(Msg(sender, [kind |-> "tx"]), store, msgs, TRUE)
    <2>1. [kind |-> "tx"] \in Body
      BY DEF Body
    <2>2. store \in Store
      BY ConfigType
    <2>3. f \in FrameType /\ f.saved = store
      BY <2>1, <2>2 DEF FrameType, Frame, Msg, NoReply
    <2>4. stack' = <<f>>
      BY <1>1 DEF Respond
    <2> HIDE DEF f
    <2>5. <<f>> = Append(<<>>, f)
      BY <2>3
    <2>6. StackInv(Append(<<>>, f))
      BY <2>3, EmptyStack, Push
    <2> QED BY <2>4, <2>5, <2>6
  <1>2. CASE stack # <<>>
    <2> DEFINE n == Len(stack)
               f == [stack[n] EXCEPT !.pending = msgs, !.called = TRUE]
    <2>1. stack[n] \in FrameType /\ StoreInv(stack[n].saved) /\ n \in DOMAIN stack
      BY <1>2, TopType
    <2>2. f \in FrameType /\ f.saved = stack[n].saved
      BY <2>1 DEF FrameType
    <2>3. stack' = [stack EXCEPT ![n] = f]
      <3>1. stack' = [stack EXCEPT ![n].pending = msgs, ![n].called = TRUE]
        BY <1>2 DEF Respond
      <3>2. stack \in Seq(FrameType)
        BY DEF StackInv
      <3> QED BY <2>1, <3>1, <3>2
    <2> HIDE DEF f
    <2> QED BY <1>2, <2>1, <2>2, <2>3, Replace
  <1> QED BY <1>1, <1>2

\* An error that reaches a reply, or the start of the transaction, leaves a
\* storage and a stack that satisfy the invariant.
LEMMA UnwindKeepsInv ==
    ASSUME IInv, stack # <<>>, Unwind
    PROVE  StoreInv(store') /\ StackInv(stack')
  <1> DEFINE catching == CatchingFrames
  <1>1. StackInv(stack) /\ stack \in Seq(FrameType) /\ Len(stack) \in Nat \ {0}
        /\ DOMAIN stack = 1 .. Len(stack)
    BY TopType DEF IInv, StackInv
  <1>2. CASE catching = {} /\ store' = stack[1].saved /\ stack' = <<>>
    <2>1. StoreInv(stack[1].saved)
      BY <1>1 DEF StackInv
    <2> QED BY <1>2, <2>1, EmptyStack
  <1>3. CASE \E k \in catching :
                 /\ store' = AfterFailureReply(stack[k].saved, stack[k].reply_id)
                 /\ stack' = SubSeq(stack, 1, k - 1)
    <2>1. PICK k \in catching :
                 /\ store' = AfterFailureReply(stack[k].saved, stack[k].reply_id)
                 /\ stack' = SubSeq(stack, 1, k - 1)
      BY <1>3
    <2>2. k \in DOMAIN stack /\ ReplyAccepted(stack[k].saved, stack[k].reply_id)
      BY DEF CatchingFrames
    <2>3. stack[k] \in FrameType /\ StoreInv(stack[k].saved)
      BY <1>1, <2>2 DEF StackInv
    <2>4. stack[k].reply_id \in Nat
      BY <2>3 DEF FrameType
    <2>5. StoreInv(AfterFailureReply(stack[k].saved, stack[k].reply_id))
      BY <2>2, <2>3, <2>4, ReplyKeepsStore
    <2>6. k - 1 \in Nat /\ k - 1 <= Len(stack)
      BY <1>1, <2>2
    <2>7. StackInv(SubSeq(stack, 1, k - 1))
      BY <1>1, <2>6, Pop
    <2> QED BY <2>1, <2>5, <2>7
  <1> QED BY <1>2, <1>3 DEF Unwind

----------------------------------------------------------------------------
(* Every action keeps the invariant *)

\* The proposal a handler loads, and what it may save instead.
LEMMA LoadedType ==
    ASSUME IInv, NEW id \in DOMAIN store.proposals, NEW status \in Status
    PROVE  /\ id \in Nat
           /\ Loaded(id).status \in Status
           /\ Loaded(id).msgs \in MsgLists
           /\ StoreInv([store EXCEPT !.proposals[id] = [Loaded(id) EXCEPT !.status = status]])
  <1> DEFINE p == Loaded(id)
             q == [p EXCEPT !.status = status]
             old == store.proposals[id]
  <1>1. StoreInv(store) /\ store.proposals \in Seq(Proposal(Addr, MsgLists))
    BY ConfigType DEF IInv
  <1>2. id \in Nat /\ old \in Proposal(Addr, MsgLists)
    BY <1>1
  <1>3. /\ p \in Proposal(Addr, MsgLists)
        /\ p.start_height = old.start_height /\ p.votes = old.votes
    <2> HIDE DEF old
    <2> QED BY <1>2, UpdateStatusType DEF Loaded, old
  <1> HIDE DEF p
  <1>4. p.status \in Status /\ p.msgs \in MsgLists
    BY <1>3 DEF Proposal
  <1>5. /\ q \in Proposal(Addr, MsgLists)
        /\ q.start_height = old.start_height /\ q.votes = old.votes
    BY <1>3 DEF Proposal
  <1> HIDE DEF q
  <1>6. StoreInv([store EXCEPT !.proposals[id] = q])
    BY <1>1, <1>5, SaveStatus
  <1> QED BY <1>2, <1>4, <1>6 DEF p, q

\* execute_vote's messages.
LEMMA VoteMsgsType ==
    ASSUME NEW s, StoreInv(s), NEW sender, NEW id \in Nat, NEW vote,
           WithVote(s, sender, id, vote).status \in Status
    PROVE  VoteMsgs(s, sender, id, vote) \in Seq(SubMsg)
  <1>1. /\ proposal_status_changed_hooks(s, id, s.proposals[id].status,
                                         WithVote(s, sender, id, vote).status) \in Seq(SubMsg)
        /\ new_vote_hooks(s) \in Seq(SubMsg)
    BY HookMsgsType
  <1> QED BY <1>1 DEF VoteMsgs

\* execute_propose, with and without the proposer's vote.
LEMMA ProposeKeepsInv ==
    ASSUME IInv, Propose
    PROVE  IInv'
  <1>1. PICK sender \in Peer, proposer \in Peer, msgs \in MsgLists,
             vote \in Vote \cup {"none"}, rationale \in Rationales :
                 execute_propose(sender, proposer, msgs, vote, rationale)
    BY DEF Propose
  <1> DEFINE proposed == AfterPropose(store, msgs)
             id == Len(store.proposals) + 1
  <1>2. StoreInv(store) /\ StackInv(stack) /\ height \in Heights /\ height' = height
    BY <1>1 DEF IInv, execute_propose
  <1>3. StoreInv(proposed)
    BY <1>2, ProposeKeepsStore
  <1>4. id \in Nat
    <2>1. store.proposals \in Seq(Proposal(Addr, MsgLists))
      BY <1>2, ConfigType
    <2> QED BY <2>1
  <1>5. new_proposal_hooks(store, id) \in Seq(SubMsg)
    <2>1. "open" \in Status
      BY DEF Status
    <2> HIDE DEF id
    <2> QED BY <1>2, <1>4, <2>1, HookMsgsType
  <1> HIDE DEF proposed, id
  <1>6. CASE /\ store' = proposed
             /\ Respond(sender, new_proposal_hooks(store, id))
    <2>1. StackInv(stack')
      BY <1>2, <1>5, <1>6, RespondKeepsStack
    <2> QED BY <1>2, <1>3, <1>6, <2>1 DEF IInv
  <1>7. CASE /\ vote # "none"
             /\ CanVote(proposed, proposer, id, vote)
             /\ store' = AfterVote(proposed, proposer, id, vote, rationale)
             /\ Respond(sender, new_proposal_hooks(store, id)
                                \o VoteMsgs(proposed, proposer, id, vote))
    <2>1. vote \in Vote /\ proposer \in Addr
      BY <1>7 DEF Peer
    <2>2. /\ StoreInv(AfterVote(proposed, proposer, id, vote, rationale))
          /\ WithVote(proposed, proposer, id, vote).status \in Status
      BY <1>2, <1>3, <1>7, <2>1, VoteKeepsStore
    <2>3. VoteMsgs(proposed, proposer, id, vote) \in Seq(SubMsg)
      BY <1>3, <1>4, <2>2, VoteMsgsType
    <2>4. new_proposal_hooks(store, id) \o VoteMsgs(proposed, proposer, id, vote)
              \in Seq(SubMsg)
      BY <1>5, <2>3
    <2>5. StackInv(stack')
      BY <1>2, <1>7, <2>4, RespondKeepsStack
    <2> QED BY <1>2, <1>7, <2>2, <2>5 DEF IInv
  <1> QED BY <1>1, <1>6, <1>7 DEF execute_propose, proposed, id

\* execute_vote.
LEMMA CastVoteKeepsInv ==
    ASSUME IInv, CastVote
    PROVE  IInv'
  <1>1. PICK sender \in Peer, id \in DOMAIN store.proposals, vote \in Vote,
             rationale \in Rationales : execute_vote(sender, id, vote, rationale)
    BY DEF CastVote
  <1>2. StoreInv(store) /\ StackInv(stack) /\ height \in Heights /\ height' = height
    BY <1>1 DEF IInv, execute_vote
  <1>3. /\ CanVote(store, sender, id, vote)
        /\ store' = AfterVote(store, sender, id, vote, rationale)
        /\ Respond(sender, VoteMsgs(store, sender, id, vote))
    BY <1>1 DEF execute_vote
  <1>4. id \in Nat
    <2>1. store.proposals \in Seq(Proposal(Addr, MsgLists))
      BY <1>2, ConfigType
    <2> QED BY <2>1
  <1>5. /\ StoreInv(AfterVote(store, sender, id, vote, rationale))
        /\ WithVote(store, sender, id, vote).status \in Status
    <2>1. sender \in Addr
      BY DEF Peer
    <2> QED BY <1>2, <1>3, <2>1, VoteKeepsStore
  <1>6. VoteMsgs(store, sender, id, vote) \in Seq(SubMsg)
    BY <1>2, <1>4, <1>5, VoteMsgsType
  <1>7. StackInv(stack')
    BY <1>2, <1>3, <1>6, RespondKeepsStack
  <1> QED BY <1>2, <1>3, <1>5, <1>7 DEF IInv

\* A changed rationale leaves votes and powers alone.
LEMMA UpdateRationaleKeepsInv ==
    ASSUME IInv, UpdateRationale
    PROVE  IInv'
  <1>1. PICK sender \in Peer, id \in DOMAIN store.proposals, rationale \in Rationales :
            execute_update_rationale(sender, id, rationale)
    BY DEF UpdateRationale
  <1>2. StoreInv(store) /\ StackInv(stack) /\ height \in Heights /\ height' = height
    BY <1>1 DEF IInv, execute_update_rationale
  <1> DEFINE box == store.ballots[id]
             ballot == [box[sender] EXCEPT !.rationale = rationale]
             newbox == [box EXCEPT ![sender] = ballot]
             bs == [store.ballots EXCEPT ![id] = newbox]
  <1>3. /\ store \in Store /\ store.ballots \in Seq([Addr -> Ballot])
        /\ Len(store.ballots) = Len(store.proposals)
        /\ store.proposals \in Seq(Proposal(Addr, MsgLists))
    BY <1>2, ConfigType
  <1>4. id \in DOMAIN store.ballots /\ DOMAIN store.ballots = DOMAIN store.proposals
    BY <1>3
  <1>5. box \in [Addr -> Ballot] /\ sender \in Addr
    BY <1>3, <1>4 DEF Peer
  <1>6. ballot \in Ballot /\ ballot.vote = box[sender].vote /\ ballot.power = box[sender].power
    <2>1. box[sender] \in Ballot
      BY <1>5
    <2> HIDE DEF box
    <2> QED BY <2>1 DEF Ballot
  <1>7. newbox \in [Addr -> Ballot]
        /\ \A a \in Addr : newbox[a].vote = box[a].vote /\ newbox[a].power = box[a].power
    <2> HIDE DEF ballot, box
    <2> QED BY <1>5, <1>6
  <1>8. bs \in Seq([Addr -> Ballot]) /\ Len(bs) = Len(store.ballots)
        /\ DOMAIN bs = DOMAIN store.ballots
    <2> HIDE DEF newbox
    <2> QED BY <1>3, <1>4, <1>7, SeqExcept
  <1>9. \A i \in DOMAIN store.ballots : \A a \in Addr :
            bs[i][a].vote = store.ballots[i][a].vote /\ bs[i][a].power = store.ballots[i][a].power
    <2> HIDE DEF newbox
    <2> QED BY <1>4, <1>7
  <1>10. store' = [store EXCEPT !.ballots = bs]
    BY <1>1, <1>3 DEF execute_update_rationale, Store
  <1> HIDE DEF bs
  <1>11. /\ store' \in Store /\ store'.ballots = bs /\ store'.proposals = store.proposals
         /\ store'.ran = store.ran
    BY <1>3, <1>8, <1>10 DEF Store
  <1>12. StoreOK(store') /\ StartsOK(store')
    BY <1>2, <1>8, <1>11 DEF StoreInv, StoreOK, StartsOK
  <1>13. TalliesOK(store')
    <2>1. \A i \in DOMAIN store.ballots : \A o \in Vote :
              Supporters(bs[i], o) = Supporters(store.ballots[i], o)
      BY <1>9 DEF Supporters
    <2> QED BY <1>2, <1>4, <1>11, <2>1 DEF StoreInv, TalliesOK
  <1>14. BallotsOK(store')
    BY <1>2, <1>4, <1>9, <1>11 DEF StoreInv, BallotsOK
  <1>15. StackInv(stack')
    <2>1. <<>> \in Seq(SubMsg) /\ Respond(sender, <<>>)
      BY <1>1 DEF execute_update_rationale
    <2> QED BY <1>2, <2>1, RespondKeepsStack
  <1> QED BY <1>2, <1>12, <1>13, <1>14, <1>15 DEF IInv, StoreInv

\* execute_veto.
LEMMA VetoKeepsInv ==
    ASSUME IInv, Veto
    PROVE  IInv'
  <1>1. PICK sender \in Peer, id \in DOMAIN store.proposals : execute_veto(sender, id)
    BY DEF Veto
  <1>2. StoreInv(store) /\ StackInv(stack) /\ height \in Heights /\ height' = height
    BY <1>1 DEF IInv, execute_veto
  <1>3. /\ store' = [store EXCEPT !.proposals[id] = [Loaded(id) EXCEPT !.status = "vetoed"]]
        /\ Respond(sender, CompletionHooks(store, id, Loaded(id).status, "vetoed"))
    BY <1>1 DEF execute_veto
  <1>4. "vetoed" \in Status
    BY DEF Status
  <1>5. StoreInv(store') /\ id \in Nat
    BY <1>3, <1>4, LoadedType
  <1>6. CompletionHooks(store, id, Loaded(id).status, "vetoed") \in Seq(SubMsg)
    BY <1>2, <1>4, <1>5, HookMsgsType
  <1>7. StackInv(stack')
    BY <1>2, <1>3, <1>6, RespondKeepsStack
  <1> QED BY <1>2, <1>5, <1>7 DEF IInv

\* execute_execute.
LEMMA ExecuteKeepsInv ==
    ASSUME IInv, NEW id \in DOMAIN store.proposals, Execute(id)
    PROVE  IInv'
  <1>1. PICK sender \in Peer : execute_execute(sender, id)
    BY DEF Execute
  <1>2. StoreInv(store) /\ StackInv(stack) /\ height \in Heights /\ height' = height
    BY <1>1 DEF IInv, execute_execute
  <1>3. /\ store' = [store EXCEPT !.proposals[id] = [Loaded(id) EXCEPT !.status = "executed"]]
        /\ Respond(sender, ExecutionMsgs(id, Loaded(id))
                           \o CompletionHooks(store, id, Loaded(id).status, "executed"))
    BY <1>1 DEF execute_execute
  <1>4. "executed" \in Status
    BY DEF Status
  <1>5. StoreInv(store') /\ id \in Nat /\ Loaded(id).msgs \in MsgLists
    BY <1>3, <1>4, LoadedType
  <1>6. CompletionHooks(store, id, Loaded(id).status, "executed") \in Seq(SubMsg)
    BY <1>2, <1>4, <1>5, HookMsgsType
  <1>7. ExecutionMsgs(id, Loaded(id)) \in Seq(SubMsg)
    BY <1>5, ExecutionMsgsType
  <1>8. StackInv(stack')
    <2>1. ExecutionMsgs(id, Loaded(id))
          \o CompletionHooks(store, id, Loaded(id).status, "executed") \in Seq(SubMsg)
      BY <1>6, <1>7
    <2> QED BY <1>2, <1>3, <2>1, RespondKeepsStack
  <1> QED BY <1>2, <1>5, <1>8 DEF IInv

\* execute_close.
LEMMA CloseKeepsInv ==
    ASSUME IInv, NEW id \in DOMAIN store.proposals, Close(id)
    PROVE  IInv'
  <1>1. PICK sender \in Peer : execute_close(sender, id)
    BY DEF Close
  <1>2. StoreInv(store) /\ StackInv(stack) /\ height \in Heights /\ height' = height
    BY <1>1 DEF IInv, execute_close
  <1>3. /\ store' = [store EXCEPT !.proposals[id] = [Loaded(id) EXCEPT !.status = "closed"]]
        /\ Respond(sender, CompletionHooks(store, id, "rejected", "closed"))
    BY <1>1 DEF execute_close
  <1>4. "closed" \in Status
    BY DEF Status
  <1>5. StoreInv(store') /\ id \in Nat
    BY <1>3, <1>4, LoadedType
  <1>6. CompletionHooks(store, id, "rejected", "closed") \in Seq(SubMsg)
    BY <1>2, <1>4, <1>5, HookMsgsType
  <1>7. StackInv(stack')
    BY <1>2, <1>3, <1>6, RespondKeepsStack
  <1> QED BY <1>2, <1>5, <1>7 DEF IInv

\* A call of the DAO from another module's transaction.
LEMMA DaoCallKeepsInv ==
    ASSUME IInv, NEW call \in DaoCalls, DaoCall(call)
    PROVE  IInv'
  <1>1. call \in DaoRequest /\ Dao \in Peer
    BY MsgAssumption, AddrAssumption
  <1>2. StoreInv(store) /\ StackInv(stack) /\ height \in Heights /\ height' = height
    BY DEF IInv, DaoCall
  <1>3. /\ DaoCallAccepted(store, call)
        /\ store' = AfterDaoCall(store, call)
        /\ Respond(Dao, DaoCallMsgs(call))
    BY DEF DaoCall
  <1>4. StoreInv(store')
    BY <1>1, <1>2, <1>3, DaoCallKeepsStore
  <1>5. StackInv(stack')
    <2>1. DaoCallMsgs(call) \in Seq(SubMsg)
      BY <1>1, DaoCallMsgsType
    <2> QED BY <1>1, <1>2, <1>3, <2>1, RespondKeepsStack
  <1> QED BY <1>2, <1>4, <1>5 DEF IInv

\* The message that runs next, and the stack without it.
LEMMA NextMsgType ==
    ASSUME IInv, Running, Top.pending # <<>>
    PROVE  /\ NextMsg \in SubMsg
           /\ Tail(Top.pending) \in Seq(SubMsg)
           /\ \A msgs \in Seq(SubMsg) :
                  StackInv([stack EXCEPT ![Len(stack)].pending = msgs])
           /\ Top = stack[Len(stack)]
  <1>1. StackInv(stack) /\ stack # <<>>
    BY DEF IInv, Running
  <1>2. Top = stack[Len(stack)] /\ Top \in FrameType /\ StoreInv(Top.saved)
        /\ Len(stack) \in DOMAIN stack
    BY <1>1, TopType DEF Top
  <1>3. Top.pending \in Seq(SubMsg)
    BY <1>2 DEF FrameType
  <1>4. NextMsg \in SubMsg /\ Tail(Top.pending) \in Seq(SubMsg)
    BY <1>3 DEF NextMsg
  <1>5. ASSUME NEW msgs \in Seq(SubMsg)
        PROVE  StackInv([stack EXCEPT ![Len(stack)].pending = msgs])
    <2> DEFINE f == [Top EXCEPT !.pending = msgs]
    <2>1. f \in FrameType /\ f.saved = Top.saved
      BY <1>2 DEF FrameType
    <2>2. [stack EXCEPT ![Len(stack)].pending = msgs] = [stack EXCEPT ![Len(stack)] = f]
      BY <1>2
    <2> HIDE DEF f
    <2>3. StackInv([stack EXCEPT ![Len(stack)] = f])
      BY <1>1, <1>2, <2>1, Replace
    <2> QED BY <2>2, <2>3
  <1> QED BY <1>2, <1>4, <1>5

\* A message is delivered to another contract.
LEMMA DispatchKeepsInv ==
    ASSUME IInv, Dispatch
    PROVE  IInv'
  <1> DEFINE m == NextMsg
             execution == m.body.kind = "execute_proposal_hook"
             sent == IF execution THEN ProposalMsgs(m.body.msgs) ELSE <<>>
             f == Frame(m, store, sent, FALSE)
  <1>1. Running /\ Top.pending # <<>> /\ height' = height
        /\ StoreInv(store) /\ StackInv(stack) /\ height \in Heights
    BY DEF Dispatch, IInv
  <1>2. /\ m \in SubMsg /\ Tail(Top.pending) \in Seq(SubMsg)
        /\ StackInv([stack EXCEPT ![Len(stack)].pending = Tail(Top.pending)])
        /\ Top = stack[Len(stack)]
    BY <1>1, NextMsgType
  <1>3. StackInv(Advance(stack))
    <2>1. Advance(stack) = [stack EXCEPT ![Len(stack)].pending = Tail(Top.pending)]
      BY <1>2 DEF Advance
    <2> QED BY <1>2, <2>1
  <1>4. m.to # Self
    BY DEF Dispatch, IsDaoCall
  <1>5. m.to \in Peer /\ m.body \in Body /\ m.reply_id \in Nat
        /\ m.reply_on \in {"never", "error", "success"}
    BY <1>2, <1>4 DEF SubMsg, Peer
  <1>6. sent \in Seq(SubMsg)
    <2>1. CASE execution
      <3>1. m.body.msgs \in MsgLists
        BY <1>5, <2>1 DEF Body, DaoMsg
      <3> QED BY <2>1, <3>1, ProposalMsgsType
    <2>2. CASE ~execution
      BY <2>2
    <2> QED BY <2>1, <2>2
  <1>7. store \in Store
    BY <1>1, ConfigType
  <1>8. f \in FrameType /\ f.saved = store
    <2> HIDE DEF sent, m
    <2> QED BY <1>5, <1>6, <1>7 DEF FrameType, Frame
  <1>9. stack' = Append(Advance(stack), f)
    BY DEF Dispatch
  <1>10. StackInv(stack')
    <2> HIDE DEF f
    <2> QED BY <1>1, <1>3, <1>8, <1>9, Push
  <1>11. StoreInv(store')
    <2>1. StoreInv([store EXCEPT !.ran[m.body.id] = @ + 1])
      BY <1>1, SaveRan
    <2> QED BY <1>1, <2>1 DEF Dispatch
  <1> QED BY <1>1, <1>10, <1>11 DEF IInv

\* A message of the DAO is handled, or refused.
LEMMA DispatchDaoCallKeepsInv ==
    ASSUME IInv, DispatchDaoCall
    PROVE  IInv'
  <1> DEFINE call == NextMsg.body
             msgs == DaoCallMsgs(call) \o Tail(Top.pending)
  <1>1. Running /\ Top.pending # <<>> /\ height' = height /\ NextMsg.to = Self
        /\ StoreInv(store) /\ StackInv(stack) /\ height \in Heights
    BY DEF DispatchDaoCall, IInv, IsDaoCall
  <1>2. NextMsg \in SubMsg /\ Tail(Top.pending) \in Seq(SubMsg) /\ Top = stack[Len(stack)]
    BY <1>1, NextMsgType
  <1>3. call \in DaoRequest
    BY <1>1, <1>2 DEF SubMsg
  <1>4. CASE /\ DaoCallAccepted(store, call)
             /\ store' = AfterDaoCall(store, call)
             /\ stack' = [stack EXCEPT ![Len(stack)].pending = DaoCallMsgs(call) \o Tail(@)]
    <2>1. StoreInv(store')
      BY <1>1, <1>3, <1>4, DaoCallKeepsStore
    <2>2. msgs \in Seq(SubMsg)
      BY <1>2, <1>3, DaoCallMsgsType
    <2>3. stack' = [stack EXCEPT ![Len(stack)].pending = msgs]
      BY <1>2, <1>4
    <2> HIDE DEF msgs
    <2>4. StackInv([stack EXCEPT ![Len(stack)].pending = msgs])
      BY <1>1, <2>2, NextMsgType
    <2> QED BY <1>1, <2>1, <2>3, <2>4 DEF IInv
  <1>5. CASE Unwind
    <2>1. StoreInv(store') /\ StackInv(stack')
      BY <1>1, <1>5, UnwindKeepsInv DEF Running
    <2> QED BY <1>1, <2>1 DEF IInv
  <1> QED BY <1>4, <1>5 DEF DispatchDaoCall

\* A call ends well.
LEMMA ReturnKeepsInv ==
    ASSUME IInv, Return
    PROVE  IInv'
  <1>1. stack # <<>> /\ height' = height
        /\ StoreInv(store) /\ StackInv(stack) /\ height \in Heights
    BY DEF Return, IInv, Running
  <1>2. Top \in FrameType /\ Len(stack) \in Nat \ {0}
    BY <1>1, TopType DEF Top
  <1>3. StackInv(stack')
    <2>1. stack' = SubSeq(stack, 1, Len(stack) - 1)
      BY DEF Return, Front
    <2>2. Len(stack) - 1 \in Nat /\ Len(stack) - 1 <= Len(stack)
      BY <1>2
    <2> QED BY <1>1, <2>1, <2>2, Pop
  <1>4. StoreInv(AfterInstantiateReply(store, Top.to))
    <2>1. Module(Top.to) \in Policy
      BY <1>2 DEF FrameType, Module, Policy
    <2> QED BY <1>1, <2>1, SavePolicy DEF AfterInstantiateReply
  <1> QED BY <1>1, <1>3, <1>4 DEF IInv, Return

\* A call fails.
LEMMA RaiseKeepsInv ==
    ASSUME IInv, Raise
    PROVE  IInv'
  <1>1. stack # <<>> /\ height' = height /\ height \in Heights /\ Unwind
    BY DEF Raise, IInv, Running
  <1>2. StoreInv(store') /\ StackInv(stack')
    BY <1>1, UnwindKeepsInv
  <1> QED BY <1>1, <1>2 DEF IInv

----------------------------------------------------------------------------
(* The invariant holds in every reachable state *)

\* The invariant holds after instantiate.
LEMMA InitIInv == Init => IInv
  <1> SUFFICES ASSUME Init PROVE IInv
    OBVIOUS
  <1>1. PICK c \in Configs, policy \in {Anyone} \cup {Module(m) : m \in Modules} :
            store = [config |-> c, proposals |-> <<>>, ballots |-> <<>>,
                     policy |-> policy, proposal_hooks |-> <<>>,
                     vote_hooks |-> <<>>, ran |-> <<>>]
    BY DEF Init
  <1>2. c \in Config
    BY ConfigAssumption
  <1>3. policy \in Policy
    BY AddrAssumption DEF Policy, Module
  <1>4. store \in Store
    BY <1>1, <1>2, <1>3 DEF Store
  <1>5. store.proposals = <<>> /\ store.ballots = <<>> /\ store.ran = <<>>
    BY <1>1
  <1>6. StoreInv(store)
    BY <1>4, <1>5 DEF StoreInv, StoreOK, StartsOK, TalliesOK, BallotsOK
  <1>7. height \in Heights /\ StackInv(stack)
    BY BoundAssumption, EmptyStack DEF Init, Heights
  <1> QED BY <1>6, <1>7 DEF IInv

\* Every step keeps the invariant.
LEMMA NextIInv == IInv /\ [Next]_vars => IInv'
  <1> SUFFICES ASSUME IInv, [Next]_vars PROVE IInv'
    OBVIOUS
  <1>1. CASE Propose
    BY <1>1, ProposeKeepsInv
  <1>2. CASE CastVote
    BY <1>2, CastVoteKeepsInv
  <1>3. CASE UpdateRationale
    BY <1>3, UpdateRationaleKeepsInv
  <1>4. CASE Veto
    BY <1>4, VetoKeepsInv
  <1>5. ASSUME NEW id \in DOMAIN store.proposals, Execute(id)
        PROVE  IInv'
    BY <1>5, ExecuteKeepsInv
  <1>6. ASSUME NEW id \in DOMAIN store.proposals, Close(id)
        PROVE  IInv'
    BY <1>6, CloseKeepsInv
  <1>7. ASSUME NEW call \in DaoCalls, DaoCall(call)
        PROVE  IInv'
    BY <1>7, DaoCallKeepsInv
  <1>8. CASE TransactionStep
    BY <1>8, DispatchKeepsInv, DispatchDaoCallKeepsInv, ReturnKeepsInv, RaiseKeepsInv
    DEF TransactionStep
  <1>9. CASE Tick
    BY <1>9, BoundAssumption DEF Tick, IInv, Heights
  <1>10. CASE UNCHANGED vars
    BY <1>10 DEF vars, IInv
  <1> QED BY <1>1, <1>2, <1>3, <1>4, <1>5, <1>6, <1>7, <1>8, <1>9, <1>10 DEF Next

\* The invariant holds in every reachable state.
LEMMA InvariantHolds == Spec => []IInv
  BY InitIInv, NextIInv, PTL DEF Spec

\* The type invariant: through every interleaving of handlers, replies and
\* rollbacks the storage, the saved storages and the running calls have their
\* types.  In particular Votes::remove_vote never subtracts below zero.
THEOREM TypeCorrect == Spec => []TypeOK
  <1>1. IInv => TypeOK
    BY DEF IInv, StackInv, StoreInv, TypeOK
  <1> QED BY <1>1, InvariantHolds, PTL

\* The tallies execute_vote keeps are the power of the ballots that are stored,
\* for every voting module whose powers add up.
THEOREM TalliesCorrect == Spec => []TalliesMatchBallots
  <1>1. IInv => TalliesMatchBallots
    BY DEF IInv, StoreInv, TalliesMatchBallots
  <1> QED BY <1>1, InvariantHolds, PTL

----------------------------------------------------------------------------
(***************************************************************************)
(* ProposalSingle implements ProposalLifecycle, runs a proposal's messages *)
(* once, respects the veto timelock and reports only statuses a proposal   *)
(* has reached, for every value of the constants.                          *)
(*                                                                         *)
(* What makes this hard is that a failed call brings an older storage      *)
(* back.  The inductive invariant VInv therefore orders the storages a     *)
(* running transaction keeps: each saved storage is an earlier version of  *)
(* the ones saved above it and of the current one, an execution that is    *)
(* due or running belongs to a proposal that no earlier version has        *)
(* executed, and what the messages of a frame report holds in every later  *)
(* version.                                                                *)
(***************************************************************************)

----------------------------------------------------------------------------
(* The inductive invariant *)

\* Storage t is storage s after further calls of the same transaction.
Follows(s, t) ==
    \A id \in DOMAIN s.proposals :
        /\ id \in DOMAIN t.proposals
        /\ t.proposals[id].status \in Lifecycle!Later(s.proposals[id].status)

\* A proposal's messages run once, and only when it is executed.
Counted(s) ==
    \A id \in DOMAIN s.proposals :
        /\ s.ran[id] <= 1
        /\ s.ran[id] = 1 => s.proposals[id].status = "executed"

\* A proposal that is saved as passed is past its timelock.
Unlocked(s, now) ==
    \A id \in DOMAIN s.proposals :
        (s.proposals[id].status = "passed" /\ s.proposals[id].veto.kind = "veto")
            => is_expired(timelock_expiration(s.proposals[id]), now)

\* Executed proposals, other than those in due, have run.
Settled(s, due) ==
    \A id \in DOMAIN s.proposals \ due :
        (s.proposals[id].status = "executed" /\ s.proposals[id].msgs # <<>>)
            => s.ran[id] = 1

Sound(s, now, due) == Counted(s) /\ Unlocked(s, now) /\ Settled(s, due)

\* The messages of proposal id are to run from storage s.
IsDue(s, id) ==
    /\ id \in DOMAIN s.proposals
    /\ s.proposals[id].status = "executed"
    /\ s.ran[id] = 0

NotExecuted(s, id) ==
    id \in DOMAIN s.proposals => s.proposals[id].status # "executed"

\* From storage s to storage t only the proposals in ids are executed.
Executes(s, t, ids) ==
    \A id \in DOMAIN s.proposals \cap DOMAIN t.proposals :
        (t.proposals[id].status = "executed" /\ s.proposals[id].status # "executed")
            => id \in ids

\* m, a message or a frame, has the DAO run a proposal.
IsExecution(m) == m.body.kind = "execute_proposal_hook"

NoExecution(msgs) == \A i \in DOMAIN msgs : ~IsExecution(msgs[i])

\* If its failure is replied to, exactly an execution is tagged as one.
TaggedOK(m) ==
    m.reply_on = "error" =>
        /\ IsExecution(m) <=> reply_type(m.reply_id) = FAILED_PROPOSAL_EXECUTION_MASK
        /\ IsExecution(m) => id_after_shift(m.reply_id) = m.body.id

ReachableFrom(status) ==
    Lifecycle!Later(status)
        \cup (IF status = "executed" THEN {"execution_failed"} ELSE {})

\* If body reports a status, the proposal has it in storage s, or had it.
Reached(s, body) ==
    body.kind \in {"status_changed", "completed"} =>
        /\ body.id \in DOMAIN s.proposals
        /\ s.proposals[body.id].status \in ReachableFrom(body.status)

\* What frame f has been told and will tell holds in storage s.
Reported(f, s) ==
    /\ Reached(s, f.body)
    /\ \A i \in DOMAIN f.pending : Reached(s, f.pending[i].body)

\* Storage s is a later version of what frame f has seen.
LaterVersion(f, s) == Follows(f.saved, s) /\ Reported(f, s)

\* The proposal whose messages frame f runs.
DueIds(f) == IF IsExecution(f) THEN {f.body.id} ELSE {}

\* A frame by itself.
FrameOK(f, now) ==
    /\ TaggedOK(f)
    /\ \A i \in DOMAIN f.pending : TaggedOK(f.pending[i])
    /\ Sound(f.saved, now, DueIds(f))
    /\ ~f.called => NoExecution(f.pending)

\* The frames of a stack, bottom first.
FramesOK(st, now) ==
    \A k \in DOMAIN st :
        /\ FrameOK(st[k], now)
        /\ k = 1 => st[k].reply_on = "never" /\ ~IsExecution(st[k])
        /\ k < Len(st) => NoExecution(st[k].pending)

\* The storages a stack has saved are versions of one another.
VersionsOK(st) ==
    \A k \in DOMAIN st :
        /\ IsExecution(st[k]) => IsDue(st[k].saved, st[k].body.id)
        /\ \A j \in 1 .. k - 1 :
               /\ LaterVersion(st[j], st[k].saved)
               /\ IsExecution(st[k]) => NotExecuted(st[j].saved, st[k].body.id)

\* The current storage is the latest version.
CurrentOK(st, s) == \A k \in DOMAIN st : LaterVersion(st[k], s)

\* The only execution that has not started is the next message to run, and
\* nothing but its proposal awaits its messages.
Awaits(msgs, st, s, now) ==
    IF NoExecution(msgs)
    THEN Sound(s, now, {})
    ELSE /\ IsExecution(msgs[1])
         /\ NoExecution(Tail(msgs))
         /\ Sound(s, now, {msgs[1].body.id})
         /\ IsDue(s, msgs[1].body.id)
         /\ \A k \in DOMAIN st : NotExecuted(st[k].saved, msgs[1].body.id)

DueOK(st, s, now) ==
    IF st = <<>> THEN Sound(s, now, {}) ELSE Awaits(Last(st).pending, st, s, now)

\* The versions a transaction keeps.
History(st, s, now) == FramesOK(st, now) /\ VersionsOK(st) /\ CurrentOK(st, s)

VInv == History(stack, store, height) /\ DueOK(stack, store, height)

----------------------------------------------------------------------------
(* The order of statuses *)

\* Later, status by status.
LEMMA LaterValues ==
    /\ Lifecycle!Later("open") = Status
    /\ Lifecycle!Later("veto_timelock") =
           {"veto_timelock", "passed", "executed", "execution_failed", "vetoed"}
    /\ Lifecycle!Later("passed") = {"passed", "executed", "execution_failed"}
    /\ Lifecycle!Later("rejected") = {"rejected", "closed"}
    /\ \A x \in {"executed", "closed", "execution_failed", "vetoed"} :
           Lifecycle!Later(x) = {x}
  <1> USE DEF Lifecycle!Later, Lifecycle!Final, Status
  <1>1. Lifecycle!Later("open") = Status
    OBVIOUS
  <1>2. Lifecycle!Later("veto_timelock") =
            {"veto_timelock", "passed", "executed", "execution_failed", "vetoed"}
    OBVIOUS
  <1>3. Lifecycle!Later("passed") = {"passed", "executed", "execution_failed"}
    OBVIOUS
  <1>4. Lifecycle!Later("rejected") = {"rejected", "closed"}
    OBVIOUS
  <1>5. \A x \in {"executed", "closed", "execution_failed", "vetoed"} :
            Lifecycle!Later(x) = {x}
    OBVIOUS
  <1> QED BY <1>1, <1>2, <1>3, <1>4, <1>5

\* The order is reflexive and transitive, and what an execution that fails does
\* to it.
LEMMA LaterOrder ==
    ASSUME NEW x \in Status
    PROVE  /\ x \in Lifecycle!Later(x)
           /\ \A y \in Lifecycle!Later(x) :
                  y \in Status /\ Lifecycle!Later(y) \subseteq Lifecycle!Later(x)
           /\ ("executed" \in Lifecycle!Later(x) /\ x # "executed")
                  => "execution_failed" \in Lifecycle!Later(x)
  <1>1. CASE x = "open"
    BY <1>1, LaterValues DEF Status
  <1>2. CASE x = "veto_timelock"
    BY <1>2, LaterValues DEF Status
  <1>3. CASE x = "passed"
    BY <1>3, LaterValues DEF Status
  <1>4. CASE x = "rejected"
    BY <1>4, LaterValues DEF Status
  <1>5. CASE x \in {"executed", "closed", "execution_failed", "vetoed"}
    BY <1>5, LaterValues DEF Status
  <1> QED BY <1>1, <1>2, <1>3, <1>4, <1>5 DEF Status

\* What can be reached from a status that was reported.
LEMMA ReachableOrder ==
    ASSUME NEW x \in Status
    PROVE  /\ x \in ReachableFrom(x)
           /\ \A y \in ReachableFrom(x) :
                  y \in Status /\ Lifecycle!Later(y) \subseteq ReachableFrom(x)
           /\ "executed" \in ReachableFrom(x) => "execution_failed" \in ReachableFrom(x)
  <1>1. CASE x = "executed"
    BY <1>1, LaterValues DEF Status, ReachableFrom
  <1>2. CASE x # "executed"
    BY <1>2, LaterOrder DEF ReachableFrom
  <1> QED BY <1>1, <1>2

\* current_status only moves a status on, completes nothing, and does not let a
\* proposal pass before its timelock is over.
LEMMA CurrentStatusLater ==
    ASSUME NEW p, p.status \in Status, NEW now
    PROVE  /\ current_status(p, now) \in Lifecycle!Later(p.status)
           /\ current_status(p, now) = "executed" <=> p.status = "executed"
           /\ (current_status(p, now) = "passed" /\ p.veto.kind = "veto")
                  => p.status = "passed" \/ is_expired(timelock_expiration(p), now)
  <1>1. CASE p.status = "open" /\ is_passed(p, now)
    BY <1>1, LaterValues DEF current_status, Status
  <1>2. CASE p.status = "open" /\ ~is_passed(p, now)
    BY <1>2, LaterValues DEF current_status, Status
  <1>3. CASE p.status = "veto_timelock"
    BY <1>3, LaterValues DEF current_status
  <1>4. CASE p.status \notin {"open", "veto_timelock"}
    <2>1. current_status(p, now) = p.status
      BY <1>4 DEF current_status
    <2> QED BY <2>1, LaterOrder
  <1> QED BY <1>1, <1>2, <1>3, <1>4

----------------------------------------------------------------------------
(* Versions of the storage *)

\* The statuses of a storage's proposals.
LEMMA StatusType ==
    ASSUME NEW s, StoreInv(s)
    PROVE  /\ \A id \in DOMAIN s.proposals :
                  /\ s.proposals[id] \in Proposal(Addr, MsgLists)
                  /\ s.proposals[id].status \in Status
                  /\ s.proposals[id].msgs \in MsgLists
                  /\ id \in DOMAIN s.ran /\ s.ran[id] \in Nat
                  /\ id \in Nat
           /\ DOMAIN s.proposals = 1 .. Len(s.proposals)
           /\ DOMAIN s.ran = DOMAIN s.proposals
  <1>1. /\ s.proposals \in Seq(Proposal(Addr, MsgLists)) /\ s.ran \in Seq(Nat)
        /\ Len(s.ran) = Len(s.proposals)
    BY ConfigType
  <1>2. \A id \in DOMAIN s.proposals : s.proposals[id] \in Proposal(Addr, MsgLists)
    BY <1>1
  <1>3. \A p \in Proposal(Addr, MsgLists) : p.status \in Status /\ p.msgs \in MsgLists
    BY DEF Proposal
  <1>4. DOMAIN s.ran = DOMAIN s.proposals /\ DOMAIN s.proposals = 1 .. Len(s.proposals)
    BY <1>1
  <1>5. \A id \in DOMAIN s.ran : s.ran[id] \in Nat /\ id \in Nat
    BY <1>1
  <1> QED BY <1>2, <1>3, <1>4, <1>5

\* A storage is a version of itself, and versions of versions are versions.
LEMMA FollowsOrder ==
    ASSUME NEW s, StoreInv(s)
    PROVE  /\ Follows(s, s)
           /\ \A t, u : Follows(s, t) /\ Follows(t, u) => Follows(s, u)
  <1>1. Follows(s, s)
    BY StatusType, LaterOrder DEF Follows
  <1>2. ASSUME NEW t, NEW u, Follows(s, t), Follows(t, u)
        PROVE  Follows(s, u)
    <2> SUFFICES ASSUME NEW id \in DOMAIN s.proposals
                 PROVE  /\ id \in DOMAIN u.proposals
                        /\ u.proposals[id].status \in Lifecycle!Later(s.proposals[id].status)
      BY DEF Follows
    <2>1. /\ id \in DOMAIN t.proposals
          /\ t.proposals[id].status \in Lifecycle!Later(s.proposals[id].status)
      BY <1>2 DEF Follows
    <2>2. /\ id \in DOMAIN u.proposals
          /\ u.proposals[id].status \in Lifecycle!Later(t.proposals[id].status)
      BY <1>2, <2>1 DEF Follows
    <2>3. s.proposals[id].status \in Status
      BY StatusType
    <2> QED BY <2>1, <2>2, <2>3, LaterOrder
  <1> QED BY <1>1, <1>2

\* What was reached in a storage is reached in its later versions.
LEMMA ReachedLater ==
    ASSUME NEW body \in Body, NEW s, NEW t, Reached(s, body), Follows(s, t)
    PROVE  Reached(t, body)
  <1> SUFFICES ASSUME body.kind \in {"status_changed", "completed"}
               PROVE  /\ body.id \in DOMAIN t.proposals
                      /\ t.proposals[body.id].status \in ReachableFrom(body.status)
    BY DEF Reached
  <1>1. /\ body.id \in DOMAIN s.proposals
        /\ s.proposals[body.id].status \in ReachableFrom(body.status)
    BY DEF Reached
  <1>2. /\ body.id \in DOMAIN t.proposals
        /\ t.proposals[body.id].status \in Lifecycle!Later(s.proposals[body.id].status)
    BY <1>1 DEF Follows
  <1>3. body.status \in Status
    BY DEF Body, DaoMsg
  <1> QED BY <1>1, <1>2, <1>3, ReachableOrder

\* So is what a frame reports, and the storage it has saved.
LEMMA LaterVersions ==
    ASSUME NEW f \in FrameType, StoreInv(f.saved), NEW s, NEW t,
           LaterVersion(f, s), Follows(s, t)
    PROVE  LaterVersion(f, t)
  <1>1. f.body \in Body /\ \A i \in DOMAIN f.pending : f.pending[i].body \in Body
    BY DEF FrameType, SubMsg
  <1>2. Follows(f.saved, t)
    BY FollowsOrder DEF LaterVersion
  <1>3. Reached(t, f.body)
    BY <1>1, ReachedLater DEF LaterVersion, Reported
  <1>4. \A i \in DOMAIN f.pending : Reached(t, f.pending[i].body)
    BY <1>1, ReachedLater DEF LaterVersion, Reported
  <1> QED BY <1>2, <1>3, <1>4 DEF LaterVersion, Reported

\* A proposal that a later version has not executed is not executed earlier.
LEMMA NotExecutedBefore ==
    ASSUME NEW s, StoreInv(s), NEW t, Follows(s, t), NEW id, NotExecuted(t, id)
    PROVE  NotExecuted(s, id)
  <1>1. ASSUME id \in DOMAIN s.proposals, s.proposals[id].status = "executed"
        PROVE  FALSE
    <2>1. id \in DOMAIN t.proposals
          /\ t.proposals[id].status \in Lifecycle!Later("executed")
      BY <1>1 DEF Follows
    <2> QED BY <2>1, LaterValues DEF NotExecuted
  <1> QED BY <1>1 DEF NotExecuted

\* Changes to other parts of the storage.
LEMMA SameProposals ==
    ASSUME NEW s, StoreInv(s), NEW t, t.proposals = s.proposals, t.ran = s.ran
    PROVE  /\ Follows(s, t)
           /\ \A now, due : Sound(s, now, due) => Sound(t, now, due)
           /\ \A id : IsDue(s, id) => IsDue(t, id)
  <1>1. Follows(s, t)
    BY FollowsOrder DEF Follows
  <1> QED BY <1>1 DEF Sound, Counted, Unlocked, Settled, IsDue

----------------------------------------------------------------------------
(* The stack *)

\* The topmost frame gets other messages to run, while the storage moves on.
LEMMA ReplaceTop ==
    ASSUME NEW st, StackInv(st), st # <<>>, NEW s, NEW now, History(st, s, now),
           NEW t, Follows(s, t), NEW f \in FrameType,
           f.saved = st[Len(st)].saved, f.body = st[Len(st)].body,
           f.reply_on = st[Len(st)].reply_on, f.reply_id = st[Len(st)].reply_id,
           \A i \in DOMAIN f.pending : TaggedOK(f.pending[i]) /\ Reached(t, f.pending[i].body),
           ~f.called => NoExecution(f.pending)
    PROVE  /\ History([st EXCEPT ![Len(st)] = f], t, now)
           /\ Awaits(f.pending, st, t, now) => DueOK([st EXCEPT ![Len(st)] = f], t, now)
  <1> DEFINE n == Len(st)
             new == [st EXCEPT ![n] = f]
  <1>1. /\ st \in Seq(FrameType) /\ n \in DOMAIN st /\ n \in Nat \ {0}
        /\ st[n] \in FrameType /\ DOMAIN st = 1 .. n
    BY TopType DEF StackInv
  <1>3. /\ DOMAIN new = DOMAIN st /\ Len(new) = n
        /\ \A k \in DOMAIN st : k # n => new[k] = st[k]
        /\ new[n] = f
    BY <1>1
  <1>4. \A k \in DOMAIN st :
            /\ new[k].saved = st[k].saved /\ new[k].body = st[k].body
            /\ new[k].reply_on = st[k].reply_on /\ new[k].reply_id = st[k].reply_id
    BY <1>3
  <1>e. new # <<>> /\ Last(new) = f
    BY <1>1, <1>3 DEF Last
  <1> HIDE DEF new
  <1>5. FramesOK(new, now)
    <2> SUFFICES ASSUME NEW k \in DOMAIN st
                 PROVE  /\ FrameOK(new[k], now)
                        /\ k = 1 => new[k].reply_on = "never" /\ ~IsExecution(new[k])
                        /\ k < n => NoExecution(new[k].pending)
      BY <1>3 DEF FramesOK
    <2>1. /\ FrameOK(st[k], now)
          /\ k = 1 => st[k].reply_on = "never" /\ ~IsExecution(st[k])
          /\ k < n => NoExecution(st[k].pending)
      BY DEF History, FramesOK
    <2>2. CASE k = n
      <3>1. FrameOK(f, now)
        BY <2>1, <2>2 DEF FrameOK, TaggedOK, IsExecution, DueIds
      <3>2. new[k] = f /\ ~(k < n)
        BY <1>1, <1>3, <2>2
      <3> QED BY <2>1, <2>2, <3>1, <3>2 DEF IsExecution
    <2>3. CASE k # n
      BY <1>3, <2>1, <2>3
    <2> QED BY <2>2, <2>3
  <1>6. VersionsOK(new)
    <2> SUFFICES ASSUME NEW k \in DOMAIN st
                 PROVE  /\ IsExecution(new[k]) => IsDue(new[k].saved, new[k].body.id)
                        /\ \A j \in 1 .. k - 1 :
                               /\ LaterVersion(new[j], new[k].saved)
                               /\ IsExecution(new[k]) => NotExecuted(new[j].saved, new[k].body.id)
      BY <1>3 DEF VersionsOK
    <2>1. /\ IsExecution(st[k]) => IsDue(st[k].saved, st[k].body.id)
          /\ \A j \in 1 .. k - 1 :
                 /\ LaterVersion(st[j], st[k].saved)
                 /\ IsExecution(st[k]) => NotExecuted(st[j].saved, st[k].body.id)
      BY DEF History, VersionsOK
    <2>2. \A j \in 1 .. k - 1 : new[j] = st[j]
      BY <1>1, <1>3
    <2> QED BY <1>4, <2>1, <2>2 DEF IsExecution
  <1>7. CurrentOK(new, t)
    <2> SUFFICES ASSUME NEW k \in DOMAIN st PROVE LaterVersion(new[k], t)
      BY <1>3 DEF CurrentOK
    <2>1. LaterVersion(st[k], t)
      <3>1. st[k] \in FrameType /\ StoreInv(st[k].saved) /\ LaterVersion(st[k], s)
        BY <1>1 DEF StackInv, History, CurrentOK
      <3> QED BY <3>1, LaterVersions
    <2>2. CASE k = n
      BY <1>3, <2>1, <2>2 DEF LaterVersion, Reported
    <2>3. CASE k # n
      BY <1>3, <2>1, <2>3
    <2> QED BY <2>2, <2>3
  <1>8. Awaits(f.pending, st, t, now) => DueOK(new, t, now)
    BY <1>3, <1>4, <1>e DEF DueOK, Awaits
  <1> QED BY <1>5, <1>6, <1>7, <1>8 DEF History, new

\* A call is pushed; it saves the storage s and runs in the storage t.
LEMMA PushFrame ==
    ASSUME NEW st, StackInv(st), NEW s, NEW now, History(st, s, now),
           StoreInv(s), NEW t, Follows(s, t),
           NEW f \in FrameType, f.saved = s,
           st = <<>> => f.reply_on = "never" /\ ~IsExecution(f),
           st # <<>> => NoExecution(Last(st).pending),
           TaggedOK(f), Reached(t, f.body),
           \A i \in DOMAIN f.pending : TaggedOK(f.pending[i]) /\ Reached(t, f.pending[i].body),
           Sound(s, now, DueIds(f)),
           IsExecution(f) => /\ IsDue(s, f.body.id)
                             /\ \A k \in DOMAIN st : NotExecuted(st[k].saved, f.body.id),
           ~f.called => NoExecution(f.pending)
    PROVE  /\ History(Append(st, f), t, now)
           /\ Awaits(f.pending, Append(st, f), t, now) => DueOK(Append(st, f), t, now)
  <1> DEFINE n == Len(st)
             new == Append(st, f)
  <1>1. st \in Seq(FrameType) /\ n \in Nat /\ DOMAIN st = 1 .. n
    BY DEF StackInv
  <1>2. /\ DOMAIN new = 1 .. n + 1 /\ Len(new) = n + 1
        /\ new[n + 1] = f /\ \A k \in 1 .. n : new[k] = st[k]
        /\ new \in Seq(FrameType)
    BY <1>1, SeqAppend
  <1>n. n = 0 <=> st = <<>>
    BY <1>1
  <1> HIDE DEF new
  <1>e. new # <<>> /\ Last(new) = f
    BY <1>1, <1>2 DEF Last
  <1>5. FramesOK(new, now)
    <2> SUFFICES ASSUME NEW k \in 1 .. n + 1
                 PROVE  /\ FrameOK(new[k], now)
                        /\ k = 1 => new[k].reply_on = "never" /\ ~IsExecution(new[k])
                        /\ k < n + 1 => NoExecution(new[k].pending)
      BY <1>2 DEF FramesOK
    <2>1. CASE k = n + 1
      <3>1. FrameOK(f, now)
        BY DEF FrameOK
      <3> QED BY <1>1, <1>2, <1>n, <2>1, <3>1
    <2>2. CASE k # n + 1
      <3>1. k \in 1 .. n /\ new[k] = st[k]
        BY <1>1, <1>2, <2>2
      <3>2. k = n => NoExecution(st[k].pending)
        <4>1. SUFFICES ASSUME k = n PROVE NoExecution(st[k].pending)
          OBVIOUS
        <4>2. st # <<>> /\ Last(st) = st[n]
          BY <1>1, <1>n, <3>1, <4>1 DEF Last
        <4> QED BY <4>1, <4>2
      <3>3. /\ FrameOK(st[k], now)
            /\ k = 1 => st[k].reply_on = "never" /\ ~IsExecution(st[k])
            /\ k < n => NoExecution(st[k].pending)
        BY <1>1, <3>1 DEF History, FramesOK
      <3>4. k = n \/ k < n
        BY <1>1, <3>1
      <3> QED BY <3>1, <3>2, <3>3, <3>4
    <2> QED BY <2>1, <2>2
  <1>6. VersionsOK(new)
    <2> SUFFICES ASSUME NEW k \in 1 .. n + 1
                 PROVE  /\ IsExecution(new[k]) => IsDue(new[k].saved, new[k].body.id)
                        /\ \A j \in 1 .. k - 1 :
                               /\ LaterVersion(new[j], new[k].saved)
                               /\ IsExecution(new[k]) => NotExecuted(new[j].saved, new[k].body.id)
      BY <1>2 DEF VersionsOK
    <2>1. CASE k = n + 1
      <3>1. \A j \in 1 .. k - 1 : j \in DOMAIN st /\ new[j] = st[j]
        BY <1>1, <1>2, <2>1
      <3> QED BY <1>2, <2>1, <3>1 DEF History, CurrentOK
    <2>2. CASE k # n + 1
      <3>1. k \in DOMAIN st /\ new[k] = st[k] /\ \A j \in 1 .. k - 1 : new[j] = st[j]
        BY <1>1, <1>2, <2>2
      <3> QED BY <3>1 DEF History, VersionsOK
    <2> QED BY <2>1, <2>2
  <1>7. CurrentOK(new, t)
    <2> SUFFICES ASSUME NEW k \in 1 .. n + 1 PROVE LaterVersion(new[k], t)
      BY <1>2 DEF CurrentOK
    <2>1. CASE k = n + 1
      BY <1>2, <2>1 DEF LaterVersion, Reported
    <2>2. CASE k # n + 1
      <3>1. k \in DOMAIN st /\ new[k] = st[k]
        BY <1>1, <1>2, <2>2
      <3>2. st[k] \in FrameType /\ StoreInv(st[k].saved) /\ LaterVersion(st[k], s)
        BY <1>1, <3>1 DEF StackInv, History, CurrentOK
      <3> QED BY <3>1, <3>2, LaterVersions
    <2> QED BY <2>1, <2>2
  <1>8. Awaits(f.pending, new, t, now) => DueOK(new, t, now)
    BY <1>e DEF DueOK
  <1> QED BY <1>5, <1>6, <1>7, <1>8 DEF History, new

\* Calls are popped, which leaves a storage t.
LEMMA PopFrames ==
    ASSUME NEW st, StackInv(st), NEW now, FramesOK(st, now), VersionsOK(st),
           NEW n \in Nat, n < Len(st), NEW t, Sound(t, now, {}),
           \A k \in 1 .. n : LaterVersion(st[k], t)
    PROVE  /\ History(SubSeq(st, 1, n), t, now)
           /\ DueOK(SubSeq(st, 1, n), t, now)
  <1> DEFINE new == SubSeq(st, 1, n)
  <1>1. st \in Seq(FrameType) /\ Len(st) \in Nat /\ DOMAIN st = 1 .. Len(st)
    BY DEF StackInv
  <1>2. /\ new \in Seq(FrameType) /\ DOMAIN new = 1 .. n /\ Len(new) = n
        /\ \A k \in 1 .. n : new[k] = st[k] /\ k \in DOMAIN st /\ k < Len(st)
    BY <1>1
  <1> HIDE DEF new
  <1>3. FramesOK(new, now)
    BY <1>2 DEF FramesOK
  <1>4. VersionsOK(new)
    <2> SUFFICES ASSUME NEW k \in 1 .. n
                 PROVE  /\ IsExecution(new[k]) => IsDue(new[k].saved, new[k].body.id)
                        /\ \A j \in 1 .. k - 1 :
                               /\ LaterVersion(new[j], new[k].saved)
                               /\ IsExecution(new[k]) => NotExecuted(new[j].saved, new[k].body.id)
      BY <1>2 DEF VersionsOK
    <2>1. \A j \in 1 .. k - 1 : new[j] = st[j]
      BY <1>2
    <2> QED BY <1>2, <2>1 DEF VersionsOK
  <1>5. CurrentOK(new, t)
    BY <1>2 DEF CurrentOK
  <1>6. DueOK(new, t, now)
    <2>1. CASE new = <<>>
      BY <2>1 DEF DueOK
    <2>2. CASE new # <<>>
      <3>1. n \in 1 .. n /\ Last(new) = st[n]
        BY <1>2, <2>2 DEF Last
      <3>2. NoExecution(Last(new).pending)
        BY <1>2, <3>1 DEF FramesOK
      <3> QED BY <2>2, <3>2 DEF DueOK, Awaits
    <2> QED BY <2>1, <2>2
  <1> QED BY <1>3, <1>4, <1>5, <1>6 DEF History, new

----------------------------------------------------------------------------
(* The storages handlers leave *)

\* Storage t is storage s with a proposal p whose status has moved on.
MovesOn(s, t, id, p, now) ==
    /\ id \in DOMAIN s.proposals
    /\ p.msgs = s.proposals[id].msgs
    /\ p.status \in Lifecycle!Later(s.proposals[id].status)
    /\ (p.status = "passed" /\ p.veto.kind = "veto")
           => is_expired(timelock_expiration(p), now)
    /\ t.proposals = [s.proposals EXCEPT ![id] = p]
    /\ t.ran = s.ran

\* A proposal is saved with a later status.
LEMMA SaveVersion ==
    ASSUME NEW s, StoreInv(s), NEW now, Sound(s, now, {}), NEW id, NEW p, NEW t,
           MovesOn(s, t, id, p, now)
    PROVE  /\ Follows(s, t)
           /\ (p.status = "executed" => s.proposals[id].status = "executed")
                  => Sound(t, now, {})
           /\ (p.status = "executed" /\ s.proposals[id].status # "executed")
                  => /\ Sound(t, now, {id}) /\ IsDue(t, id) /\ NotExecuted(s, id)
                     /\ p.msgs = <<>> => Sound(t, now, {})
  <1> USE DEF MovesOn
  <1>1. /\ DOMAIN t.proposals = DOMAIN s.proposals
        /\ t.proposals[id] = p
        /\ \A i \in DOMAIN s.proposals : i # id => t.proposals[i] = s.proposals[i]
    OBVIOUS
  <1>2. \A i \in DOMAIN s.proposals :
            s.proposals[i].status \in Status /\ s.ran[i] \in Nat
    BY StatusType
  <1>3. Follows(s, t)
    <2>1. \A i \in DOMAIN s.proposals :
              s.proposals[i].status \in Lifecycle!Later(s.proposals[i].status)
      BY <1>2, LaterOrder
    <2> QED BY <1>1, <2>1 DEF Follows
  <1>4. Unlocked(t, now)
    BY <1>1 DEF Sound, Unlocked
  <1>5. \A i \in DOMAIN s.proposals :
            /\ s.ran[i] <= 1
            /\ s.ran[i] = 1 => s.proposals[i].status = "executed"
            /\ (s.proposals[i].status = "executed" /\ s.proposals[i].msgs # <<>>)
                   => s.ran[i] = 1
    BY DEF Sound, Counted, Settled
  <1>6. s.proposals[id].status = "executed" => p.status = "executed"
    BY LaterValues
  <1>7. Counted(t)
    BY <1>1, <1>5, <1>6 DEF Counted
  <1>8. Settled(t, {id})
    BY <1>1, <1>5 DEF Settled
  <1>9. ASSUME p.status = "executed" => s.proposals[id].status = "executed"
        PROVE  Settled(t, {})
    BY <1>1, <1>5, <1>9 DEF Settled
  <1>10. ASSUME p.status = "executed", s.proposals[id].status # "executed"
         PROVE  /\ IsDue(t, id) /\ NotExecuted(s, id)
                /\ p.msgs = <<>> => Settled(t, {})
    <2>1. s.ran[id] = 0
      BY <1>2, <1>5, <1>10
    <2>2. IsDue(t, id) /\ NotExecuted(s, id)
      BY <1>1, <1>10, <2>1 DEF IsDue, NotExecuted
    <2>3. p.msgs = <<>> => Settled(t, {})
      BY <1>1, <1>5 DEF Settled
    <2> QED BY <2>2, <2>3
  <1> QED BY <1>3, <1>4, <1>7, <1>8, <1>9, <1>10 DEF Sound

\* execute_vote only moves the status on, and never to executed.
LEMMA VoteVersion ==
    ASSUME NEW s, StoreInv(s), NEW sender \in Addr, NEW id, NEW vote \in Vote,
           NEW rationale \in Rationales, CanVote(s, sender, id, vote),
           Sound(s, height, {})
    PROVE  /\ Follows(s, AfterVote(s, sender, id, vote, rationale))
           /\ Sound(AfterVote(s, sender, id, vote, rationale), height, {})
           /\ id \in DOMAIN s.proposals
           /\ AfterVote(s, sender, id, vote, rationale).proposals[id] =
                  WithVote(s, sender, id, vote)
           /\ DOMAIN AfterVote(s, sender, id, vote, rationale).proposals =
                  DOMAIN s.proposals
           /\ Executes(s, AfterVote(s, sender, id, vote, rationale), {})
  <1> DEFINE p == s.proposals[id]
             votes == add_vote(Cleared(p.votes, s.ballots[id][sender]), vote,
                               voting_power(sender, p.start_height))
             q == [p EXCEPT !.votes = votes]
             w == WithVote(s, sender, id, vote)
             t == AfterVote(s, sender, id, vote, rationale)
  <1>1. id \in DOMAIN s.proposals
    BY DEF CanVote
  <1>2. p \in Proposal(Addr, MsgLists) /\ p.status \in Status
    BY <1>1, StatusType
  <1>3. w = update_status(q, height)
    BY DEF WithVote, Cleared
  <1> HIDE DEF votes
  <1>4. /\ q.status = p.status /\ q.msgs = p.msgs /\ q.veto = p.veto
        /\ q.expiration = p.expiration
        /\ DOMAIN q = DOMAIN p
    <2> HIDE DEF p
    <2> QED BY <1>2 DEF Proposal
  <1>5. /\ w.status = current_status(q, height)
        /\ w.msgs = p.msgs /\ w.veto = p.veto /\ w.expiration = p.expiration
    <2>1. "status" \in DOMAIN q
      <3> HIDE DEF p
      <3> QED BY <1>2, <1>4 DEF Proposal
    <2> HIDE DEF q, p
    <2> QED BY <1>3, <1>4, <2>1 DEF update_status
  <1>6. /\ w.status \in Lifecycle!Later(p.status)
        /\ w.status = "executed" <=> p.status = "executed"
        /\ (w.status = "passed" /\ q.veto.kind = "veto")
               => p.status = "passed" \/ is_expired(timelock_expiration(q), height)
    <2> HIDE DEF q
    <2> QED BY <1>2, <1>4, <1>5, CurrentStatusLater
  <1>7. (w.status = "passed" /\ w.veto.kind = "veto")
            => is_expired(timelock_expiration(w), height)
    <2>1. timelock_expiration(w) = timelock_expiration(p)
          /\ timelock_expiration(q) = timelock_expiration(p)
      <3> HIDE DEF w, q, p
      <3> QED BY <1>4, <1>5 DEF timelock_expiration
    <2>2. (p.status = "passed" /\ p.veto.kind = "veto")
              => is_expired(timelock_expiration(p), height)
      BY <1>1 DEF Sound, Unlocked
    <2> HIDE DEF w, q, p
    <2> QED BY <1>4, <1>5, <1>6, <2>1, <2>2
  <1>8. t.proposals = [s.proposals EXCEPT ![id] = w] /\ t.ran = s.ran
    <2>1. s \in Store
      BY ConfigType
    <2> QED BY <2>1 DEF AfterVote, Store
  <1> HIDE DEF w, t, q
  <1>9. Follows(s, t) /\ Sound(t, height, {})
    <2>1. MovesOn(s, t, id, w, height)
      BY <1>1, <1>5, <1>6, <1>7, <1>8 DEF MovesOn
    <2>2. w.status = "executed" => s.proposals[id].status = "executed"
      BY <1>6
    <2> QED BY <2>1, <2>2, SaveVersion
  <1>10. Executes(s, t, {})
    BY <1>1, <1>6, <1>8 DEF Executes
  <1> QED BY <1>1, <1>8, <1>9, <1>10 DEF t, w

\* A new proposal is neither executed nor past a timelock that has not ended.
LEMMA ProposeVersion ==
    ASSUME NEW s, StoreInv(s), height \in Heights, NEW msgs \in MsgLists,
           Sound(s, height, {})
    PROVE  /\ Follows(s, AfterPropose(s, msgs))
           /\ Sound(AfterPropose(s, msgs), height, {})
           /\ Executes(s, AfterPropose(s, msgs), {})
  <1> DEFINE p == NewProposal(s, msgs)
             n == Len(s.proposals) + 1
             t == AfterPropose(s, msgs)
             c == s.config
             q == [start_height |-> height,
                   min_voting_period |-> height + c.min_voting_period,
                   expiration |-> height + c.max_voting_period,
                   threshold |-> c.threshold,
                   total_power |-> TotalPowerAt[height],
                   msgs |-> msgs,
                   status |-> "open",
                   votes |-> zero,
                   allow_revoting |-> c.allow_revoting,
                   veto |-> c.veto]
  <1>1. p = update_status(q, height)
    BY DEF NewProposal
  <1>2. q.status = "open" /\ "status" \in DOMAIN q
    OBVIOUS
  <1> HIDE DEF q
  <1>3. /\ p.status = current_status(q, height)
        /\ p.veto = q.veto /\ p.expiration = q.expiration
    BY <1>1, <1>2 DEF update_status
  <1>4. /\ p.status # "executed"
        /\ (p.status = "passed" /\ p.veto.kind = "veto")
               => is_expired(timelock_expiration(p), height)
    <2>1. "open" \in Status
      BY DEF Status
    <2>2. timelock_expiration(p) = timelock_expiration(q)
      <3> HIDE DEF p
      <3> QED BY <1>3 DEF timelock_expiration
    <2> HIDE DEF p
    <2> QED BY <1>2, <1>3, <2>1, <2>2, CurrentStatusLater
  <1>5. /\ s \in Store
        /\ s.proposals \in Seq(Proposal(Addr, MsgLists)) /\ s.ran \in Seq(Nat)
        /\ Len(s.ran) = Len(s.proposals)
    BY ConfigType
  <1>6. t.proposals = Append(s.proposals, p) /\ t.ran = Append(s.ran, 0)
    BY <1>5 DEF AfterPropose, Store
  <1>7. p \in Proposal(Addr, MsgLists)
    BY NewProposalType
  <1> HIDE DEF p, t
  <1>8. /\ DOMAIN t.proposals = 1 .. n /\ t.proposals[n] = p /\ t.ran[n] = 0
        /\ \A i \in DOMAIN s.proposals :
               /\ i \in 1 .. n
               /\ t.proposals[i] = s.proposals[i] /\ t.ran[i] = s.ran[i]
        /\ \A i \in 1 .. n : i = n \/ i \in DOMAIN s.proposals
    <2>1. DOMAIN s.proposals = 1 .. Len(s.proposals) /\ Len(s.proposals) \in Nat
      BY <1>5
    <2>2. /\ DOMAIN t.proposals = 1 .. n /\ t.proposals[n] = p
          /\ \A i \in 1 .. Len(s.proposals) : t.proposals[i] = s.proposals[i]
      BY <1>5, <1>6, <1>7, SeqAppend
    <2>3. t.ran[n] = 0 /\ \A i \in 1 .. Len(s.proposals) : t.ran[i] = s.ran[i]
      BY <1>5, <1>6, SeqAppend
    <2> QED BY <2>1, <2>2, <2>3
  <1> HIDE DEF n
  <1>9. Follows(s, t)
    <2>1. \A i \in DOMAIN s.proposals :
              s.proposals[i].status \in Lifecycle!Later(s.proposals[i].status)
      BY StatusType, LaterOrder
    <2> QED BY <1>8, <2>1 DEF Follows
  <1>10. Counted(t)
    BY <1>4, <1>8 DEF Sound, Counted
  <1>11. Unlocked(t, height)
    BY <1>4, <1>8 DEF Sound, Unlocked
  <1>12. Settled(t, {})
    BY <1>4, <1>8 DEF Sound, Settled
  <1>13. Executes(s, t, {})
    BY <1>8 DEF Executes
  <1> QED BY <1>9, <1>10, <1>11, <1>12, <1>13 DEF Sound, t

\* The proposal a handler loads.
LEMMA LoadedVersion ==
    ASSUME StoreInv(store), Sound(store, height, {}), NEW id \in DOMAIN store.proposals
    PROVE  /\ Loaded(id).status \in Lifecycle!Later(store.proposals[id].status)
           /\ Loaded(id).status = "executed" <=> store.proposals[id].status = "executed"
           /\ Loaded(id).msgs = store.proposals[id].msgs
           /\ Loaded(id).veto = store.proposals[id].veto
           /\ Loaded(id).expiration = store.proposals[id].expiration
           /\ Loaded(id) \in Proposal(Addr, MsgLists)
           /\ (Loaded(id).status = "passed" /\ Loaded(id).veto.kind = "veto")
                  => is_expired(timelock_expiration(Loaded(id)), height)
  <1> DEFINE p == store.proposals[id]
             w == Loaded(id)
  <1>1. p \in Proposal(Addr, MsgLists) /\ p.status \in Status
    BY StatusType
  <1>2. w = update_status(p, height)
    BY DEF Loaded
  <1>3. (p.status = "passed" /\ p.veto.kind = "veto")
            => is_expired(timelock_expiration(p), height)
    BY DEF Sound, Unlocked
  <1> HIDE DEF p, w
  <1>4. /\ w.status = current_status(p, height)
        /\ w.msgs = p.msgs /\ w.veto = p.veto /\ w.expiration = p.expiration
    BY <1>1, <1>2 DEF update_status, Proposal
  <1>5. timelock_expiration(w) = timelock_expiration(p)
    BY <1>4 DEF timelock_expiration
  <1>6. w \in Proposal(Addr, MsgLists)
    BY <1>1, <1>2, UpdateStatusType
  <1>7. /\ w.status \in Lifecycle!Later(p.status)
        /\ w.status = "executed" <=> p.status = "executed"
        /\ (w.status = "passed" /\ p.veto.kind = "veto")
               => p.status = "passed" \/ is_expired(timelock_expiration(p), height)
    BY <1>1, <1>4, CurrentStatusLater
  <1>8. (w.status = "passed" /\ w.veto.kind = "veto")
            => is_expired(timelock_expiration(w), height)
    BY <1>3, <1>4, <1>5, <1>7
  <1>9. w.status = "executed" <=> p.status = "executed"
    BY <1>7
  <1> QED BY <1>4, <1>6, <1>7, <1>8, <1>9 DEF p, w

\* A handler completes a proposal.
LEMMA CompleteVersion ==
    ASSUME StoreInv(store), Sound(store, height, {}), NEW id \in DOMAIN store.proposals,
           NEW status \in {"vetoed", "executed", "closed"},
           status \in Lifecycle!Later(Loaded(id).status), Loaded(id).status # "executed",
           NEW t, t.ran = store.ran,
           t.proposals = [store.proposals EXCEPT ![id] = [Loaded(id) EXCEPT !.status = status]]
    PROVE  /\ Follows(store, t)
           /\ id \in DOMAIN t.proposals /\ t.proposals[id].status = status
           /\ status # "executed" => Sound(t, height, {})
           /\ status = "executed" => /\ Sound(t, height, {id}) /\ IsDue(t, id)
                                     /\ NotExecuted(store, id)
                                     /\ Loaded(id).msgs = <<>> => Sound(t, height, {})
  <1> DEFINE p == store.proposals[id]
             w == Loaded(id)
             q == [w EXCEPT !.status = status]
  <1>1. /\ w.status \in Lifecycle!Later(p.status) /\ w.msgs = p.msgs
        /\ w.status = "executed" <=> p.status = "executed"
        /\ w \in Proposal(Addr, MsgLists)
    BY LoadedVersion
  <1>2. p.status \in Status
    BY StatusType
  <1>3. t.proposals = [store.proposals EXCEPT ![id] = q] /\ t.ran = store.ran
    OBVIOUS
  <1> HIDE DEF p, w
  <1>4. q.status = status /\ q.msgs = w.msgs
    BY <1>1 DEF Proposal
  <1>5. q.status \in Lifecycle!Later(p.status)
    BY <1>1, <1>2, <1>4, LaterOrder DEF w
  <1> HIDE DEF q
  <1>6. q.status # "passed" /\ p.status # "executed" /\ q.msgs = p.msgs
    BY <1>1, <1>4 DEF w
  <1>7. /\ Follows(store, t)
        /\ (q.status = "executed" => p.status = "executed") => Sound(t, height, {})
        /\ (q.status = "executed" /\ p.status # "executed")
                  => /\ Sound(t, height, {id}) /\ IsDue(t, id) /\ NotExecuted(store, id)
                     /\ q.msgs = <<>> => Sound(t, height, {})
    <2>1. MovesOn(store, t, id, q, height)
      BY <1>3, <1>5, <1>6 DEF MovesOn, p
    <2> QED BY <2>1, SaveVersion DEF p
  <1>8. id \in DOMAIN t.proposals /\ t.proposals[id] = q
    BY <1>3
  <1> QED BY <1>4, <1>6, <1>7, <1>8 DEF w

----------------------------------------------------------------------------
(* Messages *)

\* Messages that run no proposal, and report only what storage t has reached.
Quiet(msgs, t) ==
    \A i \in DOMAIN msgs :
        TaggedOK(msgs[i]) /\ ~IsExecution(msgs[i]) /\ Reached(t, msgs[i].body)

\* The reply identifiers of hooks are not those of executions, and the
\* identifier of an execution gives the proposal back.
LEMMA TagValues ==
    ASSUME NEW i \in Nat
    PROVE  /\ reply_type(mask_proposal_hook_index(i)) # FAILED_PROPOSAL_EXECUTION_MASK
           /\ reply_type(mask_vote_hook_index(i)) # FAILED_PROPOSAL_EXECUTION_MASK
           /\ reply_type(FAILED_PRE_PROPOSE_MODULE_HOOK_ID) # FAILED_PROPOSAL_EXECUTION_MASK
           /\ reply_type(mask_proposal_execution_proposal_id(i)) = FAILED_PROPOSAL_EXECUTION_MASK
           /\ id_after_shift(mask_proposal_execution_proposal_id(i)) = i
  BY DEF reply_type, id_after_shift, mask_proposal_hook_index, mask_vote_hook_index,
         mask_proposal_execution_proposal_id, ReplyTypes, FAILED_PROPOSAL_EXECUTION_MASK,
         FAILED_PROPOSAL_HOOK_MASK, FAILED_VOTE_HOOK_MASK, FAILED_PRE_PROPOSE_MODULE_HOOK_ID

\* Quiet lists one after the other are quiet.
LEMMA QuietConcat ==
    ASSUME NEW a \in Seq(SubMsg), NEW b \in Seq(SubMsg), NEW t, Quiet(a, t), Quiet(b, t)
    PROVE  Quiet(a \o b, t)
  <1> SUFFICES ASSUME NEW i \in DOMAIN (a \o b)
               PROVE  (\E j \in DOMAIN a : (a \o b)[i] = a[j])
                      \/ (\E j \in DOMAIN b : (a \o b)[i] = b[j])
    BY DEF Quiet
  <1>1. i \in 1 .. Len(a) + Len(b) /\ Len(a) \in Nat /\ Len(b) \in Nat
        /\ DOMAIN a = 1 .. Len(a) /\ DOMAIN b = 1 .. Len(b)
    OBVIOUS
  <1>2. CASE i <= Len(a)
    BY <1>1, <1>2
  <1>3. CASE ~(i <= Len(a))
    <2>1. i - Len(a) \in DOMAIN b /\ (a \o b)[i] = b[i - Len(a)]
      BY <1>1, <1>3
    <2> QED BY <2>1
  <1> QED BY <1>2, <1>3

\* Hooks about a status that the proposal has are quiet.
LEMMA HooksQuiet ==
    ASSUME NEW s, StoreInv(s), NEW id \in Nat, NEW old, NEW new \in Status,
           NEW t, id \in DOMAIN t.proposals, t.proposals[id].status = new
    PROVE  /\ Quiet(new_proposal_hooks(s, id), t)
           /\ Quiet(new_vote_hooks(s), t)
           /\ Quiet(proposal_status_changed_hooks(s, id, old, new), t)
           /\ Quiet(CompletionHooks(s, id, old, new), t)
  <1>1. s.proposal_hooks \in Seq(Peer) /\ s.vote_hooks \in Seq(Peer)
    BY ConfigType
  <1>2. ASSUME NEW body, body.kind # "execute_proposal_hook", Reached(t, body),
               NEW hooks \in Seq(Peer)
        PROVE  /\ Quiet(prepare_hooks(hooks, [r \in Peer \X Nat |->
                       MsgReplyOnError(r[1], body, mask_proposal_hook_index(r[2]))]), t)
               /\ Quiet(prepare_hooks(hooks, [r \in Peer \X Nat |->
                       MsgReplyOnError(r[1], body, mask_vote_hook_index(r[2]))]), t)
    <2>1. ASSUME NEW a, NEW r, reply_type(r) # FAILED_PROPOSAL_EXECUTION_MASK
          PROVE  LET m == MsgReplyOnError(a, body, r)
                 IN  TaggedOK(m) /\ ~IsExecution(m) /\ Reached(t, m.body)
      BY <1>2, <2>1 DEF MsgReplyOnError, TaggedOK, IsExecution
    <2> DEFINE p == [r \in Peer \X Nat |->
                         MsgReplyOnError(r[1], body, mask_proposal_hook_index(r[2]))]
               v == [r \in Peer \X Nat |->
                         MsgReplyOnError(r[1], body, mask_vote_hook_index(r[2]))]
    <2>2. ASSUME NEW i \in DOMAIN hooks
          PROVE  /\ prepare_hooks(hooks, p)[i] =
                        MsgReplyOnError(hooks[i], body, mask_proposal_hook_index(i - 1))
                 /\ prepare_hooks(hooks, v)[i] =
                        MsgReplyOnError(hooks[i], body, mask_vote_hook_index(i - 1))
                 /\ i - 1 \in Nat
      <3>1. <<hooks[i], i - 1>> \in Peer \X Nat
        OBVIOUS
      <3>2. /\ prepare_hooks(hooks, p)[i] = p[<<hooks[i], i - 1>>]
            /\ prepare_hooks(hooks, v)[i] = v[<<hooks[i], i - 1>>]
        BY DEF prepare_hooks
      <3> QED BY <3>1, <3>2
    <2>3. /\ DOMAIN prepare_hooks(hooks, p) = DOMAIN hooks
          /\ DOMAIN prepare_hooks(hooks, v) = DOMAIN hooks
      BY DEF prepare_hooks
    <2> HIDE DEF p, v
    <2>4. Quiet(prepare_hooks(hooks, p), t) /\ Quiet(prepare_hooks(hooks, v), t)
      BY <2>1, <2>2, <2>3, TagValues DEF Quiet
    <2> QED BY <2>4 DEF p, v
  <1>3. new \in ReachableFrom(new)
    BY ReachableOrder
  <1>4. /\ Reached(t, [kind |-> "new_proposal", id |-> id])
        /\ Reached(t, [kind |-> "new_vote"])
        /\ Reached(t, [kind |-> "status_changed", id |-> id, status |-> new])
        /\ Reached(t, [kind |-> "completed", id |-> id, status |-> new])
    BY <1>3 DEF Reached
  <1>5. Quiet(new_proposal_hooks(s, id), t)
    <2>1. [kind |-> "new_proposal", id |-> id].kind # "execute_proposal_hook"
      OBVIOUS
    <2> QED BY <1>1, <1>2, <1>4, <2>1, Zenon DEF new_proposal_hooks
  <1>6. Quiet(new_vote_hooks(s), t)
    <2>1. [kind |-> "new_vote"].kind # "execute_proposal_hook"
      OBVIOUS
    <2> QED BY <1>1, <1>2, <1>4, <2>1, Zenon DEF new_vote_hooks
  <1>7. Quiet(proposal_status_changed_hooks(s, id, old, new), t)
    <2>1. [kind |-> "status_changed", id |-> id, status |-> new].kind # "execute_proposal_hook"
      OBVIOUS
    <2>2. Quiet(prepare_hooks(s.proposal_hooks,
              [r \in Peer \X Nat |->
                  MsgReplyOnError(r[1], [kind |-> "status_changed", id |-> id, status |-> new],
                                  mask_proposal_hook_index(r[2]))]), t)
      BY <1>1, <1>2, <1>4, <2>1, Zenon
    <2>3. Quiet(<<>>, t)
      BY DEF Quiet
    <2> QED BY <2>2, <2>3, Zenon DEF proposal_status_changed_hooks
  <1>8. Quiet(proposal_completed_hooks(s.policy, id, new), t)
    <2> DEFINE body == [kind |-> "completed", id |-> id, status |-> new]
               m == MsgReplyOnError(s.policy.addr, body, FAILED_PRE_PROPOSE_MODULE_HOOK_ID)
    <2>1. Quiet(<<>>, t)
      BY DEF Quiet
    <2>2. TaggedOK(m) /\ ~IsExecution(m) /\ m.body = body
      BY TagValues DEF MsgReplyOnError, TaggedOK, IsExecution
    <2>3. Reached(t, m.body)
      BY <1>4, <2>2
    <2> HIDE DEF m, body
    <2>4. Quiet(<<m>>, t)
      BY <2>2, <2>3 DEF Quiet
    <2> QED BY <2>1, <2>4 DEF proposal_completed_hooks, m, body
  <1>9. Quiet(CompletionHooks(s, id, old, new), t)
    BY <1>7, <1>8, HookMsgsType, QuietConcat DEF CompletionHooks
  <1> QED BY <1>5, <1>6, <1>7, <1>9

\* The messages a call of the DAO, or a proposal, gives rise to are quiet.
LEMMA DaoMsgsQuiet ==
    /\ \A t : \A call \in DaoRequest : Quiet(DaoCallMsgs(call), t)
    /\ \A t : \A msgs \in MsgLists : Quiet(ProposalMsgs(msgs), t)
  <1>1. ASSUME NEW call \in DaoRequest, NEW t
        PROVE  Quiet(DaoCallMsgs(call), t)
    <2> DEFINE m == MsgReplyOnSuccess(call.policy.addr, [kind |-> "instantiate"],
                                      PRE_PROPOSE_MODULE_INSTANTIATION_ID)
    <2>1. TaggedOK(m) /\ ~IsExecution(m) /\ Reached(t, m.body)
      BY DEF MsgReplyOnSuccess, TaggedOK, IsExecution, Reached
    <2> HIDE DEF m
    <2>2. Quiet(<<m>>, t) /\ Quiet(<<>>, t)
      BY <2>1 DEF Quiet
    <2> QED BY <2>2 DEF DaoCallMsgs, m
  <1>2. ASSUME NEW msgs \in MsgLists, NEW t
        PROVE  Quiet(ProposalMsgs(msgs), t)
    <2>1. msgs \in Seq(DaoMsg)
      BY MsgAssumption
    <2>2. ASSUME NEW a, NEW body \in DaoMsg
          PROVE  LET m == Msg(a, body)
                 IN  TaggedOK(m) /\ ~IsExecution(m) /\ Reached(t, m.body)
      BY DEF Msg, TaggedOK, IsExecution, Reached, DaoMsg
    <2> QED BY <2>1, <2>2 DEF ProposalMsgs, Quiet
  <1> QED BY <1>1, <1>2

----------------------------------------------------------------------------
(* Handlers *)

\* The messages of a handler that took storage s to storage t: at most the
\* first has a proposal run, one that was not executed in s.
Replies(msgs, s, t, now) ==
    /\ \A i \in DOMAIN msgs : TaggedOK(msgs[i]) /\ Reached(t, msgs[i].body)
    /\ IF NoExecution(msgs)
       THEN Sound(t, now, {})
       ELSE /\ IsExecution(msgs[1])
            /\ NoExecution(Tail(msgs))
            /\ Sound(t, now, {msgs[1].body.id})
            /\ IsDue(t, msgs[1].body.id)
            /\ NotExecuted(s, msgs[1].body.id)

\* Quiet messages.
LEMMA QuietReplies ==
    ASSUME NEW msgs, NEW s, NEW t, NEW now, Quiet(msgs, t), Sound(t, now, {})
    PROVE  Replies(msgs, s, t, now)
  BY DEF Replies, Quiet, NoExecution

\* A handler only starts when no execution is due.
LEMMA BeginSound ==
    ASSUME IInv, VInv, NEW sender, Begin(sender)
    PROVE  Sound(store, height, {})
  <1>1. CASE stack = <<>>
    BY <1>1 DEF VInv, DueOK
  <1>2. CASE stack # <<>>
    <2>1. ~Last(stack).called
      BY <1>2 DEF Begin
    <2>2. Last(stack) = stack[Len(stack)] /\ Len(stack) \in DOMAIN stack
      BY <1>2, TopType DEF IInv
    <2>3. NoExecution(Last(stack).pending)
      BY <2>1, <2>2 DEF VInv, History, FramesOK, FrameOK
    <2> QED BY <1>2, <2>3 DEF VInv, DueOK, Awaits
  <1> QED BY <1>1, <1>2

\* A handler keeps the versions in order.
LEMMA RespondKeepsVersions ==
    ASSUME IInv, VInv, NEW sender \in Peer, Begin(sender), NEW msgs \in Seq(SubMsg),
           Respond(sender, msgs), Follows(store, store'), height' = height,
           Replies(msgs, store, store', height)
    PROVE  VInv'
  <1>1. /\ StoreInv(store) /\ StackInv(stack) /\ History(stack, store, height)
        /\ Sound(store, height, {})
    BY BeginSound DEF IInv, VInv
  <1>2. CASE stack = <<>>
    <2> DEFINE f == Frame(Msg(sender, [kind |-> "tx"]), store, msgs, TRUE)
    <2>1. stack' = <<f>>
      BY <1>2 DEF Respond
    <2>2. f \in FrameType
      <3>1. [kind |-> "tx"] \in Body
        BY DEF Body
      <3>2. store \in Store
        BY <1>1, ConfigType
      <3> QED BY <3>1, <3>2 DEF FrameType, Frame, Msg, NoReply
    <2>3. /\ f.saved = store /\ f.reply_on = "never" /\ f.pending = msgs /\ f.called = TRUE
          /\ f.body = [kind |-> "tx"]
      BY DEF Frame, Msg
    <2> HIDE DEF f
    <2>4. ~IsExecution(f) /\ TaggedOK(f) /\ Reached(store', f.body) /\ DueIds(f) = {}
      BY <2>3 DEF IsExecution, TaggedOK, Reached, DueIds
    <2>5. stack' = Append(stack, f)
      BY <1>2, <2>1, <2>2
    <2>6. /\ History(Append(stack, f), store', height)
          /\ Awaits(f.pending, Append(stack, f), store', height)
                 => DueOK(Append(stack, f), store', height)
      BY <1>1, <1>2, <2>2, <2>3, <2>4, PushFrame DEF Replies
    <2>7. Awaits(f.pending, stack', store', height)
      <3>1. DOMAIN stack' = {1} /\ stack'[1] = f
        BY <2>1
      <3> QED BY <2>3, <3>1 DEF Awaits, Replies
    <2> QED BY <2>5, <2>6, <2>7 DEF VInv
  <1>3. CASE stack # <<>>
    <2> DEFINE n == Len(stack)
               f == [stack[n] EXCEPT !.pending = msgs, !.called = TRUE]
    <2>1. stack[n] \in FrameType /\ n \in DOMAIN stack
      BY <1>1, <1>3, TopType
    <2>2. /\ f \in FrameType /\ f.saved = stack[n].saved /\ f.body = stack[n].body
          /\ f.reply_on = stack[n].reply_on /\ f.reply_id = stack[n].reply_id
          /\ f.pending = msgs /\ f.called = TRUE
      BY <2>1 DEF FrameType
    <2>3. stack' = [stack EXCEPT ![n] = f]
      <3>1. stack' = [stack EXCEPT ![n].pending = msgs, ![n].called = TRUE]
        BY <1>3 DEF Respond
      <3>2. stack \in Seq(FrameType)
        BY <1>1 DEF StackInv
      <3> QED BY <2>1, <3>1, <3>2
    <2> HIDE DEF f
    <2>4. /\ History([stack EXCEPT ![n] = f], store', height)
          /\ Awaits(f.pending, stack, store', height)
                 => DueOK([stack EXCEPT ![n] = f], store', height)
      BY <1>1, <1>3, <2>2, ReplaceTop DEF Replies
    <2>5. \A k \in DOMAIN stack : \A id :
              NotExecuted(store, id) => NotExecuted(stack[k].saved, id)
      BY <1>1, NotExecutedBefore DEF StackInv, History, CurrentOK, LaterVersion
    <2>6. Awaits(f.pending, stack, store', height)
      BY <2>2, <2>5 DEF Awaits, Replies
    <2> QED BY <2>3, <2>4, <2>6 DEF VInv
  <1> QED BY <1>2, <1>3

\* execute_propose, with and without the proposer's vote.
LEMMA ProposeKeepsVersions ==
    ASSUME IInv, VInv, Propose
    PROVE  VInv'
  <1>1. PICK sender \in Peer, proposer \in Peer, msgs \in MsgLists,
             vote \in Vote \cup {"none"}, rationale \in Rationales :
                 execute_propose(sender, proposer, msgs, vote, rationale)
    BY DEF Propose
  <1> DEFINE proposed == AfterPropose(store, msgs)
             id == Len(store.proposals) + 1
             hooks == new_proposal_hooks(store, id)
  <1>2. /\ StoreInv(store) /\ StackInv(stack) /\ height \in Heights /\ height' = height
        /\ Begin(sender)
    BY <1>1 DEF IInv, execute_propose
  <1>3. /\ StoreInv(proposed) /\ DOMAIN proposed.proposals = 1 .. id
        /\ Follows(store, proposed) /\ Sound(proposed, height, {})
    BY <1>2, BeginSound, ProposeKeepsStore, ProposeVersion
  <1>4. id \in Nat \ {0} /\ id \in DOMAIN proposed.proposals
    <2>1. store.proposals \in Seq(Proposal(Addr, MsgLists))
      BY <1>2, ConfigType
    <2>2. id \in Nat \ {0}
      BY <2>1
    <2> QED BY <1>3, <2>2
  <1> HIDE DEF proposed, id
  <1>5. /\ hooks \in Seq(SubMsg)
        /\ \A t : (id \in DOMAIN t.proposals /\ t.proposals[id].status \in Status)
                      => Quiet(hooks, t)
    <2>1. "open" \in Status
      BY DEF Status
    <2> QED BY <1>2, <1>4, <2>1, HookMsgsType, HooksQuiet
  <1>6. CASE /\ store' = proposed
             /\ Respond(sender, hooks)
    <2>1. Quiet(hooks, proposed)
      BY <1>3, <1>4, <1>5, StatusType
    <2>2. Replies(hooks, store, store', height)
      BY <1>3, <1>6, <2>1, QuietReplies
    <2> HIDE DEF hooks
    <2> QED BY <1>2, <1>3, <1>5, <1>6, <2>2, RespondKeepsVersions
  <1>7. CASE /\ vote # "none"
             /\ CanVote(proposed, proposer, id, vote)
             /\ store' = AfterVote(proposed, proposer, id, vote, rationale)
             /\ Respond(sender, hooks \o VoteMsgs(proposed, proposer, id, vote))
    <2> DEFINE w == WithVote(proposed, proposer, id, vote)
               changed == proposal_status_changed_hooks(proposed, id,
                              proposed.proposals[id].status, w.status)
    <2>1. vote \in Vote /\ proposer \in Addr
      BY <1>7 DEF Peer
    <2>2. w.status \in Status
      BY <1>2, <1>3, <1>7, <2>1, VoteKeepsStore
    <2>3. /\ Follows(proposed, store') /\ Sound(store', height, {})
          /\ id \in DOMAIN store'.proposals /\ store'.proposals[id] = w
      BY <1>3, <1>4, <1>7, <2>1, VoteVersion
    <2>4. Follows(store, store')
      BY <1>2, <1>3, <2>3, FollowsOrder
    <2> HIDE DEF w
    <2>5. /\ changed \in Seq(SubMsg) /\ new_vote_hooks(proposed) \in Seq(SubMsg)
          /\ Quiet(changed, store') /\ Quiet(new_vote_hooks(proposed), store')
      BY <1>3, <1>4, <2>2, <2>3, HookMsgsType, HooksQuiet
    <2> HIDE DEF changed
    <2>6. Quiet(hooks, store')
      BY <1>5, <2>2, <2>3
    <2> HIDE DEF hooks
    <2>7. VoteMsgs(proposed, proposer, id, vote) = changed \o new_vote_hooks(proposed)
      BY DEF VoteMsgs, changed, w
    <2>8. /\ changed \o new_vote_hooks(proposed) \in Seq(SubMsg)
          /\ Quiet(changed \o new_vote_hooks(proposed), store')
      BY <2>5, QuietConcat
    <2> DEFINE voted == VoteMsgs(proposed, proposer, id, vote)
               all == hooks \o voted
    <2>v. voted \in Seq(SubMsg) /\ Quiet(voted, store')
      BY <2>7, <2>8
    <2> HIDE DEF voted
    <2>9. all \in Seq(SubMsg) /\ Quiet(all, store')
      BY <1>5, <2>6, <2>v, QuietConcat DEF hooks
    <2> HIDE DEF all
    <2>10. Replies(all, store, store', height)
      BY <2>3, <2>9, QuietReplies
    <2>11. Respond(sender, all)
      BY <1>7 DEF all, voted
    <2> QED BY <1>2, <2>4, <2>9, <2>10, <2>11, RespondKeepsVersions
  <1> QED BY <1>1, <1>6, <1>7 DEF execute_propose, proposed, id

\* execute_vote.
LEMMA CastVoteKeepsVersions ==
    ASSUME IInv, VInv, CastVote
    PROVE  VInv'
  <1>1. PICK sender \in Peer, id \in DOMAIN store.proposals, vote \in Vote,
             rationale \in Rationales : execute_vote(sender, id, vote, rationale)
    BY DEF CastVote
  <1> DEFINE w == WithVote(store, sender, id, vote)
             changed == proposal_status_changed_hooks(store, id,
                            store.proposals[id].status, w.status)
             all == VoteMsgs(store, sender, id, vote)
  <1>2. /\ StoreInv(store) /\ height \in Heights /\ height' = height
        /\ Begin(sender) /\ CanVote(store, sender, id, vote)
        /\ store' = AfterVote(store, sender, id, vote, rationale)
        /\ Respond(sender, all)
    BY <1>1 DEF IInv, execute_vote
  <1>3. sender \in Addr /\ id \in Nat
    BY <1>2, StatusType DEF Peer
  <1>4. w.status \in Status
    BY <1>2, <1>3, VoteKeepsStore
  <1>5. /\ Follows(store, store') /\ Sound(store', height, {})
        /\ id \in DOMAIN store'.proposals /\ store'.proposals[id] = w
    BY <1>2, <1>3, BeginSound, VoteVersion
  <1> HIDE DEF w
  <1>6. /\ changed \in Seq(SubMsg) /\ new_vote_hooks(store) \in Seq(SubMsg)
        /\ Quiet(changed, store') /\ Quiet(new_vote_hooks(store), store')
    BY <1>2, <1>3, <1>4, <1>5, HookMsgsType, HooksQuiet
  <1> HIDE DEF changed
  <1>7. all = changed \o new_vote_hooks(store)
    BY DEF VoteMsgs, changed, w
  <1>8. all \in Seq(SubMsg) /\ Quiet(all, store')
    BY <1>6, <1>7, QuietConcat
  <1> HIDE DEF all
  <1>9. Replies(all, store, store', height)
    BY <1>5, <1>8, QuietReplies
  <1> QED BY <1>2, <1>5, <1>8, <1>9, RespondKeepsVersions

\* A changed rationale leaves the proposals alone.
LEMMA UpdateRationaleKeepsVersions ==
    ASSUME IInv, VInv, UpdateRationale
    PROVE  VInv'
  <1>1. PICK sender \in Peer, id \in DOMAIN store.proposals, rationale \in Rationales :
            execute_update_rationale(sender, id, rationale)
    BY DEF UpdateRationale
  <1>2. /\ StoreInv(store) /\ height' = height /\ Begin(sender) /\ Respond(sender, <<>>)
        /\ store' = [store EXCEPT !.ballots[id][sender].rationale = rationale]
    BY <1>1 DEF IInv, execute_update_rationale
  <1>3. store \in Store
    BY <1>2, ConfigType
  <1>4. store'.proposals = store.proposals /\ store'.ran = store.ran
    BY <1>2, <1>3 DEF Store
  <1>5. Follows(store, store') /\ Sound(store', height, {})
    BY <1>2, <1>4, BeginSound, SameProposals
  <1>6. <<>> \in Seq(SubMsg) /\ Replies(<<>>, store, store', height)
    BY <1>5, QuietReplies DEF Quiet
  <1> QED BY <1>2, <1>5, <1>6, RespondKeepsVersions

\* An execution before quiet messages.
LEMMA ExecutionReplies ==
    ASSUME NEW m \in SubMsg, IsExecution(m), TaggedOK(m),
           NEW hooks \in Seq(SubMsg), NEW s, NEW t, NEW now, Quiet(hooks, t),
           Sound(t, now, {m.body.id}), IsDue(t, m.body.id), NotExecuted(s, m.body.id)
    PROVE  Replies(<<m>> \o hooks, s, t, now)
  <1> DEFINE all == <<m>> \o hooks
  <1>1. /\ all \in Seq(SubMsg) /\ DOMAIN all = 1 .. Len(hooks) + 1 /\ Len(hooks) \in Nat
        /\ all[1] = m /\ \A i \in 1 .. Len(hooks) : all[i + 1] = hooks[i]
    OBVIOUS
  <1>2. Tail(all) = hooks
    OBVIOUS
  <1>3. \A i \in DOMAIN all : i = 1 \/ \E j \in DOMAIN hooks : all[i] = hooks[j]
    <2> SUFFICES ASSUME NEW i \in DOMAIN all, i # 1
                 PROVE  \E j \in DOMAIN hooks : all[i] = hooks[j]
      OBVIOUS
    <2>1. i - 1 \in 1 .. Len(hooks) /\ DOMAIN hooks = 1 .. Len(hooks) /\ i = (i - 1) + 1
      BY <1>1
    <2>2. all[(i - 1) + 1] = hooks[i - 1]
      BY <1>1, <2>1
    <2> QED BY <2>1, <2>2
  <1>4. 1 \in DOMAIN all
    BY <1>1
  <1> HIDE DEF all
  <1>5. Reached(t, m.body)
    BY DEF Reached, IsExecution
  <1>6. \A i \in DOMAIN all : TaggedOK(all[i]) /\ Reached(t, all[i].body)
    BY <1>1, <1>3, <1>5 DEF Quiet
  <1>7. ~NoExecution(all) /\ NoExecution(Tail(all))
    BY <1>1, <1>2, <1>4 DEF NoExecution, Quiet
  <1>8. Replies(all, s, t, now)
    BY <1>1, <1>6, <1>7 DEF Replies
  <1> QED BY <1>8 DEF all

\* What the handlers that complete a proposal save.
LEMMA CompleteSaves ==
    ASSUME StoreInv(store), NEW id \in DOMAIN store.proposals, NEW status,
           store' = [store EXCEPT !.proposals[id] = [Loaded(id) EXCEPT !.status = status]]
    PROVE  /\ store'.proposals =
                  [store.proposals EXCEPT ![id] = [Loaded(id) EXCEPT !.status = status]]
           /\ store'.ran = store.ran
           /\ id \in Nat
  <1>1. store \in Store
    BY ConfigType
  <1>2. id \in Nat
    BY StatusType
  <1> DEFINE q == [Loaded(id) EXCEPT !.status = status]
  <1>3. store' = [store EXCEPT !.proposals[id] = q]
    OBVIOUS
  <1> HIDE DEF q
  <1>4. store'.proposals = [store.proposals EXCEPT ![id] = q] /\ store'.ran = store.ran
    BY <1>1, <1>3 DEF Store
  <1> QED BY <1>2, <1>4 DEF q

\* execute_veto.
LEMMA VetoKeepsVersions ==
    ASSUME IInv, VInv, Veto
    PROVE  VInv'
  <1>1. PICK sender \in Peer, id \in DOMAIN store.proposals : execute_veto(sender, id)
    BY DEF Veto
  <1> DEFINE hooks == CompletionHooks(store, id, Loaded(id).status, "vetoed")
  <1>2. /\ StoreInv(store) /\ height' = height /\ Begin(sender)
        /\ Loaded(id).status \in {"open", "veto_timelock"}
        /\ store' = [store EXCEPT !.proposals[id] = [Loaded(id) EXCEPT !.status = "vetoed"]]
        /\ Respond(sender, hooks)
    BY <1>1 DEF IInv, execute_veto
  <1>3. "vetoed" \in Status /\ "vetoed" \in Lifecycle!Later(Loaded(id).status)
        /\ Loaded(id).status # "executed"
    BY <1>2, LaterValues DEF Status
  <1>4. /\ store'.proposals =
               [store.proposals EXCEPT ![id] = [Loaded(id) EXCEPT !.status = "vetoed"]]
        /\ store'.ran = store.ran
        /\ id \in Nat
    BY <1>2, CompleteSaves
  <1>5. /\ Follows(store, store') /\ Sound(store', height, {})
        /\ id \in DOMAIN store'.proposals /\ store'.proposals[id].status = "vetoed"
    BY <1>2, <1>3, <1>4, BeginSound, CompleteVersion
  <1>6. hooks \in Seq(SubMsg) /\ Quiet(hooks, store')
    BY <1>2, <1>3, <1>4, <1>5, HookMsgsType, HooksQuiet
  <1> HIDE DEF hooks
  <1>7. Replies(hooks, store, store', height)
    BY <1>5, <1>6, QuietReplies
  <1> QED BY <1>2, <1>5, <1>6, <1>7, RespondKeepsVersions

\* execute_close.
LEMMA CloseKeepsVersions ==
    ASSUME IInv, VInv, NEW id \in DOMAIN store.proposals, Close(id)
    PROVE  VInv'
  <1>1. PICK sender \in Peer : execute_close(sender, id)
    BY DEF Close
  <1> DEFINE hooks == CompletionHooks(store, id, "rejected", "closed")
  <1>2. /\ StoreInv(store) /\ height' = height /\ Begin(sender)
        /\ Loaded(id).status = "rejected"
        /\ store' = [store EXCEPT !.proposals[id] = [Loaded(id) EXCEPT !.status = "closed"]]
        /\ Respond(sender, hooks)
    BY <1>1 DEF IInv, execute_close
  <1>3. "closed" \in Status /\ "closed" \in Lifecycle!Later(Loaded(id).status)
        /\ Loaded(id).status # "executed"
    BY <1>2, LaterValues DEF Status
  <1>4. /\ store'.proposals =
               [store.proposals EXCEPT ![id] = [Loaded(id) EXCEPT !.status = "closed"]]
        /\ store'.ran = store.ran
        /\ id \in Nat
    BY <1>2, CompleteSaves
  <1>5. /\ Follows(store, store') /\ Sound(store', height, {})
        /\ id \in DOMAIN store'.proposals /\ store'.proposals[id].status = "closed"
    BY <1>2, <1>3, <1>4, BeginSound, CompleteVersion
  <1>6. hooks \in Seq(SubMsg) /\ Quiet(hooks, store')
    BY <1>2, <1>3, <1>4, <1>5, HookMsgsType, HooksQuiet
  <1> HIDE DEF hooks
  <1>7. Replies(hooks, store, store', height)
    BY <1>5, <1>6, QuietReplies
  <1> QED BY <1>2, <1>5, <1>6, <1>7, RespondKeepsVersions

\* The message that has the DAO run a proposal.
LEMMA ExecutionMsgsForm ==
    ASSUME NEW id \in Nat, NEW p, p.msgs \in MsgLists
    PROVE  /\ p.msgs = <<>> => ExecutionMsgs(id, p) = <<>>
           /\ p.msgs # <<>> => \E m \in SubMsg : /\ ExecutionMsgs(id, p) = <<m>>
                                                 /\ IsExecution(m) /\ m.body.id = id
                                                 /\ TaggedOK(m)
  <1> DEFINE body == [kind |-> "execute_proposal_hook", id |-> id, msgs |-> p.msgs]
             r == mask_proposal_execution_proposal_id(id)
  <1>1. body \in Body /\ body.kind = "execute_proposal_hook" /\ body.id = id
    BY DEF Body
  <1>2. Dao \in Peer /\ r \in Nat /\ id_after_shift(r) = id
        /\ reply_type(r) = FAILED_PROPOSAL_EXECUTION_MASK
    BY AddrAssumption, ReplyIdType, TagValues
  <1> HIDE DEF body, r
  <1>3. MsgReplyOnError(Dao, body, r) \in SubMsg /\ Msg(Dao, body) \in SubMsg
    BY <1>1, <1>2, PeerMsgType
  <1>4. ASSUME NEW m \in {MsgReplyOnError(Dao, body, r), Msg(Dao, body)}
        PROVE  m \in SubMsg /\ IsExecution(m) /\ m.body.id = id /\ TaggedOK(m)
    BY <1>1, <1>2, <1>3, <1>4 DEF MsgReplyOnError, Msg, IsExecution, TaggedOK
  <1>5. p.msgs = <<>> => ExecutionMsgs(id, p) = <<>>
    BY DEF ExecutionMsgs
  <1>6. p.msgs # <<>> => \/ ExecutionMsgs(id, p) = <<MsgReplyOnError(Dao, body, r)>>
                         \/ ExecutionMsgs(id, p) = <<Msg(Dao, body)>>
    BY DEF ExecutionMsgs, body, r
  <1> QED BY <1>4, <1>5, <1>6

\* execute_execute.
LEMMA ExecuteKeepsVersions ==
    ASSUME IInv, VInv, NEW id \in DOMAIN store.proposals, Execute(id)
    PROVE  VInv'
  <1>1. PICK sender \in Peer : execute_execute(sender, id)
    BY DEF Execute
  <1> DEFINE hooks == CompletionHooks(store, id, Loaded(id).status, "executed")
             all == ExecutionMsgs(id, Loaded(id)) \o hooks
  <1>2. /\ StoreInv(store) /\ height' = height /\ Begin(sender)
        /\ Loaded(id).status \in {"passed", "veto_timelock"}
        /\ store' = [store EXCEPT !.proposals[id] = [Loaded(id) EXCEPT !.status = "executed"]]
        /\ Respond(sender, all)
    BY <1>1 DEF IInv, execute_execute
  <1>3. "executed" \in Status /\ "executed" \in Lifecycle!Later(Loaded(id).status)
        /\ Loaded(id).status # "executed"
    BY <1>2, LaterValues DEF Status
  <1>4. /\ store'.proposals =
               [store.proposals EXCEPT ![id] = [Loaded(id) EXCEPT !.status = "executed"]]
        /\ store'.ran = store.ran
        /\ id \in Nat
    BY <1>2, CompleteSaves
  <1>5. /\ Follows(store, store')
        /\ id \in DOMAIN store'.proposals /\ store'.proposals[id].status = "executed"
        /\ Sound(store', height, {id}) /\ IsDue(store', id) /\ NotExecuted(store, id)
        /\ Loaded(id).msgs = <<>> => Sound(store', height, {})
    BY <1>2, <1>3, <1>4, BeginSound, CompleteVersion
  <1>6. hooks \in Seq(SubMsg) /\ Quiet(hooks, store')
    BY <1>2, <1>3, <1>4, <1>5, HookMsgsType, HooksQuiet
  <1>7. Loaded(id).msgs \in MsgLists
    BY <1>3, LoadedType
  <1>8. all \in Seq(SubMsg)
    BY <1>4, <1>6, <1>7, ExecutionMsgsType
  <1> HIDE DEF hooks
  <1>9. CASE Loaded(id).msgs = <<>>
    <2>1. all = hooks
      BY <1>4, <1>6, <1>7, <1>9, ExecutionMsgsForm
    <2>2. Replies(all, store, store', height)
      BY <1>5, <1>6, <1>9, <2>1, QuietReplies
    <2> HIDE DEF all
    <2> QED BY <1>2, <1>5, <1>8, <2>2, RespondKeepsVersions
  <1>10. CASE Loaded(id).msgs # <<>>
    <2>1. PICK m \in SubMsg : /\ ExecutionMsgs(id, Loaded(id)) = <<m>>
                              /\ IsExecution(m) /\ m.body.id = id /\ TaggedOK(m)
      BY <1>4, <1>7, <1>10, ExecutionMsgsForm
    <2>2. Replies(<<m>> \o hooks, store, store', height)
      BY <1>5, <1>6, <2>1, ExecutionReplies
    <2>3. Replies(all, store, store', height)
      BY <2>1, <2>2
    <2> HIDE DEF all
    <2> QED BY <1>2, <1>5, <1>8, <2>3, RespondKeepsVersions
  <1> QED BY <1>9, <1>10

\* The handlers of the DAO leave the proposals alone.
LEMMA DaoCallSaves ==
    ASSUME NEW s, StoreInv(s), NEW call \in DaoRequest
    PROVE  /\ AfterDaoCall(s, call).proposals = s.proposals
           /\ AfterDaoCall(s, call).ran = s.ran
  <1>1. s \in Store
    BY ConfigType
  <1>2. call.kind \in {"update_config", "update_pre_propose_info", "add_proposal_hook",
                       "remove_proposal_hook", "add_vote_hook", "remove_vote_hook"}
    BY DEF DaoMsg, DaoRequest
  <1> USE <1>1 DEF AfterDaoCall, Store
  <1>3. CASE call.kind = "update_config"
    BY <1>3 DEF execute_update_config
  <1>4. CASE call.kind = "update_pre_propose_info"
    BY <1>4 DEF execute_update_proposal_creation_policy
  <1>5. CASE call.kind = "add_proposal_hook"
    BY <1>5 DEF execute_add_proposal_hook
  <1>6. CASE call.kind = "remove_proposal_hook"
    BY <1>6 DEF execute_remove_proposal_hook
  <1>7. CASE call.kind = "add_vote_hook"
    BY <1>7 DEF execute_add_vote_hook
  <1>8. CASE call.kind = "remove_vote_hook"
    BY <1>8 DEF execute_remove_vote_hook
  <1> QED BY <1>2, <1>3, <1>4, <1>5, <1>6, <1>7, <1>8

\* A call of the DAO from another module's transaction.
LEMMA DaoCallKeepsVersions ==
    ASSUME IInv, VInv, NEW call \in DaoCalls, DaoCall(call)
    PROVE  VInv'
  <1>1. call \in DaoRequest /\ Dao \in Peer
    BY MsgAssumption, AddrAssumption
  <1>2. /\ StoreInv(store) /\ height' = height /\ Begin(Dao)
        /\ store' = AfterDaoCall(store, call)
        /\ Respond(Dao, DaoCallMsgs(call))
    BY DEF IInv, DaoCall, Begin
  <1>3. Follows(store, store') /\ Sound(store', height, {})
    BY <1>1, <1>2, BeginSound, DaoCallSaves, SameProposals
  <1>4. DaoCallMsgs(call) \in Seq(SubMsg) /\ Quiet(DaoCallMsgs(call), store')
    BY <1>1, DaoCallMsgsType, DaoMsgsQuiet
  <1>5. Replies(DaoCallMsgs(call), store, store', height)
    BY <1>3, <1>4, QuietReplies
  <1> QED BY <1>1, <1>2, <1>3, <1>4, <1>5, RespondKeepsVersions

----------------------------------------------------------------------------
(* The steps of a transaction *)

\* Running a proposal's messages counts it as run.
LEMMA RunVersion ==
    ASSUME NEW s, StoreInv(s), NEW now, NEW id, Sound(s, now, {id}), IsDue(s, id),
           NEW t, t = [s EXCEPT !.ran[id] = @ + 1]
    PROVE  Follows(s, t) /\ Sound(t, now, {}) /\ t.proposals = s.proposals
  <1>1. s \in Store /\ s.ran \in Seq(Nat)
    BY ConfigType
  <1>2. /\ \A i \in DOMAIN s.proposals : i \in DOMAIN s.ran /\ s.ran[i] \in Nat
        /\ id \in DOMAIN s.ran /\ s.ran[id] = 0 /\ id \in DOMAIN s.proposals
        /\ s.proposals[id].status = "executed"
    BY StatusType DEF IsDue
  <1>3. t.proposals = s.proposals /\ t.ran = [s.ran EXCEPT ![id] = @ + 1]
    BY <1>1 DEF Store
  <1>4. t.ran[id] = 1 /\ \A i \in DOMAIN s.proposals : i # id => t.ran[i] = s.ran[i]
    BY <1>2, <1>3
  <1>5. Follows(s, t)
    <2>1. \A i \in DOMAIN s.proposals :
              s.proposals[i].status \in Lifecycle!Later(s.proposals[i].status)
      BY StatusType, LaterOrder
    <2> QED BY <1>3, <2>1 DEF Follows
  <1>6. Counted(t)
    BY <1>2, <1>3, <1>4 DEF Sound, Counted
  <1>7. Unlocked(t, now)
    BY <1>3 DEF Sound, Unlocked
  <1>8. Settled(t, {})
    BY <1>3, <1>4 DEF Sound, Settled
  <1> QED BY <1>3, <1>5, <1>6, <1>7, <1>8 DEF Sound

\* The elements of a tail.
LEMMA TailElements ==
    ASSUME NEW S, NEW s \in Seq(S), s # <<>>
    PROVE  /\ Tail(s) \in Seq(S)
           /\ 1 \in DOMAIN s /\ Head(s) = s[1]
           /\ \A i \in DOMAIN Tail(s) : i + 1 \in DOMAIN s /\ Tail(s)[i] = s[i + 1]
  OBVIOUS

\* What is known of the next message and of the ones after it.
LEMMA NextMsgVersions ==
    ASSUME IInv, VInv, Running, Top.pending # <<>>
    PROVE  /\ NextMsg = Top.pending[1]
           /\ NextMsg \in SubMsg /\ Tail(Top.pending) \in Seq(SubMsg)
           /\ TaggedOK(NextMsg) /\ Reached(store, NextMsg.body)
           /\ Quiet(Tail(Top.pending), store)
           /\ ~IsExecution(NextMsg) => Sound(store, height, {})
           /\ IsExecution(NextMsg) =>
                  /\ Sound(store, height, {NextMsg.body.id})
                  /\ IsDue(store, NextMsg.body.id)
                  /\ \A k \in DOMAIN stack : NotExecuted(stack[k].saved, NextMsg.body.id)
  <1> DEFINE msgs == Top.pending
  <1>1. /\ stack # <<>> /\ Top = stack[Len(stack)] /\ Len(stack) \in DOMAIN stack
        /\ Top \in FrameType /\ Top = Last(stack)
    BY TopType DEF IInv, Running, Top
  <1>2. msgs \in Seq(SubMsg)
    BY <1>1 DEF FrameType
  <1>3. /\ Tail(msgs) \in Seq(SubMsg) /\ 1 \in DOMAIN msgs /\ Head(msgs) = msgs[1]
        /\ \A i \in DOMAIN Tail(msgs) : i + 1 \in DOMAIN msgs /\ Tail(msgs)[i] = msgs[i + 1]
    <2> HIDE DEF msgs
    <2> QED BY <1>2, TailElements DEF msgs
  <1>4. NextMsg = msgs[1] /\ NextMsg \in SubMsg
    BY <1>2, <1>3 DEF NextMsg
  <1>5. \A i \in DOMAIN msgs : TaggedOK(msgs[i]) /\ Reached(store, msgs[i].body)
    BY <1>1 DEF VInv, History, FramesOK, FrameOK, CurrentOK, LaterVersion, Reported
  <1>6. Awaits(msgs, stack, store, height)
    BY <1>1 DEF VInv, DueOK
  <1> HIDE DEF msgs
  <1>7. NoExecution(Tail(msgs))
    BY <1>3, <1>6 DEF Awaits, NoExecution
  <1>8. Quiet(Tail(msgs), store)
    BY <1>3, <1>5, <1>7 DEF Quiet, NoExecution
  <1>9. ~IsExecution(msgs[1]) => Sound(store, height, {})
    BY <1>6 DEF Awaits
  <1>10. IsExecution(msgs[1]) =>
             /\ Sound(store, height, {msgs[1].body.id})
             /\ IsDue(store, msgs[1].body.id)
             /\ \A k \in DOMAIN stack : NotExecuted(stack[k].saved, msgs[1].body.id)
    BY <1>3, <1>6 DEF Awaits, NoExecution
  <1> QED BY <1>3, <1>4, <1>5, <1>8, <1>9, <1>10 DEF msgs

\* A stack whose topmost frame has other messages to run.
WithPending(st, msgs) == [st EXCEPT ![Len(st)].pending = msgs]

\* The topmost frame gets other, quiet messages.
LEMMA WithQuiet ==
    ASSUME IInv, VInv, Running, NEW t, Follows(store, t),
           NEW msgs \in Seq(SubMsg), Quiet(msgs, t)
    PROVE  /\ StackInv(WithPending(stack, msgs)) /\ WithPending(stack, msgs) # <<>>
           /\ History(WithPending(stack, msgs), t, height)
           /\ Sound(t, height, {}) => DueOK(WithPending(stack, msgs), t, height)
           /\ Last(WithPending(stack, msgs)).pending = msgs
           /\ DOMAIN WithPending(stack, msgs) = DOMAIN stack
           /\ \A k \in DOMAIN stack : WithPending(stack, msgs)[k].saved = stack[k].saved
  <1> DEFINE n == Len(stack)
             f == [stack[n] EXCEPT !.pending = msgs]
             st == WithPending(stack, msgs)
  <1>1. /\ stack # <<>> /\ StackInv(stack) /\ n \in DOMAIN stack
        /\ stack[n] \in FrameType /\ stack \in Seq(FrameType) /\ StoreInv(stack[n].saved)
    BY TopType DEF IInv, Running, StackInv
  <1>2. /\ f \in FrameType /\ f.saved = stack[n].saved /\ f.body = stack[n].body
        /\ f.reply_on = stack[n].reply_on /\ f.reply_id = stack[n].reply_id
        /\ f.pending = msgs
    BY <1>1 DEF FrameType
  <1>3. st = [stack EXCEPT ![n] = f]
    BY <1>1 DEF WithPending
  <1> HIDE DEF f
  <1>4. NoExecution(msgs)
    BY DEF Quiet, NoExecution
  <1>5. \A i \in DOMAIN f.pending : TaggedOK(f.pending[i]) /\ Reached(t, f.pending[i].body)
    BY <1>2 DEF Quiet
  <1>6. /\ History([stack EXCEPT ![n] = f], t, height)
        /\ Awaits(f.pending, stack, t, height) => DueOK([stack EXCEPT ![n] = f], t, height)
    BY <1>1, <1>2, <1>4, <1>5, ReplaceTop DEF VInv
  <1>7. Sound(t, height, {}) => Awaits(f.pending, stack, t, height)
    BY <1>2, <1>4 DEF Awaits
  <1>8. StackInv([stack EXCEPT ![n] = f])
    BY <1>1, <1>2, Replace
  <1> DEFINE new == [stack EXCEPT ![n] = f]
  <1>9. /\ new # <<>> /\ Last(new) = f /\ DOMAIN new = DOMAIN stack
        /\ \A k \in DOMAIN stack : new[k] = IF k = n THEN f ELSE stack[k]
    <2>1. new \in Seq(FrameType) /\ Len(new) = n /\ DOMAIN new = DOMAIN stack
      BY <1>1, <1>2, SeqExcept
    <2>2. \A k \in DOMAIN stack : new[k] = IF k = n THEN f ELSE stack[k]
      BY <1>1
    <2>3. new[n] = f
      BY <1>1, <2>2
    <2> HIDE DEF new
    <2> QED BY <1>1, <2>1, <2>2, <2>3 DEF Last
  <1> HIDE DEF new, st
  <1>10. st = new
    BY <1>3 DEF new
  <1> QED BY <1>2, <1>6, <1>7, <1>8, <1>9, <1>10 DEF st, new

\* A message is delivered to another contract.
LEMMA DispatchKeepsVersions ==
    ASSUME IInv, VInv, Dispatch
    PROVE  VInv'
  <1> DEFINE m == NextMsg
             execution == m.body.kind = "execute_proposal_hook"
             sent == IF execution THEN ProposalMsgs(m.body.msgs) ELSE <<>>
             f == Frame(m, store, sent, FALSE)
             st == Advance(stack)
  <1>1. Running /\ Top.pending # <<>> /\ height' = height /\ StoreInv(store)
        /\ store \in Store
    BY ConfigType DEF Dispatch, IInv
  <1>2. /\ m \in SubMsg /\ Tail(Top.pending) \in Seq(SubMsg)
        /\ TaggedOK(m) /\ Reached(store, m.body) /\ Quiet(Tail(Top.pending), store)
        /\ ~execution => Sound(store, height, {})
        /\ execution => /\ Sound(store, height, {m.body.id}) /\ IsDue(store, m.body.id)
                        /\ \A k \in DOMAIN stack : NotExecuted(stack[k].saved, m.body.id)
    BY <1>1, NextMsgVersions DEF IsExecution
  <1>3. st = WithPending(stack, Tail(Top.pending))
    BY DEF Advance, Top, Last, WithPending
  <1>4. Follows(store, store)
    BY <1>1, FollowsOrder
  <1>5. /\ StackInv(st) /\ st # <<>> /\ History(st, store, height)
        /\ NoExecution(Last(st).pending)
        /\ DOMAIN st = DOMAIN stack
        /\ \A k \in DOMAIN st : st[k].saved = stack[k].saved
    <2> DEFINE rest == Tail(Top.pending)
    <2>1. rest \in Seq(SubMsg) /\ Quiet(rest, store)
          /\ st = WithPending(stack, rest)
      BY <1>2, <1>3
    <2>2. NoExecution(rest)
      BY <2>1 DEF Quiet, NoExecution
    <2> HIDE DEF rest, st
    <2>3. /\ StackInv(st) /\ st # <<>> /\ History(st, store, height)
          /\ Last(st).pending = rest /\ DOMAIN st = DOMAIN stack
          /\ \A k \in DOMAIN st : st[k].saved = stack[k].saved
      BY <1>1, <1>4, <2>1, WithQuiet
    <2> QED BY <2>2, <2>3
  <1>6. m.to \in Peer /\ m.body \in Body /\ m.reply_id \in Nat
        /\ m.reply_on \in {"never", "error", "success"}
    BY <1>2 DEF SubMsg, Peer, Dispatch, IsDaoCall
  <1>7. sent \in Seq(SubMsg) /\ \A t : Quiet(sent, t)
    <2>1. CASE execution
      <3>1. m.body.msgs \in MsgLists
        BY <1>6, <2>1 DEF Body, DaoMsg
      <3> QED BY <2>1, <3>1, ProposalMsgsType, DaoMsgsQuiet
    <2>2. CASE ~execution
      BY <2>2 DEF Quiet
    <2> QED BY <2>1, <2>2
  <1>8. store' = IF execution THEN [store EXCEPT !.ran[m.body.id] = @ + 1] ELSE store
    BY DEF Dispatch
  <1>9. Follows(store, store') /\ Sound(store', height, {}) /\ store'.proposals = store.proposals
    <2>1. CASE execution
      BY <1>1, <1>2, <1>8, <2>1, RunVersion
    <2>2. CASE ~execution
      BY <1>2, <1>4, <1>8, <2>2
    <2> QED BY <2>1, <2>2
  <1>10. stack' = Append(st, f)
    BY DEF Dispatch
  <1> HIDE DEF m, sent, st
  <1>11. /\ f \in FrameType /\ f.saved = store /\ f.pending = sent /\ f.called = FALSE
         /\ f.body = m.body /\ f.reply_on = m.reply_on /\ f.reply_id = m.reply_id
    BY <1>1, <1>6, <1>7 DEF FrameType, Frame
  <1> HIDE DEF f
  <1>12. IsExecution(f) <=> execution
    BY <1>11 DEF IsExecution
  <1>13. TaggedOK(f) /\ Reached(store', f.body)
    BY <1>2, <1>9, <1>11 DEF TaggedOK, IsExecution, Reached
  <1>14. Sound(store, height, DueIds(f))
    BY <1>2, <1>11, <1>12 DEF DueIds
  <1>15. /\ \A i \in DOMAIN f.pending : TaggedOK(f.pending[i]) /\ Reached(store', f.pending[i].body)
         /\ NoExecution(f.pending)
    BY <1>7, <1>11 DEF Quiet, NoExecution
  <1>16. IsExecution(f) => /\ IsDue(store, f.body.id)
                           /\ \A k \in DOMAIN st : NotExecuted(st[k].saved, f.body.id)
    BY <1>2, <1>5, <1>11, <1>12
  <1>17. /\ History(Append(st, f), store', height)
         /\ Awaits(f.pending, Append(st, f), store', height)
                => DueOK(Append(st, f), store', height)
    BY <1>1, <1>5, <1>9, <1>11, <1>13, <1>14, <1>15, <1>16, PushFrame
  <1>18. Awaits(f.pending, Append(st, f), store', height)
    BY <1>9, <1>15 DEF Awaits
  <1> QED BY <1>1, <1>10, <1>17, <1>18 DEF VInv

\* A message of the DAO to this contract is none of the others.
LEMMA RequestQuiet ==
    ASSUME NEW m \in SubMsg, m.to = Self
    PROVE  m.body \in DaoRequest /\ ~IsExecution(m)
  BY DEF SubMsg, DaoRequest, DaoMsg, IsExecution

\* A failed execution: the proposal the frame has saved as executed has failed
\* instead, and its messages have not run.
LEMMA FailedExecution ==
    ASSUME NEW s, StoreInv(s), NEW now, NEW id, Sound(s, now, {id}), IsDue(s, id),
           NEW t, t = [s EXCEPT !.proposals[id].status = "execution_failed"]
    PROVE  /\ Sound(t, now, {})
           /\ \A f \in FrameType :
                  (StoreInv(f.saved) /\ LaterVersion(f, s) /\ NotExecuted(f.saved, id))
                      => LaterVersion(f, t)
  <1> DEFINE p == [s.proposals[id] EXCEPT !.status = "execution_failed"]
  <1>1. s \in Store
    BY ConfigType
  <1>2. /\ id \in DOMAIN s.proposals /\ s.proposals[id].status = "executed" /\ s.ran[id] = 0
        /\ s.proposals[id] \in Proposal(Addr, MsgLists)
    BY StatusType DEF IsDue
  <1>3. t.proposals = [s.proposals EXCEPT ![id] = p] /\ t.ran = s.ran
    BY <1>1 DEF Store
  <1>4. p.status = "execution_failed"
    BY <1>2 DEF Proposal
  <1> HIDE DEF p
  <1>5. /\ DOMAIN t.proposals = DOMAIN s.proposals
        /\ t.proposals[id].status = "execution_failed"
        /\ \A i \in DOMAIN s.proposals : i # id => t.proposals[i] = s.proposals[i]
    BY <1>2, <1>3, <1>4
  <1>6. Sound(t, now, {})
    <2>1. Counted(t)
      BY <1>2, <1>3, <1>5 DEF Sound, Counted
    <2>2. Unlocked(t, now)
      BY <1>5 DEF Sound, Unlocked
    <2>3. Settled(t, {})
      BY <1>3, <1>5 DEF Sound, Settled
    <2> QED BY <2>1, <2>2, <2>3 DEF Sound
  <1>7. ASSUME NEW body \in Body, Reached(s, body)
        PROVE  Reached(t, body)
    <2> SUFFICES ASSUME body.kind \in {"status_changed", "completed"}
                 PROVE  /\ body.id \in DOMAIN t.proposals
                        /\ t.proposals[body.id].status \in ReachableFrom(body.status)
      BY DEF Reached
    <2>1. /\ body.id \in DOMAIN s.proposals
          /\ s.proposals[body.id].status \in ReachableFrom(body.status)
      BY <1>7 DEF Reached
    <2>2. body.status \in Status
      BY DEF Body, DaoMsg
    <2>3. CASE body.id = id
      BY <1>2, <1>5, <2>1, <2>2, <2>3, ReachableOrder
    <2>4. CASE body.id # id
      BY <1>5, <2>1, <2>4
    <2> QED BY <2>3, <2>4
  <1>8. ASSUME NEW f \in FrameType, StoreInv(f.saved), LaterVersion(f, s),
               NotExecuted(f.saved, id)
        PROVE  LaterVersion(f, t)
    <2>1. f.body \in Body /\ \A i \in DOMAIN f.pending : f.pending[i].body \in Body
      BY DEF FrameType, SubMsg
    <2>2. Reported(f, t)
      BY <1>7, <1>8, <2>1 DEF LaterVersion, Reported
    <2>3. ASSUME NEW i \in DOMAIN f.saved.proposals
          PROVE  /\ i \in DOMAIN t.proposals
                 /\ t.proposals[i].status \in Lifecycle!Later(f.saved.proposals[i].status)
      <3>1. /\ i \in DOMAIN s.proposals
            /\ s.proposals[i].status \in Lifecycle!Later(f.saved.proposals[i].status)
        BY <1>8, <2>3 DEF LaterVersion, Follows
      <3>2. CASE i = id
        <4>1. f.saved.proposals[i].status \in Status
              /\ f.saved.proposals[i].status # "executed"
          BY <1>8, <2>3, <3>2, StatusType DEF NotExecuted
        <4> QED BY <1>2, <1>5, <3>1, <3>2, <4>1, LaterOrder
      <3>3. CASE i # id
        BY <1>5, <3>1, <3>3
      <3> QED BY <3>2, <3>3
    <2>4. Follows(f.saved, t)
      BY <2>3 DEF Follows
    <2> QED BY <2>2, <2>4 DEF LaterVersion
  <1> QED BY <1>6, <1>8

\* The reply to a failed hook leaves the proposals alone.
LEMMA FailedHook ==
    ASSUME NEW s, StoreInv(s), NEW reply_id, ReplyAccepted(s, reply_id)
    PROVE  /\ reply_type(reply_id) = FAILED_PROPOSAL_EXECUTION_MASK
                  => /\ AfterFailureReply(s, reply_id) =
                            [s EXCEPT !.proposals[id_after_shift(reply_id)].status =
                                          "execution_failed"]
           /\ reply_type(reply_id) # FAILED_PROPOSAL_EXECUTION_MASK
                  => /\ AfterFailureReply(s, reply_id).proposals = s.proposals
                     /\ AfterFailureReply(s, reply_id).ran = s.ran
                     /\ AfterFailureReply(s, reply_id).config = s.config
  <1> DEFINE type == reply_type(reply_id)
  <1> USE DEF FAILED_PROPOSAL_EXECUTION_MASK, FAILED_PROPOSAL_HOOK_MASK,
              FAILED_VOTE_HOOK_MASK, FAILED_PRE_PROPOSE_MODULE_HOOK_ID
  <1>1. s \in Store
    BY ConfigType
  <1>2. type \in {0, 1, 2, 4}
    BY DEF ReplyAccepted
  <1> HIDE DEF type
  <1>3. CASE type = 0
    BY <1>3 DEF AfterFailureReply, type
  <1> DEFINE value == id_after_shift(reply_id)
             ph == remove_hook_by_index(s.proposal_hooks, value)
             vh == remove_hook_by_index(s.vote_hooks, value)
  <1>5. /\ type = 1 => AfterFailureReply(s, reply_id) = [s EXCEPT !.proposal_hooks = ph]
        /\ type = 2 => AfterFailureReply(s, reply_id) = [s EXCEPT !.vote_hooks = vh]
        /\ type = 4 => AfterFailureReply(s, reply_id) = [s EXCEPT !.policy = Anyone]
    BY DEF AfterFailureReply, type
  <1> HIDE DEF ph, vh
  <1>6. /\ [s EXCEPT !.proposal_hooks = ph].proposals = s.proposals
        /\ [s EXCEPT !.proposal_hooks = ph].ran = s.ran
        /\ [s EXCEPT !.proposal_hooks = ph].config = s.config
        /\ [s EXCEPT !.vote_hooks = vh].proposals = s.proposals
        /\ [s EXCEPT !.vote_hooks = vh].ran = s.ran
        /\ [s EXCEPT !.vote_hooks = vh].config = s.config
        /\ [s EXCEPT !.policy = Anyone].proposals = s.proposals
        /\ [s EXCEPT !.policy = Anyone].ran = s.ran
        /\ [s EXCEPT !.policy = Anyone].config = s.config
    BY <1>1 DEF Store
  <1>8. type # 0 => /\ AfterFailureReply(s, reply_id).proposals = s.proposals
                    /\ AfterFailureReply(s, reply_id).ran = s.ran
                    /\ AfterFailureReply(s, reply_id).config = s.config
    <2>1. CASE type = 1
      BY <1>5, <1>6, <2>1
    <2>2. CASE type = 2
      BY <1>5, <1>6, <2>2
    <2>3. CASE type = 4
      BY <1>5, <1>6, <2>3
    <2> QED BY <1>2, <2>1, <2>2, <2>3
  <1> QED BY <1>3, <1>8 DEF type

\* An error brings back a storage in which everything below it is in order.
LEMMA UnwindKeepsVersions ==
    ASSUME IInv, VInv, stack # <<>>, Unwind, height' = height
    PROVE  VInv'
  <1>1. /\ StackInv(stack) /\ stack \in Seq(FrameType) /\ Len(stack) \in Nat \ {0}
        /\ DOMAIN stack = 1 .. Len(stack)
        /\ FramesOK(stack, height) /\ VersionsOK(stack)
    BY TopType DEF IInv, StackInv, VInv, History
  <1>2. CASE store' = stack[1].saved /\ stack' = <<>>
    <2>1. Sound(stack[1].saved, height, {})
      <3>1. 1 \in DOMAIN stack
        BY <1>1
      <3>2. FrameOK(stack[1], height) /\ ~IsExecution(stack[1])
        BY <1>1, <3>1 DEF FramesOK
      <3>3. DueIds(stack[1]) = {}
        BY <3>2 DEF DueIds
      <3> QED BY <3>2, <3>3 DEF FrameOK
    <2>2. FramesOK(<<>>, height) /\ VersionsOK(<<>>) /\ CurrentOK(<<>>, store')
      BY DEF FramesOK, VersionsOK, CurrentOK
    <2> QED BY <1>2, <2>1, <2>2 DEF VInv, History, DueOK
  <1>3. CASE \E k \in CatchingFrames :
                 /\ store' = AfterFailureReply(stack[k].saved, stack[k].reply_id)
                 /\ stack' = SubSeq(stack, 1, k - 1)
    <2>1. PICK k \in CatchingFrames :
                 /\ store' = AfterFailureReply(stack[k].saved, stack[k].reply_id)
                 /\ stack' = SubSeq(stack, 1, k - 1)
      BY <1>3
    <2> DEFINE s == stack[k].saved
               r == stack[k].reply_id
    <2>2. /\ k \in DOMAIN stack /\ ReplyAccepted(s, r) /\ stack[k].reply_on = "error"
      BY DEF CatchingFrames
    <2>3. StoreInv(s) /\ stack[k] \in FrameType
      BY <1>1, <2>2 DEF StackInv
    <2>4. FrameOK(stack[k], height)
      BY <1>1, <2>2 DEF FramesOK
    <2>5. /\ IsExecution(stack[k]) <=> reply_type(r) = FAILED_PROPOSAL_EXECUTION_MASK
          /\ IsExecution(stack[k]) => id_after_shift(r) = stack[k].body.id
          /\ Sound(s, height, DueIds(stack[k]))
      BY <2>2, <2>4 DEF FrameOK, TaggedOK
    <2>6. \A j \in 1 .. k - 1 :
              /\ stack[j] \in FrameType /\ StoreInv(stack[j].saved)
              /\ LaterVersion(stack[j], s)
              /\ IsExecution(stack[k]) => NotExecuted(stack[j].saved, stack[k].body.id)
      <3>1. \A j \in 1 .. k - 1 : j \in DOMAIN stack
        BY <1>1, <2>2
      <3> QED BY <1>1, <2>2, <3>1 DEF StackInv, VersionsOK
    <2>7. Sound(store', height, {}) /\ \A j \in 1 .. k - 1 : LaterVersion(stack[j], store')
      <3>1. CASE IsExecution(stack[k])
        <4> DEFINE id == stack[k].body.id
        <4>1. Sound(s, height, {id}) /\ IsDue(s, id)
          BY <1>1, <2>2, <2>5, <3>1 DEF DueIds, VersionsOK
        <4>2. store' = [s EXCEPT !.proposals[id].status = "execution_failed"]
          BY <2>1, <2>2, <2>3, <2>5, <3>1, FailedHook
        <4> HIDE DEF s, id
        <4>3. /\ Sound(store', height, {})
              /\ \A f \in FrameType :
                     (StoreInv(f.saved) /\ LaterVersion(f, s) /\ NotExecuted(f.saved, id))
                         => LaterVersion(f, store')
          BY <2>3, <4>1, <4>2, FailedExecution
        <4> QED BY <2>6, <3>1, <4>3 DEF id
      <3>2. CASE ~IsExecution(stack[k])
        <4>1. Sound(s, height, {})
          BY <2>5, <3>2 DEF DueIds
        <4>2. store'.proposals = s.proposals /\ store'.ran = s.ran
          BY <2>1, <2>2, <2>3, <2>5, <3>2, FailedHook
        <4> HIDE DEF s
        <4>3. Follows(s, store') /\ Sound(store', height, {})
          BY <2>3, <4>1, <4>2, SameProposals
        <4> QED BY <2>6, <4>3, LaterVersions
      <3> QED BY <3>1, <3>2
    <2>8. k - 1 \in Nat /\ k - 1 < Len(stack)
      BY <1>1, <2>2
    <2>9. History(stack', store', height) /\ DueOK(stack', store', height)
      BY <1>1, <2>1, <2>7, <2>8, PopFrames
    <2> QED BY <2>9 DEF VInv
  <1> QED BY <1>2, <1>3 DEF Unwind

\* A message of the DAO is handled, or refused.
LEMMA DispatchDaoCallKeepsVersions ==
    ASSUME IInv, VInv, DispatchDaoCall
    PROVE  VInv'
  <1> DEFINE call == NextMsg.body
             rest == Tail(Top.pending)
             msgs == DaoCallMsgs(call) \o rest
  <1>1. Running /\ Top.pending # <<>> /\ height' = height /\ NextMsg.to = Self
        /\ StoreInv(store)
    BY DEF DispatchDaoCall, IInv, IsDaoCall
  <1>2. /\ NextMsg \in SubMsg /\ rest \in Seq(SubMsg) /\ Quiet(rest, store)
        /\ ~IsExecution(NextMsg) => Sound(store, height, {})
    BY <1>1, NextMsgVersions
  <1>3. call \in DaoRequest /\ Sound(store, height, {})
    BY <1>1, <1>2, RequestQuiet
  <1>4. CASE /\ store' = AfterDaoCall(store, call)
             /\ stack' = [stack EXCEPT ![Len(stack)].pending = DaoCallMsgs(call) \o Tail(@)]
    <2>1. /\ store'.proposals = store.proposals /\ store'.ran = store.ran
          /\ Follows(store, store') /\ Sound(store', height, {})
      BY <1>1, <1>3, <1>4, DaoCallSaves, SameProposals
    <2>2. DaoCallMsgs(call) \in Seq(SubMsg) /\ Quiet(DaoCallMsgs(call), store')
      BY <1>3, DaoCallMsgsType, DaoMsgsQuiet
    <2>3. Quiet(rest, store')
      BY <1>2, <2>1 DEF Quiet, Reached
    <2>4. stack' = WithPending(stack, msgs)
      BY <1>4 DEF WithPending, Top, Last
    <2> HIDE DEF rest, call
    <2>5. msgs \in Seq(SubMsg) /\ Quiet(msgs, store')
      <3> DEFINE first == DaoCallMsgs(call)
      <3> HIDE DEF first
      <3>1. first \in Seq(SubMsg) /\ Quiet(first, store')
        BY <2>2 DEF first
      <3>2. first \o rest \in Seq(SubMsg) /\ Quiet(first \o rest, store')
        BY <1>2, <2>3, <3>1, QuietConcat
      <3> QED BY <3>2 DEF first
    <2> HIDE DEF msgs
    <2>6. History(stack', store', height) /\ DueOK(stack', store', height)
      BY <1>1, <2>1, <2>4, <2>5, WithQuiet
    <2> QED BY <1>1, <2>6 DEF VInv
  <1>5. CASE Unwind
    BY <1>1, <1>5, UnwindKeepsVersions DEF Running
  <1> QED BY <1>4, <1>5 DEF DispatchDaoCall

\* A call ends well.
LEMMA ReturnKeepsVersions ==
    ASSUME IInv, VInv, Return
    PROVE  VInv'
  <1>1. /\ stack # <<>> /\ height' = height /\ Top.pending = <<>> /\ StoreInv(store)
        /\ StackInv(stack) /\ stack \in Seq(FrameType) /\ Len(stack) \in Nat \ {0}
        /\ DOMAIN stack = 1 .. Len(stack)
        /\ FramesOK(stack, height) /\ VersionsOK(stack) /\ CurrentOK(stack, store)
    BY TopType DEF Return, Running, IInv, StackInv, VInv, History
  <1>2. Sound(store, height, {})
    <2>1. NoExecution(Last(stack).pending)
      BY <1>1 DEF Top, NoExecution
    <2> QED BY <1>1, <2>1 DEF VInv, DueOK, Awaits
  <1>3. store'.proposals = store.proposals /\ store'.ran = store.ran
    <2>1. store \in Store
      BY <1>1, ConfigType
    <2> QED BY <2>1 DEF Return, AfterInstantiateReply, Store
  <1>4. Follows(store, store') /\ Sound(store', height, {})
    BY <1>1, <1>2, <1>3, SameProposals
  <1>5. \A k \in DOMAIN stack : LaterVersion(stack[k], store')
    <2>1. \A k \in DOMAIN stack : /\ stack[k] \in FrameType /\ StoreInv(stack[k].saved)
                                  /\ LaterVersion(stack[k], store)
      BY <1>1 DEF StackInv, CurrentOK
    <2> QED BY <1>4, <2>1, LaterVersions
  <1>6. stack' = SubSeq(stack, 1, Len(stack) - 1)
    BY DEF Return, Front
  <1>7. /\ Len(stack) - 1 \in Nat /\ Len(stack) - 1 < Len(stack)
        /\ \A k \in 1 .. Len(stack) - 1 : LaterVersion(stack[k], store')
    BY <1>1, <1>5
  <1>8. History(stack', store', height) /\ DueOK(stack', store', height)
    <2> DEFINE n == Len(stack) - 1
    <2>1. n \in Nat /\ n < Len(stack) /\ stack' = SubSeq(stack, 1, n)
          /\ \A k \in 1 .. n : LaterVersion(stack[k], store')
      BY <1>6, <1>7
    <2> HIDE DEF n
    <2> QED BY <1>1, <1>4, <2>1, PopFrames
  <1> QED BY <1>1, <1>8 DEF VInv

\* A call fails.
LEMMA RaiseKeepsVersions ==
    ASSUME IInv, VInv, Raise
    PROVE  VInv'
  BY UnwindKeepsVersions DEF Raise, Running

----------------------------------------------------------------------------
(* The invariant holds *)

\* Between transactions nothing is saved but the storage.
LEMMA EmptyHistory ==
    ASSUME NEW s, NEW now
    PROVE  /\ History(<<>>, s, now)
           /\ DueOK(<<>>, s, now) <=> Sound(s, now, {})
  <1>1. DOMAIN <<>> = {}
    OBVIOUS
  <1>2. FramesOK(<<>>, now) /\ VersionsOK(<<>>) /\ CurrentOK(<<>>, s)
    BY <1>1 DEF FramesOK, VersionsOK, CurrentOK
  <1> QED BY <1>2 DEF History, DueOK

\* Time only ends timelocks.
LEMMA TickKeepsVersions ==
    ASSUME IInv, VInv, Tick
    PROVE  VInv'
  <1>1. stack = <<>> /\ stack' = <<>> /\ store' = store /\ height' = height + 1
    BY DEF Tick
  <1>2. Sound(store, height, {})
    BY <1>1, EmptyHistory DEF VInv
  <1>3. Unlocked(store, height + 1)
    <2> SUFFICES ASSUME NEW id \in DOMAIN store.proposals,
                        store.proposals[id].status = "passed",
                        store.proposals[id].veto.kind = "veto"
                 PROVE  is_expired(timelock_expiration(store.proposals[id]), height + 1)
      BY DEF Unlocked
    <2>1. is_expired(timelock_expiration(store.proposals[id]), height)
      BY <1>2 DEF Sound, Unlocked
    <2>2. store.proposals[id] \in Proposal(Addr, MsgLists) /\ height \in Nat
      BY StatusType, BoundAssumption DEF IInv, Heights
    <2>3. /\ store.proposals[id].expiration \in Nat
          /\ store.proposals[id].veto \in {NoVeto} \cup VetoConfig(Addr)
      BY <2>2 DEF Proposal
    <2>4. store.proposals[id].veto.timelock_duration \in Nat
      BY <2>3 DEF NoVeto, VetoConfig
    <2> QED BY <2>1, <2>2, <2>3, <2>4 DEF is_expired, timelock_expiration
  <1>4. Sound(store, height + 1, {})
    BY <1>2, <1>3 DEF Sound
  <1> QED BY <1>1, <1>4, EmptyHistory DEF VInv

LEMMA InitVInv == Init => VInv
  <1> SUFFICES ASSUME Init PROVE VInv
    OBVIOUS
  <1>1. stack = <<>> /\ store.proposals = <<>>
    BY DEF Init
  <1>2. Sound(store, height, {})
    BY <1>1 DEF Sound, Counted, Unlocked, Settled
  <1> QED BY <1>1, <1>2, EmptyHistory DEF VInv

LEMMA NextVInv == IInv /\ VInv /\ [Next]_vars => VInv'
  <1> SUFFICES ASSUME IInv, VInv, [Next]_vars PROVE VInv'
    OBVIOUS
  <1>1. CASE Propose
    BY <1>1, ProposeKeepsVersions
  <1>2. CASE CastVote
    BY <1>2, CastVoteKeepsVersions
  <1>3. CASE UpdateRationale
    BY <1>3, UpdateRationaleKeepsVersions
  <1>4. CASE Veto
    BY <1>4, VetoKeepsVersions
  <1>5. ASSUME NEW id \in DOMAIN store.proposals, Execute(id)
        PROVE  VInv'
    BY <1>5, ExecuteKeepsVersions
  <1>6. ASSUME NEW id \in DOMAIN store.proposals, Close(id)
        PROVE  VInv'
    BY <1>6, CloseKeepsVersions
  <1>7. ASSUME NEW call \in DaoCalls, DaoCall(call)
        PROVE  VInv'
    BY <1>7, DaoCallKeepsVersions
  <1>8. CASE TransactionStep
    BY <1>8, DispatchKeepsVersions, DispatchDaoCallKeepsVersions, ReturnKeepsVersions,
       RaiseKeepsVersions DEF TransactionStep
  <1>9. CASE Tick
    BY <1>9, TickKeepsVersions
  <1>10. CASE UNCHANGED vars
    BY <1>10 DEF vars, VInv
  <1> QED BY <1>1, <1>2, <1>3, <1>4, <1>5, <1>6, <1>7, <1>8, <1>9, <1>10 DEF Next

LEMMA VersionsHold == Spec => [](IInv /\ VInv)
  BY InitIInv, NextIInv, InitVInv, NextVInv, PTL DEF Spec

----------------------------------------------------------------------------
(* The theorems *)

\* A storage in which executed proposals may have to run is sound.
LEMMA StoreSound ==
    ASSUME VInv
    PROVE  /\ Counted(store)
           /\ stack = <<>> => Sound(store, height, {})
  <1>1. CASE stack = <<>>
    BY <1>1, EmptyHistory DEF VInv, Sound
  <1>2. CASE stack # <<>>
    <2>1. Awaits(Last(stack).pending, stack, store, height)
      BY <1>2 DEF VInv, DueOK
    <2> QED BY <1>2, <2>1 DEF Awaits, Sound
  <1> QED BY <1>1, <1>2

\* A proposal's messages take effect once if it is executed and never
\* otherwise: execute_execute saves the new status before the messages run, so
\* that calls that come back find it, and reply turns a failed execution, whose
\* effects are gone, into ExecutionFailed.
THEOREM MessagesRunOnce == Spec => []RunsOnce
  <1>1. VInv => RunsOnce
    <2> SUFFICES ASSUME VInv, NEW id \in DOMAIN store.proposals
                 PROVE  /\ store.ran[id] <= 1
                        /\ store.ran[id] = 1 => store.proposals[id].status = "executed"
                        /\ (stack = <<>> /\ store.proposals[id].status = "executed"
                                         /\ store.proposals[id].msgs # <<>>)
                               => store.ran[id] = 1
      BY DEF RunsOnce
    <2>1. /\ store.ran[id] <= 1
          /\ store.ran[id] = 1 => store.proposals[id].status = "executed"
      BY StoreSound DEF Counted
    <2>2. ASSUME stack = <<>>, store.proposals[id].status = "executed",
                 store.proposals[id].msgs # <<>>
          PROVE  store.ran[id] = 1
      BY <2>2, StoreSound DEF Sound, Settled
    <2> QED BY <2>1, <2>2
  <1> QED BY <1>1, VersionsHold, PTL

\* Whoever is told of a status, in a hook message that is running, is told of
\* one the proposal has reached, whatever was undone or called in between.
THEOREM ReportsAreReached == Spec => []ReportsReached
  <1>1. VInv => ReportsReached
    <2> SUFFICES ASSUME VInv, NEW k \in DOMAIN stack,
                        stack[k].body.kind \in {"status_changed", "completed"}
                 PROVE  /\ stack[k].body.id \in DOMAIN store.proposals
                        /\ store.proposals[stack[k].body.id].status \in
                               ReachableFrom(stack[k].body.status)
      BY DEF ReportsReached, ReachableFrom
    <2>1. Reached(store, stack[k].body)
      BY DEF VInv, History, CurrentOK, LaterVersion, Reported
    <2> QED BY <2>1 DEF Reached
  <1> QED BY <1>1, VersionsHold, PTL

----------------------------------------------------------------------------
(* The veto timelock *)

\* An error brings back storages that have executed no more.
LEMMA UnwindExecutesNone ==
    ASSUME IInv, VInv, stack # <<>>, Unwind
    PROVE  Executes(store, store', {})
  <1>1. /\ StackInv(stack) /\ 1 \in DOMAIN stack
        /\ \A k \in DOMAIN stack : StoreInv(stack[k].saved) /\ Follows(stack[k].saved, store)
    <2>1. StackInv(stack) /\ 1 \in DOMAIN stack
      BY TopType DEF IInv, StackInv
    <2> QED BY <2>1 DEF StackInv, VInv, History, CurrentOK, LaterVersion
  <1>2. \A k \in DOMAIN stack : \A id \in DOMAIN stack[k].saved.proposals :
            stack[k].saved.proposals[id].status = "executed"
                => id \in DOMAIN store.proposals /\ store.proposals[id].status = "executed"
    BY <1>1, LaterValues DEF Follows
  <1>3. CASE store' = stack[1].saved
    BY <1>1, <1>2, <1>3 DEF Executes
  <1>4. CASE \E k \in CatchingFrames :
                 store' = AfterFailureReply(stack[k].saved, stack[k].reply_id)
    <2>1. PICK k \in CatchingFrames :
                 store' = AfterFailureReply(stack[k].saved, stack[k].reply_id)
      BY <1>4
    <2> DEFINE s == stack[k].saved
               r == stack[k].reply_id
    <2>2. k \in DOMAIN stack /\ ReplyAccepted(s, r) /\ StoreInv(s)
      BY <1>1 DEF CatchingFrames
    <2>3. CASE reply_type(r) = FAILED_PROPOSAL_EXECUTION_MASK
      <3> DEFINE i == id_after_shift(r)
      <3>1. store' = [s EXCEPT !.proposals[i].status = "execution_failed"]
        BY <2>1, <2>2, <2>3, FailedHook
      <3>2. s \in Store /\ s.proposals \in Seq(Proposal(Addr, MsgLists))
        BY <2>2, ConfigType
      <3> HIDE DEF s, i
      <3>3. store'.proposals = [s.proposals EXCEPT ![i].status = "execution_failed"]
        BY <3>1, <3>2 DEF Store
      <3>4. \A id \in DOMAIN store'.proposals :
                /\ id \in DOMAIN s.proposals
                /\ store'.proposals[id].status = "executed"
                       => s.proposals[id].status = "executed"
        <4> SUFFICES ASSUME NEW id \in DOMAIN store'.proposals
                     PROVE  /\ id \in DOMAIN s.proposals
                            /\ store'.proposals[id].status = "executed"
                                   => s.proposals[id].status = "executed"
          OBVIOUS
        <4>1. id \in DOMAIN s.proposals /\ s.proposals[id] \in Proposal(Addr, MsgLists)
          BY <3>2, <3>3
        <4>2. CASE id = i
          <5>1. store'.proposals[id] = [s.proposals[id] EXCEPT !.status = "execution_failed"]
            BY <3>3, <4>1, <4>2
          <5>2. store'.proposals[id].status = "execution_failed"
            BY <4>1, <5>1 DEF Proposal
          <5> QED BY <4>1, <5>2
        <4>3. CASE id # i
          BY <3>3, <4>1, <4>3
        <4> QED BY <4>2, <4>3
      <3> QED BY <1>2, <2>2, <3>4 DEF Executes, s
    <2>4. CASE reply_type(r) # FAILED_PROPOSAL_EXECUTION_MASK
      <3>1. store'.proposals = s.proposals
        BY <2>1, <2>2, <2>4, FailedHook
      <3> QED BY <1>2, <2>2, <3>1 DEF Executes
    <2> QED BY <2>3, <2>4
  <1> QED BY <1>3, <1>4 DEF Unwind

\* Nothing but execute_execute executes a proposal.
LEMMA OthersExecuteNone ==
    ASSUME IInv, VInv,
           \/ Propose \/ CastVote \/ UpdateRationale \/ Veto
           \/ \E id \in DOMAIN store.proposals : Close(id)
           \/ \E call \in DaoCalls : DaoCall(call)
           \/ TransactionStep \/ Tick \/ UNCHANGED vars
    PROVE  Executes(store, store', {})
  <1>0. StoreInv(store) /\ store \in Store /\ height \in Heights
    BY ConfigType DEF IInv
  <1>s. store'.proposals = store.proposals => Executes(store, store', {})
    BY DEF Executes
  <1>1. CASE Propose
    <2>1. PICK sender \in Peer, proposer \in Peer, msgs \in MsgLists,
               vote \in Vote \cup {"none"}, rationale \in Rationales :
                   execute_propose(sender, proposer, msgs, vote, rationale)
      BY <1>1 DEF Propose
    <2> DEFINE proposed == AfterPropose(store, msgs)
               id == Len(store.proposals) + 1
    <2>2. Sound(store, height, {})
      BY <2>1, BeginSound DEF execute_propose
    <2>3. /\ StoreInv(proposed) /\ Follows(store, proposed) /\ Sound(proposed, height, {})
          /\ Executes(store, proposed, {})
      BY <1>0, <2>2, ProposeKeepsStore, ProposeVersion
    <2>4. \/ store' = proposed
          \/ /\ vote \in Vote /\ proposer \in Addr /\ CanVote(proposed, proposer, id, vote)
             /\ store' = AfterVote(proposed, proposer, id, vote, rationale)
      BY <2>1 DEF execute_propose, Peer
    <2> HIDE DEF proposed, id
    <2>5. CASE store' = proposed
      BY <2>3, <2>5
    <2>6. CASE /\ vote \in Vote /\ proposer \in Addr /\ CanVote(proposed, proposer, id, vote)
               /\ store' = AfterVote(proposed, proposer, id, vote, rationale)
      <3>1. /\ DOMAIN store'.proposals = DOMAIN proposed.proposals
            /\ Executes(proposed, store', {})
        BY <2>3, <2>6, VoteVersion
      <3> QED BY <2>3, <3>1 DEF Executes, Follows
    <2> QED BY <2>4, <2>5, <2>6
  <1>2. CASE CastVote
    <2>1. PICK sender \in Peer, id \in DOMAIN store.proposals, vote \in Vote,
               rationale \in Rationales : execute_vote(sender, id, vote, rationale)
      BY <1>2 DEF CastVote
    <2>2. /\ Begin(sender) /\ CanVote(store, sender, id, vote) /\ sender \in Addr
          /\ store' = AfterVote(store, sender, id, vote, rationale)
      BY <2>1 DEF execute_vote, Peer
    <2>3. Sound(store, height, {})
      BY <2>2, BeginSound
    <2> QED BY <1>0, <2>2, <2>3, VoteVersion
  <1>3. CASE UpdateRationale
    BY <1>0, <1>3, <1>s DEF UpdateRationale, execute_update_rationale, Store
  <1>4. CASE Veto
    <2>1. PICK sender \in Peer, id \in DOMAIN store.proposals : execute_veto(sender, id)
      BY <1>4 DEF Veto
    <2>2. store'.proposals =
              [store.proposals EXCEPT ![id] = [Loaded(id) EXCEPT !.status = "vetoed"]]
      BY <1>0, <2>1, CompleteSaves DEF execute_veto
    <2>3. Loaded(id) \in Proposal(Addr, MsgLists)
      BY <1>0, <2>1, BeginSound, LoadedVersion DEF execute_veto
    <2>4. [Loaded(id) EXCEPT !.status = "vetoed"].status = "vetoed"
      BY <2>3 DEF Proposal
    <2> QED BY <2>2, <2>4 DEF Executes
  <1>5. CASE \E id \in DOMAIN store.proposals : Close(id)
    <2>1. PICK id \in DOMAIN store.proposals, sender \in Peer : execute_close(sender, id)
      BY <1>5 DEF Close
    <2>2. store'.proposals =
              [store.proposals EXCEPT ![id] = [Loaded(id) EXCEPT !.status = "closed"]]
      BY <1>0, <2>1, CompleteSaves DEF execute_close
    <2>3. Loaded(id) \in Proposal(Addr, MsgLists)
      BY <1>0, <2>1, BeginSound, LoadedVersion DEF execute_close
    <2>4. [Loaded(id) EXCEPT !.status = "closed"].status = "closed"
      BY <2>3 DEF Proposal
    <2> QED BY <2>2, <2>4 DEF Executes
  <1>6. ASSUME NEW call \in DaoCalls, DaoCall(call)
        PROVE  Executes(store, store', {})
    BY <1>0, <1>6, <1>s, MsgAssumption, DaoCallSaves DEF DaoCall
  <1>7. CASE Dispatch
    BY <1>0, <1>7, <1>s DEF Dispatch, Store
  <1>8. CASE DispatchDaoCall
    <2>1. NextMsg.body \in DaoRequest
      BY <1>8, NextMsgVersions, RequestQuiet DEF DispatchDaoCall, IsDaoCall
    <2>2. CASE store' = AfterDaoCall(store, NextMsg.body)
      BY <1>0, <1>s, <2>1, <2>2, DaoCallSaves
    <2>3. CASE Unwind
      BY <1>8, <2>3, UnwindExecutesNone DEF DispatchDaoCall, Running
    <2> QED BY <1>8, <2>2, <2>3 DEF DispatchDaoCall
  <1>9. CASE Return
    BY <1>0, <1>9, <1>s DEF Return, AfterInstantiateReply, Store
  <1>10. CASE Raise
    BY <1>10, UnwindExecutesNone DEF Raise, Running
  <1>11. CASE Tick \/ UNCHANGED vars
    BY <1>11, <1>s DEF Tick, vars
  <1> QED BY <1>1, <1>2, <1>3, <1>4, <1>5, <1>6, <1>7, <1>8, <1>9, <1>10, <1>11
          DEF TransactionStep

\* A handler runs in a call by its sender.
LEMMA SenderOnTop ==
    ASSUME IInv, NEW sender \in Peer, Begin(sender), NEW msgs, Respond(sender, msgs)
    PROVE  Last(stack').to = sender
  <1>1. CASE stack = <<>>
    BY <1>1 DEF Respond, Frame, Msg, Last
  <1>2. CASE stack # <<>>
    <2> DEFINE n == Len(stack)
    <2>1. n \in DOMAIN stack /\ stack \in Seq(FrameType) /\ stack[n] \in FrameType
          /\ stack[n].to = sender
      BY <1>2, TopType DEF Begin, IInv, StackInv
    <2>2. stack' = [stack EXCEPT ![n].pending = msgs, ![n].called = TRUE]
      BY <1>2 DEF Respond
    <2>3. stack'[n] = [stack[n] EXCEPT !.pending = msgs, !.called = TRUE]
      BY <2>1, <2>2
    <2>4. Len(stack') = n
      BY <2>1, <2>2
    <2>5. stack'[n].to = sender
      BY <2>1, <2>3 DEF FrameType
    <2> QED BY <2>4, <2>5 DEF Last
  <1> QED BY <1>1, <1>2

\* The step relation TimelockRespected is about.
RespectsTimelock ==
    \A id \in DOMAIN store.proposals \cap DOMAIN store'.proposals :
        LET p == store'.proposals[id] IN
        (/\ store.proposals[id].status # "executed"
         /\ p.status = "executed"
         /\ p.veto.kind = "veto"
         /\ ~is_expired(timelock_expiration(p), height))
        => Last(stack').to = p.veto.vetoer /\ p.veto.early_execute

LEMMA ExecuteRespectsTimelock ==
    ASSUME IInv, VInv, NEW id \in DOMAIN store.proposals, Execute(id)
    PROVE  RespectsTimelock
  <1>1. PICK sender \in Peer : execute_execute(sender, id)
    BY DEF Execute
  <1> DEFINE q == [Loaded(id) EXCEPT !.status = "executed"]
  <1>2. /\ StoreInv(store) /\ Begin(sender) /\ Sound(store, height, {})
        /\ \/ Loaded(id).status = "passed"
           \/ Loaded(id).veto.vetoer = sender /\ Loaded(id).veto.early_execute
        /\ Last(stack').to = sender
    BY <1>1, BeginSound, SenderOnTop DEF IInv, execute_execute
  <1>3. store'.proposals = [store.proposals EXCEPT ![id] = q]
    BY <1>1, <1>2, CompleteSaves DEF execute_execute
  <1>4. /\ Loaded(id) \in Proposal(Addr, MsgLists)
        /\ (Loaded(id).status = "passed" /\ Loaded(id).veto.kind = "veto")
               => is_expired(timelock_expiration(Loaded(id)), height)
    BY <1>2, LoadedVersion
  <1>5. q.veto = Loaded(id).veto /\ timelock_expiration(q) = timelock_expiration(Loaded(id))
    <2>1. q.veto = Loaded(id).veto /\ q.expiration = Loaded(id).expiration
      BY <1>4 DEF Proposal
    <2> HIDE DEF q
    <2> QED BY <2>1 DEF timelock_expiration
  <1> SUFFICES ASSUME NEW j \in DOMAIN store.proposals \cap DOMAIN store'.proposals,
                      store.proposals[j].status # "executed",
                      store'.proposals[j].status = "executed",
                      store'.proposals[j].veto.kind = "veto",
                      ~is_expired(timelock_expiration(store'.proposals[j]), height)
               PROVE  /\ Last(stack').to = store'.proposals[j].veto.vetoer
                      /\ store'.proposals[j].veto.early_execute
    BY DEF RespectsTimelock
  <1> HIDE DEF q
  <1>6. j = id /\ store'.proposals[j] = q
    BY <1>3
  <1> QED BY <1>2, <1>4, <1>5, <1>6

LEMMA StepRespectsTimelock == IInv /\ VInv /\ [Next]_vars => RespectsTimelock
  <1> SUFFICES ASSUME IInv, VInv, [Next]_vars PROVE RespectsTimelock
    OBVIOUS
  <1>1. ASSUME NEW id \in DOMAIN store.proposals, Execute(id)
        PROVE  RespectsTimelock
    BY <1>1, ExecuteRespectsTimelock
  <1>2. Executes(store, store', {}) => RespectsTimelock
    BY DEF Executes, RespectsTimelock
  <1> QED BY <1>1, <1>2, OthersExecuteNone DEF Next

\* Before a proposal's veto timelock is over nobody but the vetoer executes it,
\* and the vetoer only where VetoConfig::early_execute says so: neither a call
\* that comes back, nor an undone one, nor a status saved before the timelock
\* was over opens another way.
THEOREM TimelockIsRespected == Spec => TimelockRespected
  <1>1. IInv /\ VInv /\ [Next]_vars => [RespectsTimelock]_vars
    BY StepRespectsTimelock
  <1> QED BY <1>1, VersionsHold, PTL DEF Spec, TimelockRespected, RespectsTimelock

----------------------------------------------------------------------------
(* The life cycle *)

\* The committed storage is of type.
LEMMA CommittedInv ==
    ASSUME IInv
    PROVE  StoreInv(Committed)
  <1>1. CASE stack = <<>>
    BY <1>1 DEF Committed, IInv
  <1>2. CASE stack # <<>>
    <2>1. 1 \in DOMAIN stack
      BY <1>2, TopType DEF IInv, StackInv
    <2> QED BY <1>2, <2>1 DEF Committed, IInv, StackInv
  <1> QED BY <1>1, <1>2

\* A step that keeps the first call of the transaction commits nothing.
LEMMA SameTransaction ==
    ASSUME stack # <<>>, stack' # <<>>, stack'[1].saved = stack[1].saved
    PROVE  Committed' = Committed
  BY DEF Committed

\* Calls that end leave the first one in place.
LEMMA BottomOfPrefix ==
    ASSUME NEW st \in Seq(FrameType), NEW k \in 1 .. Len(st)
    PROVE  SubSeq(st, 1, k)[1] = st[1] /\ SubSeq(st, 1, k) # <<>>
  OBVIOUS

\* Changing the messages of the topmost call keeps what the first one saved.
LEMMA BottomOfWithPending ==
    ASSUME StackInv(stack), stack # <<>>, NEW msgs
    PROVE  /\ WithPending(stack, msgs) # <<>>
           /\ WithPending(stack, msgs)[1].saved = stack[1].saved
           /\ Len(WithPending(stack, msgs)) = Len(stack)
           /\ DOMAIN WithPending(stack, msgs) = DOMAIN stack
  <1> DEFINE n == Len(stack)
             st == WithPending(stack, msgs)
  <1>1. n \in Nat \ {0} /\ stack \in Seq(FrameType) /\ DOMAIN stack = 1 .. n
        /\ 1 \in DOMAIN stack /\ stack[1] \in FrameType
    BY TopType DEF StackInv
  <1>2. st = [stack EXCEPT ![n].pending = msgs]
    BY DEF WithPending
  <1>3. DOMAIN st = DOMAIN stack /\ Len(st) = n
    BY <1>1, <1>2
  <1>4. st[1].saved = stack[1].saved
    <2>1. CASE n = 1
      <3>1. st[1] = [stack[1] EXCEPT !.pending = msgs]
        BY <1>1, <1>2, <2>1
      <3> QED BY <1>1, <3>1 DEF FrameType
    <2>2. CASE n # 1
      BY <1>1, <1>2, <2>2
    <2> QED BY <2>1, <2>2
  <1>5. st # <<>>
    BY <1>1, <1>3
  <1> QED BY <1>3, <1>4, <1>5

\* No handler commits anything by itself.
LEMMA RespondCommitsNothing ==
    ASSUME IInv, NEW sender, NEW msgs, Respond(sender, msgs)
    PROVE  Committed' = Committed
  <1>1. CASE stack = <<>>
    <2>1. stack' = <<Frame(Msg(sender, [kind |-> "tx"]), store, msgs, TRUE)>>
      BY <1>1 DEF Respond
    <2>2. stack' # <<>> /\ stack'[1].saved = store
      BY <2>1 DEF Frame
    <2> QED BY <1>1, <2>2 DEF Committed
  <1>2. CASE stack # <<>>
    <2> DEFINE n == Len(stack)
    <2>1. n \in Nat \ {0} /\ stack \in Seq(FrameType) /\ DOMAIN stack = 1 .. n
          /\ 1 \in DOMAIN stack /\ stack[1] \in FrameType
      BY <1>2, TopType DEF IInv, StackInv
    <2>2. stack' = [stack EXCEPT ![n].pending = msgs, ![n].called = TRUE]
      BY <1>2 DEF Respond
    <2>3. DOMAIN stack' = DOMAIN stack
      BY <2>1, <2>2
    <2>4. stack'[1].saved = stack[1].saved
      <3>1. CASE n = 1
        <4>1. stack'[1] = [stack[1] EXCEPT !.pending = msgs, !.called = TRUE]
          BY <2>1, <2>2, <3>1
        <4> QED BY <2>1, <4>1 DEF FrameType
      <3>2. CASE n # 1
        BY <2>1, <2>2, <3>2
      <3> QED BY <3>1, <3>2
    <2>5. stack' # <<>>
      BY <2>1, <2>3
    <2> QED BY <1>2, <2>4, <2>5, SameTransaction
  <1> QED BY <1>1, <1>2

\* An error that is not absorbed brings the committed storage back, and one
\* that is absorbed leaves the transaction running.
LEMMA UnwindCommitsNothing ==
    ASSUME IInv, VInv, stack # <<>>, Unwind
    PROVE  Committed' = Committed
  <1>1. Len(stack) \in Nat \ {0} /\ stack \in Seq(FrameType)
        /\ DOMAIN stack = 1 .. Len(stack)
    BY TopType DEF IInv, StackInv
  <1>2. CASE store' = stack[1].saved /\ stack' = <<>>
    BY <1>2 DEF Committed
  <1>3. ASSUME NEW k \in CatchingFrames, stack' = SubSeq(stack, 1, k - 1)
        PROVE  Committed' = Committed
    <2>1. k \in DOMAIN stack /\ k # 1
      BY <1>1 DEF CatchingFrames, VInv, History, FramesOK
    <2>2. k - 1 \in 1 .. Len(stack)
      BY <1>1, <2>1
    <2>3. stack'[1] = stack[1] /\ stack' # <<>>
      BY <1>1, <1>3, <2>2, BottomOfPrefix
    <2> QED BY <2>3, SameTransaction
  <1> QED BY <1>2, <1>3 DEF Unwind

\* Only the end of a transaction commits, and what it commits follows what was
\* committed before.
LEMMA CommitsVersions ==
    ASSUME IInv, VInv, [Next]_vars
    PROVE  Follows(Committed, Committed')
  <1>1. Committed' = Committed => Follows(Committed, Committed')
    BY CommittedInv, FollowsOrder
  <1>2. CASE \/ Propose \/ CastVote \/ UpdateRationale \/ Veto
             \/ \E id \in DOMAIN store.proposals : Execute(id) \/ Close(id)
             \/ \E call \in DaoCalls : DaoCall(call)
    <2>1. \E sender, msgs : Respond(sender, msgs)
      <3>1. CASE Propose
        BY <3>1 DEF Propose, execute_propose
      <3>2. CASE CastVote
        BY <3>2 DEF CastVote, execute_vote
      <3>3. CASE UpdateRationale
        BY <3>3 DEF UpdateRationale, execute_update_rationale
      <3>4. CASE Veto
        BY <3>4 DEF Veto, execute_veto
      <3>5. CASE \E id \in DOMAIN store.proposals : Execute(id)
        BY <3>5 DEF Execute, execute_execute
      <3>6. CASE \E id \in DOMAIN store.proposals : Close(id)
        BY <3>6 DEF Close, execute_close
      <3>7. CASE \E call \in DaoCalls : DaoCall(call)
        BY <3>7 DEF DaoCall
      <3> QED BY <1>2, <3>1, <3>2, <3>3, <3>4, <3>5, <3>6, <3>7
    <2> QED BY <1>1, <2>1, RespondCommitsNothing
  <1>3. CASE Dispatch
    <2> DEFINE st == WithPending(stack, Tail(Top.pending))
    <2>1. stack # <<>> /\ StackInv(stack)
      BY <1>3 DEF Dispatch, Running, IInv
    <2>2. Advance(stack) = st
      BY DEF Advance, WithPending, Top, Last
    <2>3. \E f : stack' = Append(st, f)
      BY <1>3, <2>2 DEF Dispatch
    <2>4. /\ st # <<>> /\ st[1].saved = stack[1].saved
          /\ Len(st) = Len(stack) /\ DOMAIN st = DOMAIN stack
      BY <2>1, BottomOfWithPending
    <2>5. Len(stack) \in Nat \ {0}
      BY <2>1, TopType
    <2> HIDE DEF st
    <2>6. stack'[1] = st[1] /\ stack' # <<>>
      BY <2>3, <2>4, <2>5
    <2> QED BY <1>1, <2>1, <2>4, <2>6, SameTransaction
  <1>4. CASE DispatchDaoCall
    <2>1. stack # <<>> /\ StackInv(stack)
      BY <1>4 DEF DispatchDaoCall, Running, IInv
    <2>2. CASE stack' = [stack EXCEPT ![Len(stack)].pending =
                                          DaoCallMsgs(NextMsg.body) \o Tail(@)]
      <3>1. \E msgs : stack' = WithPending(stack, msgs)
        BY <2>2 DEF WithPending
      <3> QED BY <1>1, <2>1, <3>1, BottomOfWithPending, SameTransaction
    <2>3. CASE Unwind
      BY <1>1, <2>1, <2>3, UnwindCommitsNothing
    <2> QED BY <1>4, <2>2, <2>3 DEF DispatchDaoCall
  <1>5. CASE Return
    <2> DEFINE n == Len(stack)
    <2>1. /\ stack # <<>> /\ n \in Nat \ {0} /\ stack \in Seq(FrameType)
          /\ DOMAIN stack = 1 .. n /\ StoreInv(store) /\ store \in Store
          /\ stack' = SubSeq(stack, 1, n - 1)
      BY <1>5, TopType, ConfigType DEF Return, Running, IInv, StackInv, Front
    <2>2. store'.proposals = store.proposals
      BY <1>5, <2>1 DEF Return, AfterInstantiateReply, Store
    <2>3. CASE n = 1
      <3>1. stack' = <<>> /\ 1 \in DOMAIN stack
        BY <2>1, <2>3
      <3>2. Follows(stack[1].saved, store)
        BY <3>1 DEF VInv, History, CurrentOK, LaterVersion
      <3>3. Follows(stack[1].saved, store')
        BY <2>2, <3>2 DEF Follows
      <3> QED BY <2>1, <3>1, <3>3 DEF Committed
    <2>4. CASE n # 1
      <3>0. n - 1 \in 1 .. Len(stack)
        BY <2>1, <2>4
      <3>1. stack'[1] = stack[1] /\ stack' # <<>>
        BY <2>1, <3>0, BottomOfPrefix
      <3> QED BY <1>1, <2>1, <3>1, SameTransaction
    <2> QED BY <2>3, <2>4
  <1>6. CASE Raise
    BY <1>1, <1>6, UnwindCommitsNothing DEF Raise, Running
  <1>7. CASE Tick \/ UNCHANGED vars
    BY <1>1, <1>7 DEF Tick, vars, Committed
  <1> QED BY <1>2, <1>3, <1>4, <1>5, <1>6, <1>7 DEF Next, TransactionStep

\* The committed statuses go through the life cycle a proposal module promises:
\* a handler, a reply, an undone call or an interleaving of those never commits
\* a status that moves backwards, or one that leaves a final status.
THEOREM LifecycleRefined == Spec => ImplementsLifecycle
  <1>1. Init => Lifecycle!Init
    <2> SUFFICES ASSUME Init PROVE CommittedStatus = <<>>
      BY DEF Lifecycle!Init
    <2>1. Committed.proposals = <<>>
      BY DEF Init, Committed
    <2> QED BY <2>1 DEF CommittedStatus
  <1>2. IInv /\ VInv /\ [Next]_vars => [Lifecycle!Next]_CommittedStatus
    <2> SUFFICES ASSUME IInv, VInv, [Next]_vars PROVE Lifecycle!Next
      OBVIOUS
    <2>1. Follows(Committed, Committed')
      BY CommitsVersions
    <2>2. /\ DOMAIN CommittedStatus = DOMAIN Committed.proposals
          /\ DOMAIN CommittedStatus' = DOMAIN Committed'.proposals
          /\ \A id \in DOMAIN Committed.proposals :
                 CommittedStatus[id] = Committed.proposals[id].status
          /\ \A id \in DOMAIN Committed'.proposals :
                 CommittedStatus'[id] = Committed'.proposals[id].status
      BY DEF CommittedStatus
    <2> QED BY <2>1, <2>2 DEF Follows, Lifecycle!Next
  <1> QED BY <1>1, <1>2, VersionsHold, PTL DEF Spec, ImplementsLifecycle, Lifecycle!Spec

----------------------------------------------------------------------------
(***************************************************************************)
(* Votes that are cast on a decided proposal do not change its outcome.    *)
(*                                                                         *)
(* compare_vote_count scales counts by PRECISION_FACTOR and rounds down,   *)
(* which makes the statements false for some percentages: one below        *)
(* 1 / PRECISION_FACTOR passes without a yes vote, and one with more       *)
(* decimals than PRECISION_FACTOR may be rejected and passed by the same   *)
(* tally.  The theorems say for which percentages the statements hold.     *)
(*                                                                         *)
(* A rejected proposal takes votes until it expires, so that not having    *)
(* passed says nothing about a later tally: the inductive invariant OInv   *)
(* keeps that the no votes alone exclude it.  It also carries what the     *)
(* argument needs of a proposal: a validated threshold, a minimum voting   *)
(* period within the voting period, and the total power of its start.      *)
(***************************************************************************)

----------------------------------------------------------------------------
(* The inductive invariant *)

\* The percentage the yes votes have to reach, where there is one.
YesPercentage(t) ==
    IF t.kind = "absolute_percentage" THEN t.percentage ELSE t.threshold

\* At least one unit of PRECISION_FACTOR.
CoarsePercentage(percent) ==
    percent.kind = "percent" => PrecisionFactor * percent.atomics >= DecimalOne

\* A whole number of units of PRECISION_FACTOR.
ExactPercentage(percent) ==
    percent.kind = "percent" => (PrecisionFactor * percent.atomics) % DecimalOne = 0

Coarse(t) == t.kind # "absolute_count" => CoarsePercentage(YesPercentage(t))
Exact(t) == t.kind # "absolute_count" => ExactPercentage(YesPercentage(t))

\* What proposals have from the configuration and the voting module.
WellFormed(p) ==
    /\ validate(p.threshold)
    /\ p.min_voting_period <= p.expiration
    /\ p.total_power = TotalPowerAt[p.start_height]

\* A decided proposal passes.
PassKept(p, now) ==
    (p.status \in Decided /\ Coarse(p.threshold)) => is_passed(p, now)

\* A rejected proposal is still rejected, and after its end has not passed.
RejectionKept(p, now) ==
    (p.status \in {"rejected", "closed"} /\ Exact(p.threshold))
        => IF is_expired(p.expiration, now) THEN ~is_passed(p, now)
                                            ELSE is_rejected(p, now)

OutcomeOK(p, now) == WellFormed(p) /\ PassKept(p, now) /\ RejectionKept(p, now)

OutcomesOK(s, now) ==
    /\ ValidConfig(s.config)
    /\ \A id \in DOMAIN s.proposals : OutcomeOK(s.proposals[id], now)

OInv ==
    /\ OutcomesOK(store, height)
    /\ \A k \in DOMAIN stack : OutcomesOK(stack[k].saved, height)

----------------------------------------------------------------------------
(* Arithmetic *)

\* Multiplication keeps and reflects the order.
LEMMA MulOrder ==
    ASSUME NEW a \in Nat, NEW b \in Nat, NEW c \in Nat
    PROVE  /\ a * c \in Nat
           /\ a <= b => a * c <= b * c
           /\ c # 0 => (a * c < b * c <=> a < b)
  OBVIOUS

\* The quotient, by its remainder.
LEMMA DivBounds ==
    ASSUME NEW x \in Nat, NEW d \in Nat \ {0}
    PROVE  /\ x \div d \in Nat
           /\ d * (x \div d) <= x
           /\ x < d * (x \div d) + d
  OBVIOUS

\* Comparing with a quotient that is rounded down.
LEMMA FloorBound ==
    ASSUME NEW x \in Nat, NEW d \in Nat \ {0}, NEW m \in Nat
    PROVE  /\ m >= x \div d <=> x < d * m + d
           /\ m > x \div d <=> x < d * m
  <1> DEFINE q == x \div d
  <1>1. q \in Nat /\ d * q <= x /\ x < d * q + d
    BY DivBounds
  <1> HIDE DEF q
  <1>2. m >= q => x < d * m + d
    BY <1>1
  <1>3. m < q => x >= d * m + d
    BY <1>1
  <1>4. m > q => x < d * m
    BY <1>1
  <1>5. m <= q => x >= d * m
    BY <1>1
  <1> QED BY <1>1, <1>2, <1>3, <1>4, <1>5 DEF q

\* compare_vote_count without its division.
LEMMA CompareGeq ==
    ASSUME NEW votes \in Nat, NEW options \in Nat, NEW pct \in Nat
    PROVE  /\ compare_vote_count(votes, "Geq", options, pct)
                  <=> options * PrecisionFactor * pct
                          < DecimalOne * (votes * PrecisionFactor) + DecimalOne
           /\ compare_vote_count(votes, "Greater", options, pct)
                  <=> options * PrecisionFactor * pct
                          < DecimalOne * (votes * PrecisionFactor)
  <1> DEFINE x == options * PrecisionFactor * pct
             m == votes * PrecisionFactor
  <1>1. x \in Nat /\ m \in Nat /\ DecimalOne \in Nat \ {0}
    BY PrecisionAssumption
  <1>2. /\ compare_vote_count(votes, "Geq", options, pct) <=> m >= x \div DecimalOne
        /\ compare_vote_count(votes, "Greater", options, pct) <=> m > x \div DecimalOne
    BY DEF compare_vote_count, scaled_threshold
  <1> HIDE DEF x, m
  <1>3. /\ m >= x \div DecimalOne <=> x < DecimalOne * m + DecimalOne
        /\ m > x \div DecimalOne <=> x < DecimalOne * m
    BY <1>1, FloorBound
  <1> QED BY <1>2, <1>3 DEF x, m

----------------------------------------------------------------------------
(* Counting votes *)

\* More votes for fewer options pass as well.
LEMMA ComparisonMonotone ==
    ASSUME NEW y \in Nat, NEW z \in Nat, NEW o \in Nat, NEW n \in Nat,
           y <= z, n <= o, NEW pct \in Nat
    PROVE  /\ compare_vote_count(y, "Geq", o, pct) => compare_vote_count(z, "Geq", n, pct)
           /\ compare_vote_count(y, "Greater", o, pct)
                  => compare_vote_count(z, "Greater", n, pct)
  <1> DEFINE f == PrecisionFactor
             d == DecimalOne
  <1>1. f \in Nat /\ d \in Nat
    BY PrecisionAssumption
  <1> HIDE DEF f, d
  <1>2. n * f <= o * f /\ n * f \in Nat /\ o * f \in Nat
    BY <1>1, MulOrder
  <1>3. n * f * pct <= o * f * pct /\ n * f * pct \in Nat /\ o * f * pct \in Nat
    BY <1>2, MulOrder
  <1>4. y * f <= z * f /\ y * f \in Nat /\ z * f \in Nat
    BY <1>1, MulOrder
  <1>5. d * (y * f) <= d * (z * f) /\ d * (y * f) \in Nat /\ d * (z * f) \in Nat
    BY <1>1, <1>4
  <1>6. /\ compare_vote_count(y, "Geq", o, pct) <=> o * f * pct < d * (y * f) + d
        /\ compare_vote_count(y, "Greater", o, pct) <=> o * f * pct < d * (y * f)
        /\ compare_vote_count(z, "Geq", n, pct) <=> n * f * pct < d * (z * f) + d
        /\ compare_vote_count(z, "Greater", n, pct) <=> n * f * pct < d * (z * f)
    BY CompareGeq DEF f, d
  <1> QED BY <1>1, <1>3, <1>5, <1>6

\* A percentage that is not below 1 / PRECISION_FACTOR takes a yes vote.
LEMMA CoarseTakesVotes ==
    ASSUME NEW y \in Nat, NEW o \in Nat, NEW percent \in PercentageThreshold,
           CoarsePercentage(percent), does_vote_count_pass(y, o, percent)
    PROVE  y # 0
  <1>1. CASE percent.kind = "majority"
    BY <1>1 DEF does_vote_count_pass
  <1>2. CASE percent.kind # "majority"
    <2> DEFINE a == percent.atomics
               f == PrecisionFactor
               d == DecimalOne
    <2>1. a \in Nat /\ percent.kind = "percent" /\ f \in Nat /\ d \in Nat
      BY <1>2, PrecisionAssumption DEF PercentageThreshold
    <2>2. o # 0 /\ compare_vote_count(y, "Geq", o, a)
      BY <1>2 DEF does_vote_count_pass
    <2>3. f * a >= d
      BY <2>1 DEF CoarsePercentage
    <2>4. o * f * a < d * (y * f) + d
      BY <2>1, <2>2, CompareGeq
    <2> HIDE DEF a, f, d
    <2>5. o * f * a = o * (f * a) /\ f * a \in Nat
      BY <2>1
    <2>6. f * a <= o * (f * a)
      BY <2>2, <2>5
    <2>7. ASSUME y = 0 PROVE FALSE
      <3>1. d * (y * f) = 0
        BY <2>1, <2>7
      <3> QED BY <2>1, <2>3, <2>4, <2>5, <2>6, <3>1
    <2> QED BY <2>7
  <1> QED BY <1>1, <1>2

\* A count that passes still passes with more votes for no more options.
LEMMA PassMonotone ==
    ASSUME NEW y \in Nat, NEW z \in Nat, NEW o \in Nat, NEW n \in Nat,
           y <= z, n <= o, z <= n, NEW percent \in PercentageThreshold,
           CoarsePercentage(percent), does_vote_count_pass(y, o, percent)
    PROVE  does_vote_count_pass(z, n, percent)
  <1>1. n # 0
    BY CoarseTakesVotes
  <1>2. CASE percent.kind = "majority"
    BY <1>1, <1>2 DEF does_vote_count_pass
  <1>3. CASE percent.kind # "majority"
    <2>1. percent.atomics \in Nat
      BY <1>3 DEF PercentageThreshold
    <2> QED BY <1>1, <1>3, <2>1, ComparisonMonotone DEF does_vote_count_pass
  <1> QED BY <1>2, <1>3

\* A quorum that is met stays met.
LEMMA QuorumMonotone ==
    ASSUME NEW y \in Nat, NEW z \in Nat, NEW o \in Nat, y <= z,
           NEW percent \in PercentageThreshold, does_vote_count_pass(y, o, percent)
    PROVE  does_vote_count_pass(z, o, percent)
  <1>1. CASE percent.kind = "majority"
    BY <1>1 DEF does_vote_count_pass
  <1>2. CASE percent.kind # "majority"
    <2>1. percent.atomics \in Nat
      BY <1>2 DEF PercentageThreshold
    <2> QED BY <1>2, <2>1, ComparisonMonotone DEF does_vote_count_pass
  <1> QED BY <1>1, <1>2

\* No votes that exclude a percentage still do with more of them for no more
\* options.
LEMMA FailMonotone ==
    ASSUME NEW y \in Nat, NEW z \in Nat, NEW o \in Nat, NEW n \in Nat,
           y <= z, n <= o, NEW percent \in PercentageThreshold,
           validate_percentage(percent), no_votes_reject(y, o, percent)
    PROVE  no_votes_reject(z, n, percent)
  <1>1. CASE percent = Percent(DecimalOne)
    BY <1>1 DEF no_votes_reject
  <1>2. CASE percent # Percent(DecimalOne) /\ percent.kind = "majority"
    BY <1>2 DEF no_votes_reject, does_vote_count_fail
  <1>3. CASE percent # Percent(DecimalOne) /\ percent.kind # "majority"
    <2>1. percent.atomics \in Nat /\ percent.atomics <= DecimalOne /\ DecimalOne \in Nat
      BY <1>3, PrecisionAssumption DEF PercentageThreshold, validate_percentage
    <2>2. DecimalOne - percent.atomics \in Nat
      BY <2>1
    <2>3. does_vote_count_fail(y, o, percent)
      BY <1>3 DEF no_votes_reject
    <2>4. does_vote_count_fail(z, n, percent)
      BY <1>3, <2>2, <2>3, ComparisonMonotone DEF does_vote_count_fail
    <2> QED BY <1>3, <2>4 DEF no_votes_reject
  <1> QED BY <1>1, <1>2, <1>3

\* A percentage that is a whole number of units is not both reached by the yes
\* votes and excluded by the no votes.
LEMMA FailExcludesPass ==
    ASSUME NEW y \in Nat, NEW n \in Nat, NEW o \in Nat, y + n <= o,
           NEW percent \in PercentageThreshold, validate_percentage(percent),
           ExactPercentage(percent), no_votes_reject(n, o, percent)
    PROVE  ~does_vote_count_pass(y, o, percent)
  <1> SUFFICES ASSUME does_vote_count_pass(y, o, percent) PROVE FALSE
    OBVIOUS
  <1>1. o # 0
    BY DEF does_vote_count_pass
  <1> DEFINE f == PrecisionFactor
             d == DecimalOne
             a == percent.atomics
  <1>2. f \in Nat \ {0} /\ d \in Nat \ {0}
    BY PrecisionAssumption
  <1>3. CASE percent.kind = "majority"
    BY <1>1, <1>3 DEF does_vote_count_pass, no_votes_reject, does_vote_count_fail, Percent
  <1>4. CASE percent.kind # "majority"
    <2>1. a \in Nat /\ a <= d /\ percent.kind = "percent" /\ (f * a) % d = 0
      BY <1>4 DEF PercentageThreshold, validate_percentage, ExactPercentage
    <2>2. o * f * a < d * (y * f) + d
      BY <1>4, <2>1, CompareGeq DEF does_vote_count_pass
    <2>3. PICK c \in Nat : f * a = c * d
      <3> DEFINE x == f * a
      <3>1. x \in Nat /\ x % d = 0 /\ d \in Nat \ {0}
        BY <1>2, <2>1
      <3> HIDE DEF x, d
      <3>2. \E c \in Nat : x = c * d
        BY <3>1
      <3> QED BY <3>2 DEF x
    <2>4. o * c < y * f + 1
      <3>1. o * f * a = (o * c) * d
        <4>1. o * f * a = o * (f * a)
          BY <1>2, <2>1
        <4>2. o * (c * d) = (o * c) * d
          BY <1>2
        <4> QED BY <2>3, <4>1, <4>2
      <3>2. d * (y * f) + d = (y * f + 1) * d
        BY <1>2
      <3>3. o * c \in Nat /\ y * f + 1 \in Nat
        BY <1>2
      <3> HIDE DEF f, d, a
      <3> QED BY <1>2, <2>2, <3>1, <3>2, <3>3, MulOrder
    <2>5. CASE percent = Percent(DecimalOne)
      <3>1. a = d /\ n >= 1
        BY <1>1, <2>5 DEF no_votes_reject, Percent
      <3>2. c = f
        BY <1>2, <2>3, <3>1, MulOrder
      <3> HIDE DEF f, d, a
      <3>3. o * f < (y + 1) * f
        BY <1>2, <2>4, <3>2
      <3>4. o < y + 1
        BY <1>2, <3>3, MulOrder
      <3> QED BY <3>1, <3>4
    <2>6. CASE percent # Percent(DecimalOne)
      <3>1. d - a \in Nat
        BY <1>2, <2>1
      <3>2. compare_vote_count(n, "Greater", o, d - a)
        BY <1>1, <1>4, <2>6 DEF no_votes_reject, does_vote_count_fail
      <3>3. o * f * (d - a) < d * (n * f)
        BY <3>1, <3>2, CompareGeq
      <3>4. o * f * (d - a) = (o * f) * d - (o * c) * d
        <4>1. o * f * (d - a) = o * f * d - o * f * a
          BY <1>2, <2>1
        <4>2. o * f * a = o * (f * a)
          BY <1>2, <2>1
        <4>3. o * (c * d) = (o * c) * d
          BY <1>2
        <4> QED BY <2>3, <4>1, <4>2, <4>3
      <3>5. o * f \in Nat /\ o * c \in Nat /\ n * f \in Nat /\ y * f \in Nat
        BY <1>2
      <3> HIDE DEF f, d, a
      <3>6. o * f * d < (n * f + o * c) * d
        <4>1. (n * f + o * c) * d = d * (n * f) + (o * c) * d
          BY <1>2, <3>5
        <4> QED BY <1>2, <3>3, <3>4, <3>5, <4>1
      <3>7. o * f < n * f + o * c
        <4>1. n * f + o * c \in Nat
          BY <3>5
        <4> QED BY <1>2, <3>5, <3>6, <4>1, MulOrder
      <3>8. o * f < (n + y) * f
        <4>1. (n + y) * f = n * f + y * f
          BY <1>2
        <4> QED BY <2>4, <3>5, <3>7, <4>1
      <3>9. o < n + y
        BY <1>2, <3>8, MulOrder
      <3> QED BY <3>9
    <2> QED BY <2>5, <2>6
  <1> QED BY <1>3, <1>4

----------------------------------------------------------------------------
(* Tallies *)

\* Nobody votes with more than the power there is.
Bounded(p) == total(p.votes) <= p.total_power

\* q is the proposal p, up to its votes and status.
SameTerms(p, q) ==
    /\ q.threshold = p.threshold /\ q.total_power = p.total_power
    /\ q.expiration = p.expiration /\ q.min_voting_period = p.min_voting_period
    /\ q.allow_revoting = p.allow_revoting /\ q.start_height = p.start_height

\* q is the proposal p with votes added to it.
VotesAdded(p, q) == \A o \in Vote : p.votes[o] <= q.votes[o]

\* What the counting lemmas need to know of a proposal.
IsProposal(p) ==
    /\ p.threshold \in Threshold /\ p.votes \in Votes /\ p.total_power \in Nat
    /\ p.expiration \in Nat /\ p.min_voting_period \in Nat /\ p.start_height \in Nat
    /\ p.status \in Status

LEMMA ProposalIsProposal ==
    ASSUME NEW p \in Proposal(Addr, MsgLists)
    PROVE  IsProposal(p)
  BY DEF Proposal, IsProposal

\* The options of a tally.
LEMMA TallyOptions ==
    ASSUME NEW p, IsProposal(p), Bounded(p)
    PROVE  /\ p.votes["yes"] \in Nat /\ p.votes["no"] \in Nat /\ p.votes["abstain"] \in Nat
           /\ total(p.votes) \in Nat
           /\ p.total_power - p.votes["abstain"] \in Nat
           /\ total(p.votes) - p.votes["abstain"] = p.votes["yes"] + p.votes["no"]
           /\ p.votes["yes"] + p.votes["no"] <= p.total_power - p.votes["abstain"]
  <1>1. p.votes["yes"] \in Nat /\ p.votes["no"] \in Nat /\ p.votes["abstain"] \in Nat
        /\ p.total_power \in Nat
    BY DEF IsProposal, Votes, Vote
  <1> QED BY <1>1 DEF Bounded, total

\* What adding votes does to them.
LEMMA AddedOptions ==
    ASSUME NEW p, IsProposal(p), Bounded(p), NEW q, IsProposal(q), Bounded(q),
           SameTerms(p, q), VotesAdded(p, q)
    PROVE  /\ p.votes["yes"] <= q.votes["yes"] /\ p.votes["no"] <= q.votes["no"]
           /\ total(p.votes) <= total(q.votes)
           /\ q.total_power = p.total_power
           /\ q.total_power - q.votes["abstain"] <= p.total_power - p.votes["abstain"]
           /\ p.votes["yes"] + (p.total_power - total(p.votes))
                  >= q.votes["yes"] + (q.total_power - total(q.votes))
  <1>1. /\ p.votes["yes"] <= q.votes["yes"] /\ p.votes["no"] <= q.votes["no"]
        /\ p.votes["abstain"] <= q.votes["abstain"]
    BY DEF VotesAdded, Vote
  <1>2. q.total_power = p.total_power /\ p.total_power \in Nat
    BY DEF SameTerms, IsProposal
  <1> QED BY <1>1, <1>2, TallyOptions DEF total

\* The three kinds of thresholds.
LEMMA ThresholdKinds ==
    ASSUME NEW t \in Threshold, validate(t)
    PROVE  \/ /\ t.kind = "absolute_percentage"
              /\ t.percentage \in PercentageThreshold /\ validate_percentage(t.percentage)
              /\ YesPercentage(t) = t.percentage
           \/ /\ t.kind = "threshold_quorum"
              /\ t.threshold \in PercentageThreshold /\ validate_percentage(t.threshold)
              /\ t.quorum \in PercentageThreshold
              /\ YesPercentage(t) = t.threshold
           \/ t.kind = "absolute_count" /\ t.threshold \in Nat
  BY DEF Threshold, validate, YesPercentage

\* A tally that passes passes later, with the votes added before the end.
LEMMA TallyStillPasses ==
    ASSUME NEW p, IsProposal(p), Bounded(p), NEW q, IsProposal(q), Bounded(q),
           SameTerms(p, q), VotesAdded(p, q), validate(p.threshold), Coarse(p.threshold),
           NEW now \in Nat, NEW then \in Nat, now <= then,
           is_expired(p.expiration, now) => q.votes = p.votes,
           tally_passes(p, now)
    PROVE  tally_passes(q, then)
  <1> DEFINE t == p.threshold
             yes == p.votes["yes"]
             yes2 == q.votes["yes"]
             all == p.total_power - p.votes["abstain"]
             all2 == q.total_power - q.votes["abstain"]
             cast == total(p.votes) - p.votes["abstain"]
             cast2 == total(q.votes) - q.votes["abstain"]
  <1>1. /\ yes \in Nat /\ yes2 \in Nat /\ all \in Nat /\ all2 \in Nat
        /\ cast \in Nat /\ cast2 \in Nat
        /\ total(p.votes) \in Nat /\ total(q.votes) \in Nat
        /\ yes2 <= cast2 /\ cast2 <= all2 /\ yes2 <= all2
    BY TallyOptions
  <1>2. /\ yes <= yes2 /\ all2 <= all /\ total(p.votes) <= total(q.votes)
        /\ q.total_power = p.total_power /\ p.total_power \in Nat
    BY AddedOptions DEF IsProposal
  <1>3. q.threshold = t /\ t \in Threshold /\ q.expiration = p.expiration
        /\ p.expiration \in Nat
    BY DEF SameTerms, IsProposal
  <1>4. CASE t.kind = "absolute_percentage"
    <2>1. t.percentage \in PercentageThreshold /\ CoarsePercentage(t.percentage)
      BY <1>3, <1>4, ThresholdKinds DEF Coarse
    <2>2. does_vote_count_pass(yes, all, t.percentage)
      BY <1>4 DEF tally_passes
    <2> HIDE DEF yes, yes2, all, all2, t
    <2>3. does_vote_count_pass(yes2, all2, t.percentage)
      BY <1>1, <1>2, <2>1, <2>2, PassMonotone
    <2> QED BY <1>3, <1>4, <2>3 DEF tally_passes, yes2, all2
  <1>5. CASE t.kind = "threshold_quorum"
    <2>1. /\ t.threshold \in PercentageThreshold /\ t.quorum \in PercentageThreshold
          /\ CoarsePercentage(t.threshold)
      BY <1>3, <1>5, ThresholdKinds DEF Coarse
    <2> DEFINE options == IF is_expired(p.expiration, now) THEN cast ELSE all
               options2 == IF is_expired(q.expiration, then) THEN cast2 ELSE all2
    <2>2. does_vote_count_pass(yes, options, t.threshold)
          /\ does_vote_count_pass(total(p.votes), p.total_power, t.quorum)
      BY <1>5 DEF tally_passes
    <2>3. options \in Nat /\ options2 \in Nat /\ yes2 <= options2 /\ options2 <= options
      <3>1. CASE is_expired(p.expiration, now)
        <4>1. is_expired(q.expiration, then) /\ q.votes = p.votes
          BY <1>3, <3>1 DEF is_expired
        <4> QED BY <1>1, <3>1, <4>1
      <3>2. CASE ~is_expired(p.expiration, now)
        BY <1>1, <1>2, <3>2
      <3> QED BY <3>1, <3>2
    <2> HIDE DEF yes, yes2, options, options2, t
    <2>4. does_vote_count_pass(yes2, options2, t.threshold)
      BY <1>1, <1>2, <2>1, <2>2, <2>3, PassMonotone
    <2>5. does_vote_count_pass(total(q.votes), q.total_power, t.quorum)
      BY <1>1, <1>2, <2>1, <2>2, QuorumMonotone
    <2> QED BY <1>3, <1>5, <2>4, <2>5 DEF tally_passes, yes2, options2
  <1>6. CASE t.kind = "absolute_count"
    <2>1. t.threshold \in Nat /\ yes >= t.threshold
      BY <1>3, <1>6, ThresholdKinds DEF tally_passes
    <2> QED BY <1>1, <1>2, <1>3, <1>6, <2>1 DEF tally_passes
  <1> QED BY <1>3, <1>4, <1>5, <1>6, ThresholdKinds

\* The tally excludes that the proposal passes, whatever the votes to come.
Excluded(p) ==
    LET t == p.threshold
        all_options == p.total_power - p.votes["abstain"]
    IN  IF t.kind = "absolute_count"
        THEN p.votes["yes"] + (p.total_power - total(p.votes)) < t.threshold
        ELSE no_votes_reject(p.votes["no"], all_options, YesPercentage(t))

\* Before the end that is what the last part of is_rejected says.
LEMMA RejectsIsExcluded ==
    ASSUME NEW p, p.threshold \in Threshold, validate(p.threshold), NEW now,
           ~is_expired(p.expiration, now)
    PROVE  tally_rejects(p, now) <=> Excluded(p)
  BY ThresholdKinds DEF tally_rejects, Excluded

\* It stays so with votes that are added.
LEMMA StillExcluded ==
    ASSUME NEW p, IsProposal(p), Bounded(p), NEW q, IsProposal(q), Bounded(q),
           SameTerms(p, q), VotesAdded(p, q), validate(p.threshold), Excluded(p)
    PROVE  Excluded(q)
  <1> DEFINE t == p.threshold
             no == p.votes["no"]
             no2 == q.votes["no"]
             all == p.total_power - p.votes["abstain"]
             all2 == q.total_power - q.votes["abstain"]
             left == p.votes["yes"] + (p.total_power - total(p.votes))
             left2 == q.votes["yes"] + (q.total_power - total(q.votes))
  <1>1. no \in Nat /\ no2 \in Nat /\ all \in Nat /\ all2 \in Nat
    BY TallyOptions
  <1>2. no <= no2 /\ all2 <= all /\ left2 <= left
    BY AddedOptions
  <1>3. q.threshold = t /\ t \in Threshold
    BY DEF SameTerms, IsProposal
  <1>4. CASE t.kind = "absolute_count"
    <2>1. left \in Int /\ left2 \in Int /\ t.threshold \in Nat
      <3>1. p.total_power \in Nat /\ q.total_power \in Nat
        BY DEF IsProposal
      <3> QED BY <1>3, <1>4, <3>1, TallyOptions, ThresholdKinds
    <2>2. left < t.threshold
      BY <1>4 DEF Excluded
    <2>3. left2 < t.threshold
      <3> HIDE DEF left, left2
      <3> QED BY <1>2, <2>1, <2>2
    <2> QED BY <1>3, <1>4, <2>3 DEF Excluded
  <1>5. CASE t.kind # "absolute_count"
    <2> DEFINE percent == YesPercentage(t)
    <2>1. percent \in PercentageThreshold /\ validate_percentage(percent)
      BY <1>3, <1>5, ThresholdKinds
    <2>2. no_votes_reject(no, all, percent)
      BY <1>5 DEF Excluded
    <2> HIDE DEF no, no2, all, all2, t, percent
    <2>3. no_votes_reject(no2, all2, percent)
      BY <1>1, <1>2, <2>1, <2>2, FailMonotone
    <2> QED BY <1>3, <1>5, <2>3 DEF Excluded, no2, all2, percent
  <1> QED BY <1>4, <1>5

\* And what is excluded does not pass, before the end or after it.
LEMMA ExcludedDoesNotPass ==
    ASSUME NEW p, IsProposal(p), Bounded(p), validate(p.threshold), Exact(p.threshold),
           Excluded(p), NEW now
    PROVE  ~tally_passes(p, now)
  <1> DEFINE t == p.threshold
             yes == p.votes["yes"]
             no == p.votes["no"]
             all == p.total_power - p.votes["abstain"]
             cast == total(p.votes) - p.votes["abstain"]
  <1>1. /\ yes \in Nat /\ no \in Nat /\ all \in Nat /\ cast = yes + no /\ yes + no <= all
        /\ cast \in Nat /\ cast <= all
    BY TallyOptions
  <1>2. t \in Threshold
    BY DEF IsProposal
  <1>3. CASE t.kind = "absolute_count"
    <2>1. /\ t.threshold \in Nat /\ p.total_power \in Nat /\ total(p.votes) \in Nat
          /\ total(p.votes) <= p.total_power
      BY <1>2, <1>3, ThresholdKinds, TallyOptions DEF IsProposal, Bounded
    <2>2. yes + (p.total_power - total(p.votes)) < t.threshold
      BY <1>3 DEF Excluded
    <2>3. ~(yes >= t.threshold)
      BY <1>1, <2>1, <2>2
    <2> QED BY <1>3, <2>3 DEF tally_passes
  <1>4. CASE t.kind # "absolute_count"
    <2> DEFINE percent == YesPercentage(t)
    <2>1. /\ percent \in PercentageThreshold /\ validate_percentage(percent)
          /\ ExactPercentage(percent)
      BY <1>2, <1>4, ThresholdKinds DEF Exact
    <2>2. no_votes_reject(no, all, percent)
      BY <1>4 DEF Excluded
    <2> HIDE DEF yes, no, all, cast, percent
    <2>3. no_votes_reject(no, cast, percent)
      BY <1>1, <2>1, <2>2, FailMonotone
    <2>4. ~does_vote_count_pass(yes, all, percent) /\ ~does_vote_count_pass(yes, cast, percent)
      BY <1>1, <2>1, <2>2, <2>3, FailExcludesPass
    <2>5. CASE t.kind = "absolute_percentage"
      <3>1. percent = t.percentage
        BY <2>5 DEF percent, YesPercentage
      <3> QED BY <2>4, <2>5, <3>1 DEF tally_passes, yes, all
    <2>6. CASE t.kind = "threshold_quorum"
      <3>1. percent = t.threshold
        BY <2>6 DEF percent, YesPercentage
      <3>2. CASE is_expired(p.expiration, now)
        BY <2>4, <2>6, <3>1, <3>2 DEF tally_passes, yes, cast
      <3>3. CASE ~is_expired(p.expiration, now)
        BY <2>4, <2>6, <3>1, <3>3 DEF tally_passes, yes, all
      <3> QED BY <3>2, <3>3
    <2> QED BY <1>2, <1>4, <2>5, <2>6, ThresholdKinds
  <1> QED BY <1>3, <1>4

----------------------------------------------------------------------------
(* What happens to one proposal *)

\* Outcomes are a matter of the terms and the votes.
LEMMA SameOutcome ==
    ASSUME NEW p, NEW q, SameTerms(p, q), q.votes = p.votes, NEW now
    PROVE  /\ is_passed(p, now) <=> is_passed(q, now)
           /\ is_rejected(p, now) <=> is_rejected(q, now)
           /\ WellFormed(p) <=> WellFormed(q)
           /\ Bounded(p) <=> Bounded(q)
  <1>1. tally_passes(p, now) <=> tally_passes(q, now)
    BY DEF SameTerms, tally_passes
  <1>2. tally_rejects(p, now) <=> tally_rejects(q, now)
    BY DEF SameTerms, tally_rejects
  <1> QED BY <1>1, <1>2 DEF SameTerms, is_passed, is_rejected, WellFormed, Bounded

\* A status that follows from the one before: it stays decided, stays rejected,
\* or says nothing about the outcome.
SettledBy(p, q) ==
    /\ q.status \in Decided => p.status \in Decided
    /\ q.status \in {"rejected", "closed"} => p.status \in {"rejected", "closed"}

\* Such a status may be saved.
LEMMA SaveKeepsOutcome ==
    ASSUME NEW p, NEW q, SameTerms(p, q), q.votes = p.votes, SettledBy(p, q),
           NEW now, OutcomeOK(p, now)
    PROVE  OutcomeOK(q, now)
  <1>1. WellFormed(q)
    BY SameOutcome DEF OutcomeOK
  <1>2. q.threshold = p.threshold /\ q.expiration = p.expiration
    BY DEF SameTerms
  <1>3. PassKept(q, now)
    BY <1>2, SameOutcome DEF OutcomeOK, PassKept, SettledBy
  <1>4. RejectionKept(q, now)
    BY <1>2, SameOutcome DEF OutcomeOK, RejectionKept, SettledBy
  <1> QED BY <1>1, <1>3, <1>4 DEF OutcomeOK

\* update_status decides what is_passed, is_rejected and the end decide.
LEMMA UpdateKeepsOutcome ==
    ASSUME NEW p \in Proposal(Addr, MsgLists), NEW now, OutcomeOK(p, now)
    PROVE  /\ OutcomeOK(update_status(p, now), now)
           /\ SameTerms(p, update_status(p, now))
           /\ update_status(p, now).votes = p.votes
  <1> DEFINE q == update_status(p, now)
  <1>1. /\ SameTerms(p, q) /\ q.votes = p.votes /\ q.status = current_status(p, now)
    BY DEF update_status, SameTerms, Proposal
  <1>2. p.status \in Status
    BY DEF Proposal
  <1> HIDE DEF q
  <1>3. q.threshold = p.threshold /\ q.expiration = p.expiration
    BY <1>1 DEF SameTerms
  <1>4. CASE p.status = "open" /\ is_passed(p, now)
    <2>1. q.status \in {"passed", "veto_timelock"} /\ is_passed(q, now) /\ WellFormed(q)
      BY <1>1, <1>4, SameOutcome DEF current_status, OutcomeOK
    <2> QED BY <1>1, <2>1 DEF OutcomeOK, PassKept, RejectionKept, q
  <1>5. CASE p.status = "open" /\ ~is_passed(p, now)
    <2>1. /\ q.status = "open" \/ (q.status = "rejected" /\ is_expired(p.expiration, now))
             \/ (q.status = "rejected" /\ is_rejected(p, now))
      BY <1>1, <1>5 DEF current_status
    <2>2. ~is_passed(q, now) /\ WellFormed(q) /\ (is_rejected(p, now) => is_rejected(q, now))
      BY <1>1, <1>5, SameOutcome DEF OutcomeOK
    <2> QED BY <1>1, <1>3, <2>1, <2>2 DEF OutcomeOK, PassKept, RejectionKept, Decided, q
  <1>6. CASE p.status # "open"
    <2>1. q.status = p.status \/ (p.status = "veto_timelock" /\ q.status = "passed")
      BY <1>1, <1>6 DEF current_status
    <2>2. SettledBy(p, q)
      BY <2>1 DEF SettledBy, Decided
    <2> QED BY <1>1, <2>2, SaveKeepsOutcome DEF q
  <1> QED BY <1>4, <1>5, <1>6

\* A vote is cast before the end, and is a further one unless votes may be
\* changed, in which case nothing is decided yet.
LEMMA VoteKeepsOutcome ==
    ASSUME NEW p, IsProposal(p), Bounded(p), NEW q, IsProposal(q), Bounded(q),
           SameTerms(p, q), q.status = p.status, p.allow_revoting \/ VotesAdded(p, q),
           NEW now \in Nat, ~is_expired(p.expiration, now), OutcomeOK(p, now)
    PROVE  OutcomeOK(q, now)
  <1>1. /\ q.threshold = p.threshold /\ q.expiration = p.expiration
        /\ q.min_voting_period = p.min_voting_period
        /\ q.allow_revoting = p.allow_revoting
        /\ p.threshold \in Threshold
    BY DEF SameTerms, IsProposal
  <1>2. WellFormed(q) /\ validate(p.threshold)
    BY DEF WellFormed, OutcomeOK, SameTerms
  <1>3. ASSUME q.status \in Decided, Coarse(q.threshold)
        PROVE  is_passed(q, now)
    <2>1. is_passed(p, now) /\ Coarse(p.threshold)
      BY <1>1, <1>3 DEF OutcomeOK, PassKept
    <2>2. ~p.allow_revoting /\ is_expired(p.min_voting_period, now) /\ tally_passes(p, now)
      BY <2>1 DEF is_passed
    <2>3. now <= now
      OBVIOUS
    <2>4. tally_passes(q, now)
      BY <1>2, <2>1, <2>2, <2>3, TallyStillPasses
    <2> QED BY <1>1, <2>2, <2>4 DEF is_passed
  <1>4. ASSUME q.status \in {"rejected", "closed"}, Exact(q.threshold)
        PROVE  is_rejected(q, now)
    <2>1. is_rejected(p, now)
      BY <1>1, <1>4 DEF OutcomeOK, RejectionKept
    <2>2. ~p.allow_revoting /\ tally_rejects(p, now)
      BY <2>1 DEF is_rejected
    <2>3. Excluded(p)
      BY <1>1, <1>2, <2>2, RejectsIsExcluded
    <2>4. Excluded(q)
      BY <1>2, <2>2, <2>3, StillExcluded
    <2>5. tally_rejects(q, now)
      BY <1>1, <1>2, <2>4, RejectsIsExcluded
    <2> QED BY <1>1, <2>2, <2>5 DEF is_rejected
  <1>5. PassKept(q, now)
    BY <1>3 DEF PassKept
  <1>6. RejectionKept(q, now)
    BY <1>1, <1>4 DEF RejectionKept
  <1> QED BY <1>2, <1>5, <1>6 DEF OutcomeOK

\* Time decides nothing again.
LEMMA TickKeepsOutcome ==
    ASSUME NEW p, IsProposal(p), Bounded(p), NEW now \in Nat, OutcomeOK(p, now)
    PROVE  OutcomeOK(p, now + 1)
  <1>1. /\ SameTerms(p, p) /\ VotesAdded(p, p) /\ WellFormed(p) /\ validate(p.threshold)
        /\ p.threshold \in Threshold /\ p.expiration \in Nat /\ p.min_voting_period \in Nat
        /\ p.min_voting_period <= p.expiration
    <2>1. \A o \in Vote : p.votes[o] \in Nat
      BY DEF IsProposal, Votes
    <2>2. VotesAdded(p, p)
      BY <2>1 DEF VotesAdded
    <2> QED BY <2>2 DEF SameTerms, OutcomeOK, WellFormed, IsProposal
  <1>2. ASSUME p.status \in Decided, Coarse(p.threshold)
        PROVE  is_passed(p, now + 1)
    <2>1. is_passed(p, now)
      BY <1>2 DEF OutcomeOK, PassKept
    <2>2. now + 1 \in Nat /\ now <= now + 1
      OBVIOUS
    <2>3. tally_passes(p, now + 1)
      <3> DEFINE then == now + 1
      <3> HIDE DEF then
      <3>1. then \in Nat /\ now <= then
        BY <2>2 DEF then
      <3>2. tally_passes(p, then)
        BY <1>1, <1>2, <2>1, <3>1, TallyStillPasses DEF is_passed
      <3> QED BY <3>2 DEF then
    <2> QED BY <1>1, <2>1, <2>3 DEF is_passed, is_expired
  <1>3. ASSUME p.status \in {"rejected", "closed"}, Exact(p.threshold)
        PROVE  IF is_expired(p.expiration, now + 1) THEN ~is_passed(p, now + 1)
                                                    ELSE is_rejected(p, now + 1)
    <2>1. CASE is_expired(p.expiration, now)
      <3>1. ~is_passed(p, now) /\ is_expired(p.min_voting_period, now)
        BY <1>1, <1>3, <2>1 DEF OutcomeOK, RejectionKept, is_expired
      <3>2. ~tally_passes(p, now)
        BY <2>1, <3>1 DEF is_passed
      <3>3. is_expired(p.expiration, now + 1)
        BY <1>1, <2>1 DEF is_expired
      <3>4. ~tally_passes(p, now + 1)
        BY <2>1, <3>2, <3>3 DEF tally_passes
      <3> QED BY <3>3, <3>4 DEF is_passed
    <2>2. CASE ~is_expired(p.expiration, now)
      <3>1. is_rejected(p, now)
        BY <1>3, <2>2 DEF OutcomeOK, RejectionKept
      <3>2. ~p.allow_revoting /\ Excluded(p)
        BY <1>1, <2>2, <3>1, RejectsIsExcluded DEF is_rejected
      <3>3. CASE is_expired(p.expiration, now + 1)
        BY <1>1, <1>3, <3>2, <3>3, ExcludedDoesNotPass DEF is_passed
      <3>4. CASE ~is_expired(p.expiration, now + 1)
        BY <1>1, <3>2, <3>4, RejectsIsExcluded DEF is_rejected
      <3> QED BY <3>3, <3>4
    <2> QED BY <2>1, <2>2
  <1> QED BY <1>1, <1>2, <1>3 DEF OutcomeOK, PassKept, RejectionKept

----------------------------------------------------------------------------
(* What happens to a storage *)

\* The tallies of a storage are bounded by the total power.
LEMMA StoreBounded ==
    ASSUME NEW s, StoreInv(s), NEW id \in DOMAIN s.proposals, WellFormed(s.proposals[id])
    PROVE  /\ Bounded(s.proposals[id])
           /\ s.proposals[id] \in Proposal(Addr, MsgLists)
           /\ IsProposal(s.proposals[id])
  <1> DEFINE p == s.proposals[id]
             h == p.start_height
             S(o) == Supporters(s.ballots[id], o)
             rest == Addr \ (S("yes") \cup S("no") \cup S("abstain"))
  <1>1. p \in Proposal(Addr, MsgLists) /\ IsProposal(p)
    <2>1. s.proposals \in Seq(Proposal(Addr, MsgLists))
      BY ConfigType
    <2>2. p \in Proposal(Addr, MsgLists)
      BY <2>1
    <2> QED BY <2>2, ProposalIsProposal
  <1>2. h \in Heights
    BY DEF StoreInv, StartsOK
  <1>3. /\ p.votes["yes"] = PowerAt[h][S("yes")] /\ p.votes["no"] = PowerAt[h][S("no")]
        /\ p.votes["abstain"] = PowerAt[h][S("abstain")]
    BY DEF StoreInv, TalliesOK, Vote
  <1>4. /\ S("yes") \in SUBSET Addr /\ S("no") \in SUBSET Addr /\ S("abstain") \in SUBSET Addr
        /\ rest \in SUBSET Addr
        /\ S("yes") \cap S("no") = {} /\ (S("yes") \cup S("no")) \cap S("abstain") = {}
        /\ (S("yes") \cup S("no") \cup S("abstain")) \cap rest = {}
        /\ (S("yes") \cup S("no") \cup S("abstain")) \cup rest = Addr
    BY DEF Supporters
  <1> DEFINE a == S("yes")
             b == S("no")
             c == S("abstain")
  <1> HIDE DEF a, b, c, rest
  <1>5. /\ a \in SUBSET Addr /\ b \in SUBSET Addr /\ c \in SUBSET Addr /\ rest \in SUBSET Addr
        /\ a \cup b \in SUBSET Addr /\ a \cup b \cup c \in SUBSET Addr
        /\ a \cap b = {} /\ (a \cup b) \cap c = {} /\ (a \cup b \cup c) \cap rest = {}
        /\ (a \cup b \cup c) \cup rest = Addr
    BY <1>4 DEF a, b, c
  <1>6. /\ PowerAt[h][a \cup b] = PowerAt[h][a] + PowerAt[h][b]
        /\ PowerAt[h][a \cup b \cup c] = PowerAt[h][a \cup b] + PowerAt[h][c]
        /\ PowerAt[h][Addr] = PowerAt[h][a \cup b \cup c] + PowerAt[h][rest]
    <2>1. PowerAt[h][a \cup b] = PowerAt[h][a] + PowerAt[h][b]
      BY <1>2, <1>5, PowerAssumption
    <2> DEFINE ab == a \cup b
               abc == ab \cup c
    <2>2. /\ ab \in SUBSET Addr /\ ab \cap c = {} /\ abc \in SUBSET Addr
          /\ abc \cap rest = {} /\ abc \cup rest = Addr
      BY <1>5
    <2> HIDE DEF ab
    <2>3. PowerAt[h][abc] = PowerAt[h][ab] + PowerAt[h][c]
      BY <1>2, <1>5, <2>2, PowerAssumption
    <2> HIDE DEF abc
    <2>4. PowerAt[h][abc \cup rest] = PowerAt[h][abc] + PowerAt[h][rest]
      BY <1>2, <1>5, <2>2, PowerAssumption
    <2>5. PowerAt[h][Addr] = PowerAt[h][abc] + PowerAt[h][rest]
      BY <2>2, <2>4
    <2> QED BY <2>1, <2>3, <2>5 DEF abc, ab
  <1>7. /\ PowerAt[h][a] \in Nat /\ PowerAt[h][b] \in Nat /\ PowerAt[h][c] \in Nat
        /\ PowerAt[h][rest] \in Nat /\ PowerAt[h][Addr] <= TotalPowerAt[h]
        /\ TotalPowerAt[h] \in Nat
    BY <1>2, <1>5, PowerAssumption
  <1>8. PowerAt[h][a] + PowerAt[h][b] + PowerAt[h][c] <= TotalPowerAt[h]
    BY <1>6, <1>7
  <1>9. total(p.votes) = PowerAt[h][a] + PowerAt[h][b] + PowerAt[h][c]
    BY <1>3 DEF total, a, b, c
  <1> QED BY <1>1, <1>8, <1>9 DEF Bounded, WellFormed

\* Saving one proposal.
LEMMA SaveOneOutcome ==
    ASSUME NEW s, NEW now, OutcomesOK(s, now), NEW id \in DOMAIN s.proposals,
           NEW q, OutcomeOK(q, now),
           NEW t, t.config = s.config, t.proposals = [s.proposals EXCEPT ![id] = q]
    PROVE  OutcomesOK(t, now)
  BY DEF OutcomesOK

\* Saving something else.
LEMMA SameOutcomes ==
    ASSUME NEW s, NEW now, OutcomesOK(s, now),
           NEW t, t.config = s.config, t.proposals = s.proposals
    PROVE  OutcomesOK(t, now)
  BY DEF OutcomesOK

\* execute_vote.
LEMMA VoteKeepsOutcomes ==
    ASSUME NEW s, StoreInv(s), height \in Heights, OutcomesOK(s, height),
           NEW sender \in Addr, NEW id, NEW vote \in Vote, NEW rationale \in Rationales,
           CanVote(s, sender, id, vote)
    PROVE  OutcomesOK(AfterVote(s, sender, id, vote, rationale), height)
  <1> DEFINE p == s.proposals[id]
             ballot == s.ballots[id][sender]
             power == voting_power(sender, p.start_height)
             votes == add_vote(Cleared(p.votes, ballot), vote, power)
             q == [p EXCEPT !.votes = votes]
             w == WithVote(s, sender, id, vote)
             t == AfterVote(s, sender, id, vote, rationale)
  <1>1. /\ id \in DOMAIN s.proposals /\ ~is_expired(p.expiration, height)
        /\ ballot.vote # "none" => p.allow_revoting
    BY DEF CanVote
  <1>2. height \in Nat
    BY BoundAssumption DEF Heights
  <1>3. OutcomeOK(p, height) /\ WellFormed(p)
    BY <1>1 DEF OutcomesOK, OutcomeOK
  <1>4. Bounded(p) /\ p \in Proposal(Addr, MsgLists) /\ IsProposal(p)
    BY <1>1, <1>3, StoreBounded
  <1>5. /\ s \in Store /\ StoreInv(t)
    BY ConfigType, VoteKeepsStore
  <1>6. t.config = s.config /\ t.proposals = [s.proposals EXCEPT ![id] = w]
    BY <1>5 DEF AfterVote, Store
  <1>7. id \in DOMAIN t.proposals /\ t.proposals[id] = w
    BY <1>1, <1>6
  <1>8. w = update_status(q, height)
    BY DEF WithVote, Cleared
  <1> HIDE DEF votes
  <1>9. /\ SameTerms(p, q) /\ q.status = p.status /\ q.votes = votes
        /\ DOMAIN q = DOMAIN p
    <2> HIDE DEF p
    <2> QED BY <1>4 DEF Proposal, SameTerms
  <1>10. SameTerms(q, w) /\ w.votes = q.votes
    <2>1. "status" \in DOMAIN q
      <3> HIDE DEF p
      <3> QED BY <1>4, <1>9 DEF Proposal
    <2> HIDE DEF q
    <2> QED BY <1>8, <2>1 DEF update_status, SameTerms
  <1>11. WellFormed(q) /\ WellFormed(w)
    <2> HIDE DEF p, q, w
    <2> QED BY <1>3, <1>9, <1>10 DEF SameTerms, WellFormed
  <1>12. Bounded(w) /\ w \in Proposal(Addr, MsgLists)
    <2> HIDE DEF t, w
    <2> QED BY <1>5, <1>7, <1>11, StoreBounded
  <1>13. Bounded(q) /\ votes \in Votes
    <2> HIDE DEF q, w
    <2> QED BY <1>9, <1>10, <1>12, SameOutcome DEF Proposal
  <1>14. q \in Proposal(Addr, MsgLists) /\ IsProposal(q)
    <2>1. q \in Proposal(Addr, MsgLists)
      <3> HIDE DEF p
      <3> QED BY <1>4, <1>13 DEF Proposal
    <2> QED BY <2>1, ProposalIsProposal
  <1>15. p.allow_revoting \/ VotesAdded(p, q)
    <2>1. CASE ballot.vote # "none"
      BY <1>1, <2>1
    <2>2. CASE ballot.vote = "none"
      <3>1. votes = [p.votes EXCEPT ![vote] = @ + power]
        BY <2>2 DEF votes, Cleared, add_vote
      <3>2. p.votes \in [Vote -> Nat]
        BY <1>4 DEF IsProposal, Votes
      <3>3. power \in Nat
        <4>1. p.start_height \in Heights
          BY <1>1 DEF StoreInv, StartsOK
        <4> QED BY <4>1, PowerType DEF voting_power
      <3>4. \A o \in Vote : p.votes[o] <= votes[o]
        <4> HIDE DEF p, power
        <4> QED BY <3>1, <3>2, <3>3
      <3> QED BY <1>9, <3>4 DEF VotesAdded
    <2> QED BY <2>1, <2>2
  <1>16. OutcomeOK(q, height)
    <2> HIDE DEF p, q
    <2> QED BY <1>1, <1>2, <1>3, <1>4, <1>9, <1>13, <1>14, <1>15, VoteKeepsOutcome
  <1>17. OutcomeOK(w, height)
    <2> HIDE DEF q, w
    <2> QED BY <1>8, <1>14, <1>16, UpdateKeepsOutcome
  <1> HIDE DEF w, t
  <1>18. OutcomesOK(t, height)
    BY <1>1, <1>6, <1>17, SaveOneOutcome
  <1> QED BY <1>18 DEF t

\* The proposal execute_propose saves.
LEMMA ProposeKeepsOutcomes ==
    ASSUME NEW s, StoreInv(s), height \in Heights, OutcomesOK(s, height),
           NEW msgs \in MsgLists
    PROVE  OutcomesOK(AfterPropose(s, msgs), height)
  <1> DEFINE c == s.config
             q == [start_height |-> height,
                   min_voting_period |-> height + c.min_voting_period,
                   expiration |-> height + c.max_voting_period,
                   threshold |-> c.threshold,
                   total_power |-> TotalPowerAt[height],
                   msgs |-> msgs,
                   status |-> "open",
                   votes |-> zero,
                   allow_revoting |-> c.allow_revoting,
                   veto |-> c.veto]
             p == NewProposal(s, msgs)
             t == AfterPropose(s, msgs)
  <1>1. /\ c \in Config /\ ValidConfig(c) /\ s \in Store
        /\ s.proposals \in Seq(Proposal(Addr, MsgLists))
    BY ConfigType DEF OutcomesOK
  <1>2. height \in Nat /\ TotalPowerAt[height] \in Nat
    BY PowerAssumption, BoundAssumption DEF Heights
  <1>3. /\ c.threshold \in Threshold /\ c.min_voting_period \in Nat
        /\ c.max_voting_period \in Nat /\ c.allow_revoting \in BOOLEAN
        /\ c.veto \in {NoVeto} \cup VetoConfig(Addr)
    BY <1>1 DEF Config
  <1>4. q \in Proposal(Addr, MsgLists)
    <2>1. zero \in Votes /\ "open" \in Status
      BY DEF zero, Votes, Status
    <2> HIDE DEF c
    <2> QED BY <1>2, <1>3, <2>1 DEF Proposal
  <1>5. WellFormed(q)
    <2>1. validate(c.threshold) /\ c.min_voting_period <= c.max_voting_period
      BY <1>1 DEF ValidConfig, validate_voting_period
    <2> HIDE DEF c
    <2> QED BY <1>2, <1>3, <2>1 DEF WellFormed
  <1>6. OutcomeOK(q, height)
    <2>1. q.status = "open"
      OBVIOUS
    <2> HIDE DEF q
    <2> QED BY <1>5, <2>1 DEF OutcomeOK, PassKept, RejectionKept, Decided
  <1>7. p = update_status(q, height)
    BY DEF NewProposal
  <1> HIDE DEF q
  <1>8. OutcomeOK(p, height) /\ p \in Proposal(Addr, MsgLists)
    BY <1>4, <1>6, <1>7, UpdateKeepsOutcome, UpdateStatusType
  <1>9. t.config = s.config /\ t.proposals = Append(s.proposals, p)
    BY <1>1 DEF AfterPropose, Store
  <1> HIDE DEF p, t
  <1>10. \A i \in DOMAIN t.proposals :
             \/ t.proposals[i] = p
             \/ i \in DOMAIN s.proposals /\ t.proposals[i] = s.proposals[i]
    <2> DEFINE n == Len(s.proposals)
    <2>1. /\ DOMAIN t.proposals = 1 .. n + 1 /\ t.proposals[n + 1] = p
          /\ \A i \in 1 .. n : t.proposals[i] = s.proposals[i]
      BY <1>1, <1>8, <1>9, SeqAppend
    <2>2. n \in Nat /\ DOMAIN s.proposals = 1 .. n
      BY <1>1
    <2> HIDE DEF n
    <2>3. \A i \in 1 .. n + 1 : i = n + 1 \/ i \in 1 .. n
      BY <2>2
    <2> QED BY <2>1, <2>2, <2>3
  <1>11. OutcomesOK(t, height)
    BY <1>8, <1>9, <1>10 DEF OutcomesOK
  <1> QED BY <1>11 DEF t

\* Completing a proposal that is loaded with the status from.
Completes(from, to) ==
    \/ to = "vetoed"
    \/ to = "executed" /\ from \in {"passed", "veto_timelock"}
    \/ to = "closed" /\ from = "rejected"

LEMMA CompleteKeepsOutcomes ==
    ASSUME IInv, OutcomesOK(store, height), NEW id \in DOMAIN store.proposals,
           NEW status, Completes(Loaded(id).status, status),
           store' = [store EXCEPT !.proposals[id] = [Loaded(id) EXCEPT !.status = status]]
    PROVE  OutcomesOK(store', height)
  <1> DEFINE p == store.proposals[id]
             l == Loaded(id)
             q == [l EXCEPT !.status = status]
  <1>1. store \in Store /\ StoreInv(store) /\ OutcomeOK(p, height) /\ WellFormed(p)
    BY ConfigType DEF IInv, OutcomesOK, OutcomeOK
  <1>2. p \in Proposal(Addr, MsgLists)
    BY <1>1, StoreBounded
  <1>3. OutcomeOK(l, height) /\ l \in Proposal(Addr, MsgLists)
    BY <1>1, <1>2, UpdateKeepsOutcome, UpdateStatusType DEF Loaded
  <1> HIDE DEF l
  <1>4. SameTerms(l, q) /\ q.votes = l.votes /\ q.status = status
    BY <1>3 DEF SameTerms, Proposal
  <1> HIDE DEF q
  <1>5. SettledBy(l, q)
    BY <1>4 DEF SettledBy, Completes, Decided, l
  <1>6. OutcomeOK(q, height)
    BY <1>3, <1>4, <1>5, SaveKeepsOutcome
  <1>7. store'.config = store.config /\ store'.proposals = [store.proposals EXCEPT ![id] = q]
    BY <1>1 DEF Store, q, l
  <1> QED BY <1>6, <1>7, SaveOneOutcome

\* The calls of the DAO: a configuration is validated before it is saved.
LEMMA DaoCallKeepsOutcomes ==
    ASSUME NEW s, StoreInv(s), NEW now, OutcomesOK(s, now), NEW call \in DaoRequest,
           DaoCallAccepted(s, call)
    PROVE  OutcomesOK(AfterDaoCall(s, call), now)
  <1> DEFINE t == AfterDaoCall(s, call)
  <1>1. s \in Store
    BY ConfigType
  <1>2. t.proposals = s.proposals
    BY DaoCallSaves
  <1>3. call.kind \in {"update_config", "update_pre_propose_info", "add_proposal_hook",
                       "remove_proposal_hook", "add_vote_hook", "remove_vote_hook"}
    BY DEF DaoMsg, DaoRequest
  <1>4. ValidConfig(t.config)
    <2> USE <1>1 DEF AfterDaoCall, Store, OutcomesOK
    <2>1. CASE call.kind = "update_config"
      <3>1. t.config = call.config
        BY <2>1 DEF execute_update_config
      <3>2. ValidConfig(call.config)
        BY <2>1 DEF DaoCallAccepted
      <3> QED BY <3>1, <3>2
    <2>2. CASE call.kind = "update_pre_propose_info"
      BY <2>2 DEF execute_update_proposal_creation_policy
    <2>3. CASE call.kind = "add_proposal_hook"
      BY <2>3 DEF execute_add_proposal_hook
    <2>4. CASE call.kind = "remove_proposal_hook"
      BY <2>4 DEF execute_remove_proposal_hook
    <2>5. CASE call.kind = "add_vote_hook"
      BY <2>5 DEF execute_add_vote_hook
    <2>6. CASE call.kind = "remove_vote_hook"
      BY <2>6 DEF execute_remove_vote_hook
    <2> QED BY <1>3, <2>1, <2>2, <2>3, <2>4, <2>5, <2>6
  <1> QED BY <1>2, <1>4 DEF OutcomesOK

\* reply on a failed execution: the proposal was saved as executed.
LEMMA FailedExecutionOutcomes ==
    ASSUME NEW s, StoreInv(s), NEW now, OutcomesOK(s, now), NEW id, IsDue(s, id),
           NEW t, t = [s EXCEPT !.proposals[id].status = "execution_failed"]
    PROVE  OutcomesOK(t, now)
  <1> DEFINE p == s.proposals[id]
             q == [p EXCEPT !.status = "execution_failed"]
  <1>1. s \in Store /\ id \in DOMAIN s.proposals /\ p.status = "executed"
    BY ConfigType DEF IsDue
  <1>2. p \in Proposal(Addr, MsgLists) /\ OutcomeOK(p, now)
    BY <1>1, StatusType DEF OutcomesOK
  <1>3. SameTerms(p, q) /\ q.votes = p.votes /\ q.status = "execution_failed"
    BY <1>2 DEF SameTerms, Proposal
  <1>4. t.config = s.config /\ t.proposals = [s.proposals EXCEPT ![id] = q]
    BY <1>1 DEF Store
  <1> HIDE DEF q
  <1>5. SettledBy(p, q)
    BY <1>1, <1>3 DEF SettledBy, Decided
  <1>6. OutcomeOK(q, now)
    BY <1>2, <1>3, <1>5, SaveKeepsOutcome
  <1> QED BY <1>1, <1>4, <1>6, SaveOneOutcome

----------------------------------------------------------------------------
(* The steps *)

\* The outcomes in the storages a stack has saved.
SavedOutcomes(st, now) == \A k \in DOMAIN st : OutcomesOK(st[k].saved, now)

\* A handler saves the storage it starts from.
LEMMA RespondKeepsOutcomes ==
    ASSUME IInv, OInv, NEW sender, NEW msgs, Respond(sender, msgs)
    PROVE  SavedOutcomes(stack', height)
  <1>1. CASE stack = <<>>
    <2>1. stack' = <<Frame(Msg(sender, [kind |-> "tx"]), store, msgs, TRUE)>>
      BY <1>1 DEF Respond
    <2>2. DOMAIN stack' = {1} /\ stack'[1].saved = store
      BY <2>1 DEF Frame
    <2> QED BY <2>2 DEF OInv, SavedOutcomes
  <1>2. CASE stack # <<>>
    <2> DEFINE n == Len(stack)
    <2>1. stack \in Seq(FrameType) /\ n \in DOMAIN stack /\ stack[n] \in FrameType
      BY <1>2, TopType DEF IInv, StackInv
    <2>2. stack' = [stack EXCEPT ![n].pending = msgs, ![n].called = TRUE]
      BY <1>2 DEF Respond
    <2>3. DOMAIN stack' = DOMAIN stack
          /\ stack'[n] = [stack[n] EXCEPT !.pending = msgs, !.called = TRUE]
          /\ \A k \in DOMAIN stack \ {n} : stack'[k] = stack[k]
      BY <2>1, <2>2
    <2>4. stack'[n].saved = stack[n].saved
      BY <2>1, <2>3 DEF FrameType
    <2>5. \A k \in DOMAIN stack : stack'[k].saved = stack[k].saved
      BY <2>3, <2>4
    <2> QED BY <2>3, <2>5 DEF OInv, SavedOutcomes
  <1> QED BY <1>1, <1>2

\* The stack with other messages at the top has the same storages.
LEMMA PendingKeepsOutcomes ==
    ASSUME IInv, OInv, stack # <<>>, NEW msgs
    PROVE  /\ SavedOutcomes(WithPending(stack, msgs), height)
           /\ DOMAIN WithPending(stack, msgs) = 1 .. Len(stack)
           /\ Len(WithPending(stack, msgs)) = Len(stack)
           /\ Len(stack) \in Nat
  <1> DEFINE n == Len(stack)
             st == WithPending(stack, msgs)
  <1>1. stack \in Seq(FrameType) /\ n \in DOMAIN stack /\ stack[n] \in FrameType
        /\ DOMAIN stack = 1 .. n /\ n \in Nat
    BY TopType DEF IInv, StackInv
  <1>2. st = [stack EXCEPT ![n].pending = msgs]
    BY DEF WithPending
  <1>3. DOMAIN st = DOMAIN stack /\ Len(st) = n
        /\ st[n] = [stack[n] EXCEPT !.pending = msgs]
        /\ \A k \in DOMAIN stack \ {n} : st[k] = stack[k]
    BY <1>1, <1>2
  <1>4. st[n].saved = stack[n].saved
    BY <1>1, <1>3 DEF FrameType
  <1>5. \A k \in DOMAIN stack : st[k].saved = stack[k].saved
    BY <1>3, <1>4
  <1>6. SavedOutcomes(st, height)
    BY <1>3, <1>5 DEF OInv, SavedOutcomes
  <1> QED BY <1>1, <1>3, <1>6

\* An error brings a saved storage back.
LEMMA UnwindKeepsOutcomes ==
    ASSUME IInv, VInv, OInv, stack # <<>>, Unwind
    PROVE  OutcomesOK(store', height) /\ SavedOutcomes(stack', height)
  <1>1. /\ stack \in Seq(FrameType) /\ Len(stack) \in Nat \ {0}
        /\ DOMAIN stack = 1 .. Len(stack)
        /\ \A k \in DOMAIN stack : OutcomesOK(stack[k].saved, height)
                                   /\ StoreInv(stack[k].saved)
    BY TopType DEF IInv, StackInv, OInv
  <1>2. CASE store' = stack[1].saved /\ stack' = <<>>
    BY <1>1, <1>2 DEF SavedOutcomes
  <1>3. ASSUME NEW k \in CatchingFrames,
               store' = AfterFailureReply(stack[k].saved, stack[k].reply_id),
               stack' = SubSeq(stack, 1, k - 1)
        PROVE  OutcomesOK(store', height) /\ SavedOutcomes(stack', height)
    <2> DEFINE s == stack[k].saved
               r == stack[k].reply_id
    <2>1. k \in DOMAIN stack /\ ReplyAccepted(s, r) /\ stack[k].reply_on = "error"
      BY DEF CatchingFrames
    <2>2. StoreInv(s) /\ OutcomesOK(s, height)
      BY <1>1, <2>1
    <2>3. /\ IsExecution(stack[k]) <=> reply_type(r) = FAILED_PROPOSAL_EXECUTION_MASK
          /\ IsExecution(stack[k]) => /\ id_after_shift(r) = stack[k].body.id
                                      /\ IsDue(s, stack[k].body.id)
      BY <2>1 DEF VInv, History, FramesOK, FrameOK, TaggedOK, VersionsOK
    <2>4. OutcomesOK(store', height)
      <3>1. CASE IsExecution(stack[k])
        <4> DEFINE id == stack[k].body.id
        <4>1. store' = [s EXCEPT !.proposals[id].status = "execution_failed"]
          BY <1>3, <2>1, <2>2, <2>3, <3>1, FailedHook
        <4>2. IsDue(s, id)
          BY <2>3, <3>1
        <4> HIDE DEF s, id
        <4> QED BY <2>2, <4>1, <4>2, FailedExecutionOutcomes
      <3>2. CASE ~IsExecution(stack[k])
        <4>1. store'.proposals = s.proposals /\ store'.config = s.config
          BY <1>3, <2>1, <2>2, <2>3, <3>2, FailedHook
        <4> QED BY <2>2, <4>1, SameOutcomes
      <3> QED BY <3>1, <3>2
    <2>5. SavedOutcomes(stack', height)
      <3> DEFINE m == k - 1
      <3>1. m \in Nat /\ m <= Len(stack)
        BY <1>1, <2>1
      <3> HIDE DEF m
      <3>2. /\ DOMAIN SubSeq(stack, 1, m) = 1 .. m
            /\ \A i \in 1 .. m : i \in DOMAIN stack /\ SubSeq(stack, 1, m)[i] = stack[i]
        BY <1>1, <3>1
      <3>3. SavedOutcomes(SubSeq(stack, 1, m), height)
        BY <1>1, <3>2 DEF SavedOutcomes
      <3> QED BY <1>3, <3>3 DEF m
    <2> QED BY <2>4, <2>5
  <1> QED BY <1>2, <1>3 DEF Unwind

\* The handlers.
LEMMA HandlersKeepOutcomes ==
    ASSUME IInv, OInv,
           \/ Propose \/ CastVote \/ UpdateRationale \/ Veto
           \/ \E id \in DOMAIN store.proposals : Execute(id) \/ Close(id)
           \/ \E call \in DaoCalls : DaoCall(call)
    PROVE  OInv'
  <1>0. StoreInv(store) /\ store \in Store /\ height \in Heights /\ OutcomesOK(store, height)
    BY ConfigType DEF IInv, OInv
  <1>r. ASSUME NEW sender, NEW msgs, Respond(sender, msgs), OutcomesOK(store', height),
               height' = height
        PROVE  OInv'
    <2>1. SavedOutcomes(stack', height)
      BY <1>r, RespondKeepsOutcomes
    <2> QED BY <1>r, <2>1 DEF OInv, SavedOutcomes
  <1>1. CASE Propose
    <2>1. PICK sender \in Peer, proposer \in Peer, msgs \in MsgLists,
               vote \in Vote \cup {"none"}, rationale \in Rationales :
                   execute_propose(sender, proposer, msgs, vote, rationale)
      BY <1>1 DEF Propose
    <2> DEFINE proposed == AfterPropose(store, msgs)
               id == Len(store.proposals) + 1
    <2>2. StoreInv(proposed) /\ OutcomesOK(proposed, height)
      BY <1>0, ProposeKeepsStore, ProposeKeepsOutcomes
    <2>3. \/ store' = proposed
          \/ /\ vote \in Vote /\ proposer \in Addr /\ CanVote(proposed, proposer, id, vote)
             /\ store' = AfterVote(proposed, proposer, id, vote, rationale)
      BY <2>1 DEF execute_propose, Peer
    <2>4. height' = height /\ \E m : Respond(sender, m)
      BY <2>1 DEF execute_propose
    <2> HIDE DEF proposed, id
    <2>5. OutcomesOK(store', height)
      BY <1>0, <2>2, <2>3, VoteKeepsOutcomes
    <2> QED BY <1>r, <2>4, <2>5
  <1>2. CASE CastVote
    <2>1. PICK sender \in Peer, id \in DOMAIN store.proposals, vote \in Vote,
               rationale \in Rationales : execute_vote(sender, id, vote, rationale)
      BY <1>2 DEF CastVote
    <2>2. /\ CanVote(store, sender, id, vote) /\ sender \in Addr /\ height' = height
          /\ store' = AfterVote(store, sender, id, vote, rationale)
          /\ \E m : Respond(sender, m)
      BY <2>1 DEF execute_vote, Peer
    <2>3. OutcomesOK(store', height)
      BY <1>0, <2>2, VoteKeepsOutcomes
    <2> QED BY <1>r, <2>2, <2>3
  <1>3. CASE UpdateRationale
    <2>1. /\ store'.config = store.config /\ store'.proposals = store.proposals
          /\ height' = height /\ \E sender, m : Respond(sender, m)
      BY <1>0, <1>3 DEF UpdateRationale, execute_update_rationale, Store
    <2>2. OutcomesOK(store', height)
      BY <1>0, <2>1, SameOutcomes
    <2> QED BY <1>r, <2>1, <2>2
  <1>4. CASE Veto
    <2>1. PICK sender \in Peer, id \in DOMAIN store.proposals : execute_veto(sender, id)
      BY <1>4 DEF Veto
    <2>2. /\ store' = [store EXCEPT !.proposals[id] = [Loaded(id) EXCEPT !.status = "vetoed"]]
          /\ height' = height /\ \E m : Respond(sender, m)
      BY <2>1 DEF execute_veto
    <2>3. Completes(Loaded(id).status, "vetoed")
      BY DEF Completes
    <2>4. OutcomesOK(store', height)
      BY <1>0, <2>2, <2>3, CompleteKeepsOutcomes
    <2> QED BY <1>r, <2>2, <2>4
  <1>5. ASSUME NEW id \in DOMAIN store.proposals, Execute(id)
        PROVE  OInv'
    <2>1. PICK sender \in Peer : execute_execute(sender, id)
      BY <1>5 DEF Execute
    <2>2. /\ store' = [store EXCEPT !.proposals[id] = [Loaded(id) EXCEPT !.status = "executed"]]
          /\ height' = height /\ \E m : Respond(sender, m)
          /\ Loaded(id).status \in {"passed", "veto_timelock"}
      BY <2>1 DEF execute_execute
    <2>3. Completes(Loaded(id).status, "executed")
      BY <2>2 DEF Completes
    <2>4. OutcomesOK(store', height)
      BY <1>0, <2>2, <2>3, CompleteKeepsOutcomes
    <2> QED BY <1>r, <2>2, <2>4
  <1>6. ASSUME NEW id \in DOMAIN store.proposals, Close(id)
        PROVE  OInv'
    <2>1. PICK sender \in Peer : execute_close(sender, id)
      BY <1>6 DEF Close
    <2>2. /\ store' = [store EXCEPT !.proposals[id] = [Loaded(id) EXCEPT !.status = "closed"]]
          /\ height' = height /\ \E m : Respond(sender, m)
          /\ Loaded(id).status = "rejected"
      BY <2>1 DEF execute_close
    <2>3. Completes(Loaded(id).status, "closed")
      BY <2>2 DEF Completes
    <2>4. OutcomesOK(store', height)
      BY <1>0, <2>2, <2>3, CompleteKeepsOutcomes
    <2> QED BY <1>r, <2>2, <2>4
  <1>7. ASSUME NEW call \in DaoCalls, DaoCall(call)
        PROVE  OInv'
    <2>1. /\ DaoCallAccepted(store, call) /\ store' = AfterDaoCall(store, call)
          /\ height' = height /\ \E m : Respond(Dao, m)
          /\ call \in DaoRequest
      BY <1>7, MsgAssumption DEF DaoCall
    <2>2. OutcomesOK(store', height)
      BY <1>0, <2>1, DaoCallKeepsOutcomes
    <2> QED BY <1>r, <2>1, <2>2
  <1> QED BY <1>1, <1>2, <1>3, <1>4, <1>5, <1>6, <1>7

\* The steps of a transaction.
LEMMA TransactionKeepsOutcomes ==
    ASSUME IInv, VInv, OInv, TransactionStep
    PROVE  OInv'
  <1>0. StoreInv(store) /\ store \in Store /\ OutcomesOK(store, height)
    BY ConfigType DEF IInv, OInv
  <1>s. ASSUME OutcomesOK(store', height), SavedOutcomes(stack', height), height' = height
        PROVE  OInv'
    BY <1>s DEF OInv, SavedOutcomes
  <1>1. CASE Dispatch
    <2>1. /\ store'.config = store.config /\ store'.proposals = store.proposals
          /\ height' = height /\ stack # <<>>
      BY <1>0, <1>1 DEF Dispatch, Store, Running
    <2> DEFINE st == WithPending(stack, Tail(Top.pending))
               n == Len(stack)
    <2>2. PICK f : stack' = Append(st, f) /\ f.saved = store
      <3>1. Advance(stack) = st
        BY DEF Advance, WithPending, Top, Last
      <3> QED BY <1>1, <3>1 DEF Dispatch, Frame
    <2>3. SavedOutcomes(st, height) /\ DOMAIN st = 1 .. n /\ Len(st) = n /\ n \in Nat
      BY <2>1, PendingKeepsOutcomes
    <2> HIDE DEF st, n
    <2>4. /\ DOMAIN stack' = 1 .. n + 1 /\ stack'[n + 1] = f
          /\ \A k \in 1 .. n : stack'[k] = st[k]
      BY <2>2, <2>3
    <2>5. \A k \in 1 .. n + 1 : k = n + 1 \/ k \in 1 .. n
      BY <2>3
    <2>6. SavedOutcomes(stack', height)
      BY <1>0, <2>2, <2>3, <2>4, <2>5 DEF SavedOutcomes
    <2>7. OutcomesOK(store', height)
      BY <1>0, <2>1, SameOutcomes
    <2> QED BY <1>s, <2>1, <2>6, <2>7
  <1>2. CASE DispatchDaoCall
    <2>1. stack # <<>> /\ height' = height /\ NextMsg.body \in DaoRequest
      BY <1>2, NextMsgVersions, RequestQuiet DEF DispatchDaoCall, Running, IsDaoCall
    <2>2. CASE /\ DaoCallAccepted(store, NextMsg.body)
               /\ store' = AfterDaoCall(store, NextMsg.body)
               /\ stack' = [stack EXCEPT ![Len(stack)].pending =
                                             DaoCallMsgs(NextMsg.body) \o Tail(@)]
      <3>1. \E msgs : stack' = WithPending(stack, msgs)
        BY <2>2 DEF WithPending
      <3>2. SavedOutcomes(stack', height)
        BY <2>1, <3>1, PendingKeepsOutcomes
      <3>3. OutcomesOK(store', height)
        BY <1>0, <2>1, <2>2, DaoCallKeepsOutcomes
      <3> QED BY <1>s, <2>1, <3>2, <3>3
    <2>3. CASE Unwind
      BY <1>s, <2>1, <2>3, UnwindKeepsOutcomes
    <2> QED BY <1>2, <2>2, <2>3 DEF DispatchDaoCall
  <1>3. CASE Return
    <2>1. /\ store'.config = store.config /\ store'.proposals = store.proposals
          /\ height' = height /\ stack # <<>> /\ stack' = SubSeq(stack, 1, Len(stack) - 1)
      BY <1>0, <1>3 DEF Return, AfterInstantiateReply, Store, Running, Front
    <2> DEFINE m == Len(stack) - 1
    <2>2. m \in Nat /\ m <= Len(stack) /\ stack \in Seq(FrameType)
          /\ DOMAIN stack = 1 .. Len(stack)
      BY <2>1, TopType DEF IInv, StackInv
    <2> HIDE DEF m
    <2>3. /\ DOMAIN SubSeq(stack, 1, m) = 1 .. m
          /\ \A i \in 1 .. m : i \in DOMAIN stack /\ SubSeq(stack, 1, m)[i] = stack[i]
      BY <2>2
    <2>4. SavedOutcomes(stack', height)
      BY <2>1, <2>3 DEF SavedOutcomes, OInv, m
    <2>5. OutcomesOK(store', height)
      BY <1>0, <2>1, SameOutcomes
    <2> QED BY <1>s, <2>1, <2>4, <2>5
  <1>4. CASE Raise
    BY <1>s, <1>4, UnwindKeepsOutcomes DEF Raise, Running
  <1> QED BY <1>1, <1>2, <1>3, <1>4 DEF TransactionStep

LEMMA InitOInv == Init => OInv
  <1> SUFFICES ASSUME Init PROVE OInv
    OBVIOUS
  <1>1. stack = <<>> /\ store.proposals = <<>> /\ store.config \in Configs
    BY DEF Init
  <1> QED BY <1>1, ConfigAssumption DEF OInv, OutcomesOK

LEMMA NextOInv == IInv /\ VInv /\ OInv /\ [Next]_vars => OInv'
  <1> SUFFICES ASSUME IInv, VInv, OInv, [Next]_vars PROVE OInv'
    OBVIOUS
  <1>1. CASE TransactionStep
    BY <1>1, TransactionKeepsOutcomes
  <1>2. CASE Tick
    <2>1. /\ stack = <<>> /\ stack' = <<>> /\ store' = store /\ height' = height + 1
          /\ height \in Nat /\ StoreInv(store) /\ OutcomesOK(store, height)
      BY <1>2, BoundAssumption DEF Tick, IInv, OInv, Heights
    <2>2. \A id \in DOMAIN store.proposals : OutcomeOK(store.proposals[id], height + 1)
      <3> SUFFICES ASSUME NEW id \in DOMAIN store.proposals
                   PROVE  OutcomeOK(store.proposals[id], height + 1)
        OBVIOUS
      <3>1. OutcomeOK(store.proposals[id], height) /\ WellFormed(store.proposals[id])
        BY <2>1 DEF OutcomesOK, OutcomeOK
      <3>2. Bounded(store.proposals[id]) /\ IsProposal(store.proposals[id])
        BY <2>1, <3>1, StoreBounded
      <3> QED BY <2>1, <3>1, <3>2, TickKeepsOutcome
    <2> QED BY <2>1, <2>2 DEF OInv, OutcomesOK
  <1>3. CASE UNCHANGED vars
    BY <1>3 DEF vars, OInv
  <1> QED BY <1>1, <1>2, <1>3, HandlersKeepOutcomes DEF Next

LEMMA OutcomesHold == Spec => [](IInv /\ VInv /\ OInv)
  BY VersionsHold, InitOInv, NextOInv, PTL DEF Spec

----------------------------------------------------------------------------
(* The theorems *)

CoarseThresholds ==
    \A id \in DOMAIN store.proposals : Coarse(store.proposals[id].threshold)

ExactThresholds ==
    \A id \in DOMAIN store.proposals : Exact(store.proposals[id].threshold)

\* A proposal that was found passed, whether it is waiting for its timelock, was
\* executed or failed to, passes with all the votes execute_vote has counted
\* since, if its percentage is at least one unit of PRECISION_FACTOR.  Below it
\* a proposal passes with no yes vote at all, and stops passing when everybody
\* abstains.
THEOREM PassedIsKept == Spec => [](CoarseThresholds => PassedStaysPassed)
  <1>1. OInv => (CoarseThresholds => PassedStaysPassed)
    BY DEF OInv, OutcomesOK, OutcomeOK, PassKept, CoarseThresholds, PassedStaysPassed
  <1> QED BY <1>1, OutcomesHold, PTL

\* A proposal that was found rejected, or was closed, does not pass with all the
\* votes execute_vote has counted since, if its percentage has no more decimals
\* than PRECISION_FACTOR.  With more of them a rejected proposal may come to
\* pass.
THEOREM RejectedIsKept == Spec => [](ExactThresholds => RejectedStaysRejected)
  <1>1. IInv /\ OInv => (ExactThresholds => RejectedStaysRejected)
    <2> SUFFICES ASSUME IInv, OInv, ExactThresholds, NEW id \in DOMAIN store.proposals,
                        store.proposals[id].status \in {"rejected", "closed"}
                 PROVE  ~is_passed(store.proposals[id], height)
      BY DEF RejectedStaysRejected
    <2> DEFINE p == store.proposals[id]
    <2>1. StoreInv(store) /\ OutcomeOK(p, height) /\ WellFormed(p) /\ Exact(p.threshold)
      BY DEF IInv, OInv, OutcomesOK, OutcomeOK, ExactThresholds
    <2>2. Bounded(p) /\ IsProposal(p)
      BY <2>1, StoreBounded
    <2>3. CASE is_expired(p.expiration, height)
      BY <2>1, <2>3 DEF OutcomeOK, RejectionKept
    <2>4. CASE ~is_expired(p.expiration, height)
      <3>1. tally_rejects(p, height) /\ validate(p.threshold) /\ p.threshold \in Threshold
        BY <2>1, <2>2, <2>4 DEF OutcomeOK, RejectionKept, is_rejected, WellFormed, IsProposal
      <3>2. Excluded(p)
        BY <2>4, <3>1, RejectsIsExcluded
      <3> QED BY <2>1, <2>2, <3>1, <3>2, ExcludedDoesNotPass DEF is_passed
    <2> QED BY <2>3, <2>4
  <1> QED BY <1>1, OutcomesHold, PTL
=============================================================================
