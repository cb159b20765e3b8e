------------------------- MODULE ChoiceVoting_proofs -------------------------
(***************************************************************************)
(* Theorems about ChoiceVoting, for every set of addresses, every          *)
(* configuration, every list of options and every power function a voting  *)
(* module may answer with.                                                 *)
(*                                                                         *)
(* That the messages that ran are those of the elected choice, and that a  *)
(* decision stays what it is, needs more than the tallies: votes are cast  *)
(* on decided proposals until they expire.  The inductive invariant says   *)
(* that a proposal that passed is expired, or that power which has not     *)
(* voted cannot turn it; and for that, that what is tallied and what has   *)
(* not voted is the total power.                                           *)
(***************************************************************************)
EXTENDS ChoiceVoting, SumTheorems

----------------------------------------------------------------------------
(* The inductive invariant: dao-proposal-multiple *)

\* The power of the addresses in S at height h.
PowerOf(h, S) == SumOver(PowerAt[h], S)

VetoOption == {PM!MC!V!NoVeto} \cup PM!MC!V!VetoConfig(Addr)

Choice == [option_type : {"standard", "none"}, msgs : Seq(PM!Call)]

\* A function on choices numbered from zero.
ByChoice(T) == UNION {[0 .. n -> T] : n \in 2 .. PM!MC!MAX_NUM_CHOICES}

Ballot == {PM!NoBallot} \cup [vote : Nat, power : Nat, rationale : Rationales \cup {"none"}]

MultipleRecord ==
    [start_height : Nat, min_voting_period : Nat, expiration : Nat,
     quorum : PM!MC!V!PercentageThreshold, total_power : Nat, status : PM!MC!V!Status,
     votes : ByChoice(Nat), allow_revoting : BOOLEAN, choices : ByChoice(Choice), veto : VetoOption]

MultipleProposal == {p \in MultipleRecord : p.min_voting_period <= p.expiration}

ValidConfigs == {c \in PM!Config : PM!ValidConfig(c)}

MultipleStore ==
    [kind : {"multiple"}, config : ValidConfigs, policy : PM!Policy,
     proposals : Seq(MultipleProposal), ballots : Seq([Addr -> Ballot]),
     proposal_hooks : Seq(Addr), vote_hooks : Seq(Addr), ran : Seq(Seq(Nat))]

\* The tally of a proposal agrees with its ballots, and what has not voted is the rest
\* of the total power.
Counted(p, ballots) ==
    /\ DOMAIN p.choices = DOMAIN p.votes
    /\ \A a \in Addr : ballots[a] # PM!NoBallot =>
           /\ ballots[a].vote \in DOMAIN p.votes
           /\ ballots[a].power = PowerAt[p.start_height][a]
    /\ \A c \in DOMAIN p.votes :
           p.votes[c] = PowerOf(p.start_height, {a \in Addr : ballots[a].vote = c})
    /\ PM!MC!total(p.votes) + PowerOf(p.start_height, {a \in Addr : ballots[a] = PM!NoBallot})
           = p.total_power

\* Choice w has more votes than any other.
Leads(p, w) == \A c \in DOMAIN p.votes \ {w} : p.votes[c] < p.votes[w]

\* No vote will change that choice w is elected.
Settled(p, w, h) ==
    /\ Leads(p, w) /\ p.choices[w].option_type # "none"
    /\ h < p.expiration =>
           /\ ~p.allow_revoting
           /\ \A c \in DOMAIN p.votes \ {w} :
                  p.votes[w] > p.votes[c] + (p.total_power - PM!MC!total(p.votes))

Passed == {"passed", "veto_timelock", "executed", "execution_failed"}

MultipleOK(p, ballots, ran, h) ==
    /\ p.start_height <= h
    /\ Counted(p, ballots)
    /\ p.status \in Passed => \E w \in DOMAIN p.votes : Settled(p, w, h)
    /\ p.status # "executed" => ran = <<>>
    /\ p.status = "executed" =>
           \A w \in DOMAIN p.votes : Leads(p, w) =>
               ran = IF p.choices[w].msgs = <<>> THEN <<>> ELSE <<w>>

MultipleInv(s, h) ==
    /\ s \in MultipleStore
    /\ DOMAIN s.ballots = DOMAIN s.proposals /\ DOMAIN s.ran = DOMAIN s.proposals
    /\ \A id \in DOMAIN s.proposals : MultipleOK(s.proposals[id], s.ballots[id], s.ran[id], h)

----------------------------------------------------------------------------
(* The inductive invariant: dao-proposal-condorcet *)

\* The numbers of candidates there may be.
Sizes == {Len(choices) + 1 : choices \in Options["condorcet"]} \ {1}

Cell == {PC!CD!Zero} \cup [sign : {"positive", "negative"}, n : Nat \ {0}]

\* The number a cell stands for.
Value(cell) ==
    CASE cell.sign = "positive" -> cell.n
      [] cell.sign = "zero" -> 0
      [] cell.sign = "negative" -> -cell.n

\* By how much x leads y.
Lead(m, x, y) == Value(PC!CD!get(m, x, y))

Matrix == UNION {[n : {n}, cells : [0 .. (n * (n - 1)) \div 2 - 1 -> Cell]] : n \in Sizes}

WinnerType == [kind : {"none", "never"}] \cup [kind : {"some", "undisputed"}, candidate : Nat]

Tally ==
    [m : Matrix, power_outstanding : Nat, winner : WinnerType, start_height : Nat, expiration : Nat]

RankedStatus ==
    [kind : {"open", "rejected", "executed", "execution_failed", "closed"}]

RankedProposal ==
    [last_status : RankedStatus, quorum : PC!CD!V!PercentageThreshold, min_voting_period : Nat,
     close_on_execution_failure : BOOLEAN, total_power : Nat, choices : Seq(Seq(PC!Call))]

RankedVotes == [Addr -> {<<>>} \cup UNION {Rankings[n] : n \in Sizes}]

RankedStore ==
    [kind : {"condorcet"}, config : PC!Config, proposals : Seq(RankedProposal), tallies : Seq(Tally),
     votes : Seq(RankedVotes), ran : Seq(Seq(Nat))]

\* A ranking that has x before y.
Ranks(vote, x, y) == \E j \in DOMAIN vote : vote[j] = y /\ \E i \in 1 .. j - 1 : vote[i] = x

Preferring(votes, x, y) == {a \in Addr : votes[a] # <<>> /\ Ranks(votes[a], x, y)}

Margin(t, votes, x, y) ==
    PowerOf(t.start_height, Preferring(votes, x, y)) - PowerOf(t.start_height, Preferring(votes, y, x))

Tallied(t, votes) ==
    /\ \A a \in Addr : votes[a] = <<>> \/ votes[a] \in Rankings[t.m.n]
    /\ \A x, y \in PC!CD!Candidates(t.m) :
           x # y => Lead(t.m, x, y) = Margin(t, votes, x, y)
    /\ t.power_outstanding = PowerOf(t.start_height, {a \in Addr : votes[a] = <<>>})
    /\ t.winner = PC!CD!winner(t)

\* Candidate w beats every other.
Beats(t, w) == \A x \in PC!CD!Candidates(t.m) \ {w} : Lead(t.m, w, x) > 0

\* No vote will change that candidate w is elected.
RankSettled(t, w, h) ==
    /\ Beats(t, w)
    /\ h < t.expiration =>
           \A x \in PC!CD!Candidates(t.m) \ {w} : Lead(t.m, w, x) > t.power_outstanding

RankedOK(p, t, votes, ran, h) ==
    /\ t.start_height <= h
    /\ Len(p.choices) = t.m.n
    /\ p.total_power = PowerOf(t.start_height, Addr)
    /\ Tallied(t, votes)
    /\ p.last_status.kind \in Passed => \E w \in PC!CD!Candidates(t.m) : RankSettled(t, w, h)
    /\ p.last_status.kind # "executed" => ran = <<>>
    /\ p.last_status.kind = "executed" =>
           \A w \in PC!CD!Candidates(t.m) : Beats(t, w) => ran = <<w>>

RankedInv(s, h) ==
    /\ s \in RankedStore
    /\ DOMAIN s.tallies = DOMAIN s.proposals /\ DOMAIN s.votes = DOMAIN s.proposals
    /\ DOMAIN s.ran = DOMAIN s.proposals
    /\ \A id \in DOMAIN s.proposals :
           RankedOK(s.proposals[id], s.tallies[id], s.votes[id], s.ran[id], h)

----------------------------------------------------------------------------
IInv ==
    /\ kind \in Kinds
    /\ height \in 0 .. MaxHeight[kind]
    /\ kind = "multiple" => MultipleInv(store, height)
    /\ kind = "condorcet" => RankedInv(store, height)

----------------------------------------------------------------------------
(* Sequences *)

LEMMA SeqExcept ==
    ASSUME NEW S, NEW s \in Seq(S), NEW i \in DOMAIN s, NEW e \in S
    PROVE  /\ [s EXCEPT ![i] = e] \in Seq(S)
           /\ DOMAIN [s EXCEPT ![i] = e] = DOMAIN s
           /\ [s EXCEPT ![i] = e][i] = e
           /\ \A j \in DOMAIN s \ {i} : [s EXCEPT ![i] = e][j] = s[j]
  OBVIOUS

LEMMA SeqSame ==
    ASSUME NEW S, NEW s \in Seq(S), NEW i \in DOMAIN s
    PROVE  [s EXCEPT ![i] = s[i]] = s
  <1>1. s \in [DOMAIN s -> S]
    OBVIOUS
  <1> QED BY <1>1

LEMMA SeqAppend ==
    ASSUME NEW S, NEW s \in Seq(S), NEW e \in S
    PROVE  /\ Append(s, e) \in Seq(S)
           /\ DOMAIN Append(s, e) = DOMAIN s \cup {Len(s) + 1}
           /\ Len(s) + 1 \notin DOMAIN s
           /\ Append(s, e)[Len(s) + 1] = e
           /\ \A i \in DOMAIN s : Append(s, e)[i] = s[i]
  OBVIOUS

LEMMA SeqRemoveAt ==
    ASSUME NEW S, NEW s \in Seq(S), NEW i \in 1 .. Len(s)
    PROVE  PM!RemoveAt(s, i) \in Seq(S)
  BY DEF PM!RemoveAt

----------------------------------------------------------------------------
(* Voting power *)

\* Heights at which a module of some kind is asked for powers.
Heights == {h \in Nat : PowerAt[h] \in [Addr -> Nat]}

LEMMA HeightsReached ==
    ASSUME NEW k \in Kinds, NEW h \in 0 .. MaxHeight[k]
    PROVE  h \in Heights
  BY ChoiceAssumption DEF Heights

\* Powers of sets of addresses are natural numbers and grow with the set.
LEMMA PowerType ==
    ASSUME NEW h \in Heights, NEW S \in SUBSET Addr
    PROVE  PowerOf(h, S) \in Nat
  <1>1. IsFiniteSet(S) /\ \A x \in S : PowerAt[h][x] \in Nat
    BY ChoiceAssumption, FS_Subset DEF Heights
  <1> QED BY <1>1, SumNat DEF PowerOf

LEMMA PowerWith ==
    ASSUME NEW h \in Heights, NEW S \in SUBSET Addr, NEW a \in Addr, a \notin S
    PROVE  PowerOf(h, S \cup {a}) = PowerOf(h, S) + PowerAt[h][a]
  <1> DEFINE T == S \cup {a}
  <1>1. IsFiniteSet(T) /\ a \in T /\ \A x \in T : PowerAt[h][x] \in Int
    BY ChoiceAssumption, FS_Subset DEF Heights
  <1>2. T \ {a} = S
    OBVIOUS
  <1> HIDE DEF T
  <1>3. SumOver(PowerAt[h], T) = PowerAt[h][a] + SumOver(PowerAt[h], T \ {a})
    BY <1>1, SumRemove
  <1>4. PowerOf(h, S) \in Nat /\ PowerAt[h][a] \in Nat
    BY PowerType DEF Heights
  <1>5. PowerAt[h][a] + PowerOf(h, S) = PowerOf(h, S) + PowerAt[h][a]
    BY <1>4
  <1> QED BY <1>2, <1>3, <1>5, Zenon DEF PowerOf, T

LEMMA PowerWithout ==
    ASSUME NEW h \in Heights, NEW S \in SUBSET Addr, NEW a \in S
    PROVE  /\ PowerOf(h, S \ {a}) = PowerOf(h, S) - PowerAt[h][a]
           /\ PowerAt[h][a] <= PowerOf(h, S)
           /\ PowerAt[h][a] \in Nat
  <1> DEFINE T == S \ {a}
  <1>1. T \in SUBSET Addr /\ a \notin T /\ T \cup {a} = S /\ a \in Addr
    OBVIOUS
  <1> HIDE DEF T
  <1>2. PowerOf(h, S) = PowerOf(h, T) + PowerAt[h][a]
    BY <1>1, PowerWith
  <1>3. PowerOf(h, T) \in Nat /\ PowerAt[h][a] \in Nat
    BY <1>1, PowerType DEF Heights
  <1> QED BY <1>2, <1>3 DEF T

LEMMA PowerOfNone ==
    ASSUME NEW h
    PROVE  PowerOf(h, {}) = 0
  BY SumEmpty DEF PowerOf

\* What the contracts call the total power.
LEMMA TotalIsSum ==
    ASSUME NEW v
    PROVE  PM!MC!total(v) = SumOver(v, DOMAIN v)
  BY DEF PM!MC!total, SumOver, MapThenSumSet, MapThenFoldSet, PM!MC!FoldFunction,
         PM!MC!FoldFunctionOnSet, PM!MC!MapThenFoldSet

LEMMA TotalPowerMultiple ==
    ASSUME NEW h \in Heights
    PROVE  PM!total_power(h) = PowerOf(h, Addr)
  <1>1. DOMAIN PowerAt[h] = Addr
    BY DEF Heights
  <1> QED BY <1>1, TotalIsSum DEF PM!total_power, PowerOf

LEMMA TotalPowerRanked ==
    ASSUME NEW h \in Heights
    PROVE  PC!total_power(h) = PowerOf(h, Addr)
  <1>1. DOMAIN PowerAt[h] = Addr
    BY DEF Heights
  <1>2. PC!total_power(h) = SumOver(PowerAt[h], DOMAIN PowerAt[h])
    BY DEF PC!total_power, SumOver, MapThenSumSet, MapThenFoldSet, PC!FoldFunction,
           PC!FoldFunctionOnSet, PC!MapThenFoldSet
  <1> QED BY <1>1, <1>2 DEF PowerOf

----------------------------------------------------------------------------
(* dao-proposal-multiple: calls that leave proposals alone *)

\* The storages that differ from s in the settings only.
Settings(s) ==
    {t \in MultipleStore : t.proposals = s.proposals /\ t.ballots = s.ballots /\ t.ran = s.ran}

LEMMA OwnSettings ==
    ASSUME NEW s \in MultipleStore
    PROVE  /\ s \in Settings(s)
           /\ \A c \in ValidConfigs : [s EXCEPT !.config = c] \in Settings(s)
           /\ \A p \in PM!Policy : [s EXCEPT !.policy = p] \in Settings(s)
           /\ \A hs \in Seq(Addr) : [s EXCEPT !.proposal_hooks = hs] \in Settings(s)
           /\ \A vs \in Seq(Addr) : [s EXCEPT !.vote_hooks = vs] \in Settings(s)
  BY DEF Settings, MultipleStore

LEMMA HookListTypes ==
    ASSUME NEW hooks \in Seq(Addr), NEW addr \in Addr
    PROVE  /\ PM!add_hook(hooks, addr) \in Seq(Addr)
           /\ PM!can_remove_hook(hooks, addr) => PM!remove_hook(hooks, addr) \in Seq(Addr)
  <1>1. PM!add_hook(hooks, addr) \in Seq(Addr)
    BY DEF PM!add_hook
  <1>2. ASSUME PM!can_remove_hook(hooks, addr) PROVE PM!remove_hook(hooks, addr) \in Seq(Addr)
    <2> DEFINE i == CHOOSE j \in DOMAIN hooks : hooks[j] = addr
    <2>1. \E j \in DOMAIN hooks : hooks[j] = addr
      BY <1>2 DEF PM!can_remove_hook, PM!Contains
    <2>2. i \in 1 .. Len(hooks)
      BY <2>1
    <2> HIDE DEF i
    <2>3. PM!RemoveAt(hooks, i) \in Seq(Addr)
      BY <2>2, SeqRemoveAt
    <2> QED BY <2>3 DEF PM!remove_hook, i
  <1> QED BY <1>1, <1>2

\* A call of the DAO changes settings only.
LEMMA DaoCallKeeps ==
    ASSUME NEW s \in MultipleStore, NEW call \in PM!Call, NEW t \in PM!DaoCall(s, call)
    PROVE  t \in Settings(s)
  <1>1. s.proposal_hooks \in Seq(Addr) /\ s.vote_hooks \in Seq(Addr)
    BY DEF MultipleStore
  <1>2. CASE call.kind = "external"
    BY <1>2, OwnSettings DEF PM!DaoCall
  <1>3. CASE call.kind = "update_config"
    <2>1. call.config \in PM!Config
      BY <1>3 DEF PM!Call
    <2>2. PM!ValidConfig(call.config) /\ t = [s EXCEPT !.config = call.config]
      BY <1>3 DEF PM!DaoCall, PM!execute_update_config
    <2>3. call.config \in ValidConfigs
      BY <2>1, <2>2 DEF ValidConfigs
    <2> QED BY <2>2, <2>3, OwnSettings
  <1>4. CASE call.kind = "update_pre_propose_info"
    <2>1. call.policy \in PM!Policy
      BY <1>4 DEF PM!Call
    <2>2. t = [s EXCEPT !.policy = call.policy]
      BY <1>4 DEF PM!DaoCall, PM!execute_update_proposal_creation_policy
    <2> QED BY <2>1, <2>2, OwnSettings
  <1>5. CASE call.kind = "add_proposal_hook"
    <2>1. call.addr \in Addr
      BY <1>5 DEF PM!Call
    <2>2. t = [s EXCEPT !.proposal_hooks = PM!add_hook(@, call.addr)]
      BY <1>5 DEF PM!DaoCall, PM!execute_add_proposal_hook
    <2> QED BY <1>1, <2>1, <2>2, OwnSettings, HookListTypes
  <1>6. CASE call.kind = "remove_proposal_hook"
    <2>1. call.addr \in Addr
      BY <1>6 DEF PM!Call
    <2>2. PM!can_remove_hook(s.proposal_hooks, call.addr)
          /\ t = [s EXCEPT !.proposal_hooks = PM!remove_hook(@, call.addr)]
      BY <1>6 DEF PM!DaoCall, PM!execute_remove_proposal_hook
    <2> QED BY <1>1, <2>1, <2>2, OwnSettings, HookListTypes
  <1>7. CASE call.kind = "add_vote_hook"
    <2>1. call.addr \in Addr
      BY <1>7 DEF PM!Call
    <2>2. t = [s EXCEPT !.vote_hooks = PM!add_hook(@, call.addr)]
      BY <1>7 DEF PM!DaoCall, PM!execute_add_vote_hook
    <2> QED BY <1>1, <2>1, <2>2, OwnSettings, HookListTypes
  <1>8. CASE call.kind = "remove_vote_hook"
    <2>1. call.addr \in Addr
      BY <1>8 DEF PM!Call
    <2>2. PM!can_remove_hook(s.vote_hooks, call.addr)
          /\ t = [s EXCEPT !.vote_hooks = PM!remove_hook(@, call.addr)]
      BY <1>8 DEF PM!DaoCall, PM!execute_remove_vote_hook
    <2> QED BY <1>1, <2>1, <2>2, OwnSettings, HookListTypes
  <1> QED BY <1>2, <1>3, <1>4, <1>5, <1>6, <1>7, <1>8 DEF PM!Call

----------------------------------------------------------------------------
(* Messages in order *)

\* g gives, for each set of positions in msgs, the storages after those calls.
Calls(g, base, msgs) ==
    g = [U \in SUBSET DOMAIN msgs |->
            IF U = {} THEN base ELSE UNION {PM!DaoCall(t, msgs[Latest(U)]) : t \in g[U \ {Latest(U)}]}]

LEMMA ExecutedIsCalls ==
    ASSUME NEW s, NEW body
    PROVE  PM!Executed(s, body) =
               (CHOOSE g : Calls(g, {[s EXCEPT !.ran[body.id] = Append(@, body.choice)]}, body.msgs))
                   [DOMAIN body.msgs]
  BY Zenon DEF PM!Executed, PM!FoldLeft, PM!MapThenFoldSet, PM!Max, Calls, Latest

\* All storages after the calls are in a set that each call keeps.
LEMMA CallsKeep ==
    ASSUME NEW T, NEW base \in SUBSET T, NEW M, NEW msgs \in Seq(M),
           \A t \in T : \A i \in DOMAIN msgs : PM!DaoCall(t, msgs[i]) \subseteq T
    PROVE  (CHOOSE g : Calls(g, base, msgs))[DOMAIN msgs] \subseteq T
  <1> DEFINE S == 1 .. Len(msgs)
             pick == PickLatest(S)
             after(p) == UNION {PM!DaoCall(t, msgs[p[1]]) : t \in p[2]}
             step == [p \in S \X SUBSET T |-> after(p)]
             g == Folding(base, step, pick, S)
  <1>1. S = DOMAIN msgs /\ IsFiniteSet(S)
    BY FS_Interval
  <1>2. \A U \in SUBSET S : U # {} => pick[U] \in U /\ pick[U] = Latest(U)
    BY PicksLatest
  <1>3. \A x \in S : \A t \in SUBSET T : step[<<x, t>>] = after(<<x, t>>) /\ after(<<x, t>>) \in SUBSET T
    <2>1. SUFFICES ASSUME NEW x \in S, NEW t \in SUBSET T
                   PROVE  step[<<x, t>>] = after(<<x, t>>) /\ after(<<x, t>>) \in SUBSET T
      BY Zenon
    <2>2. \A u \in t : PM!DaoCall(u, msgs[x]) \subseteq T
      BY <1>1
    <2> QED BY <2>2
  <1> HIDE DEF S, pick, step, g
  <1>4. FoldsTo(g, base, step, pick, S)
    BY <1>1, <1>2, FoldExists DEF g
  <1>5. \A U \in SUBSET S : g[U] \in SUBSET T
    <2>1. \A x \in S : \A t \in SUBSET T : step[<<x, t>>] \in SUBSET T
      BY <1>3
    <2>2. base \in SUBSET T
      OBVIOUS
    <2> HIDE DEF after
    <2> QED BY <1>1, <1>2, <1>4, <2>1, <2>2, FoldType
  <1>6. Calls(g, base, msgs)
    <2>1. ASSUME NEW U \in SUBSET S, U # {}
          PROVE  step[<<pick[U], g[U \ {pick[U]}]>>]
                     = UNION {PM!DaoCall(t, msgs[Latest(U)]) : t \in g[U \ {Latest(U)}]}
      <3>1. pick[U] \in S /\ pick[U] = Latest(U) /\ U \ {Latest(U)} \in SUBSET S
        BY <1>2, <2>1
      <3>2. step[<<pick[U], g[U \ {pick[U]}]>>] = after(<<pick[U], g[U \ {pick[U]}]>>)
        BY <1>3, <1>5, <3>1
      <3> QED BY <3>1, <3>2
    <2>2. g = [U \in SUBSET S |-> IF U = {} THEN base ELSE step[<<pick[U], g[U \ {pick[U]}]>>]]
      BY <1>4 DEF FoldsTo
    <2>3. g = [U \in SUBSET S |-> IF U = {} THEN base
                  ELSE UNION {PM!DaoCall(t, msgs[Latest(U)]) : t \in g[U \ {Latest(U)}]}]
      BY <2>1, <2>2
    <2> QED BY <1>1, <2>3 DEF Calls
  <1> DEFINE h == CHOOSE k : Calls(k, base, msgs)
  <1>7. Calls(h, base, msgs)
    BY <1>6
  <1> HIDE DEF h
  <1>8. \A U \in SUBSET S : h[U] = IF U = {} THEN base
                  ELSE UNION {PM!DaoCall(t, msgs[Latest(U)]) : t \in h[U \ {Latest(U)}]}
    BY <1>1, <1>7 DEF Calls
  <1>9. \A U \in SUBSET S : h[U] \subseteq T
    <2> DEFINE C == {U \in SUBSET S : ~(h[U] \subseteq T)}
    <2>1. SUFFICES ASSUME C # {} PROVE FALSE
      OBVIOUS
    <2>2. C \subseteq SUBSET S
      OBVIOUS
    <2> HIDE DEF C
    <2>3. \E U \in C : \A W \in C : W \subseteq U => W = U
      BY <1>1, <2>1, <2>2, MinimalSet
    <2>4. PICK U \in C : \A W \in C : W \subseteq U => W = U
      BY <2>3
    <2>5. U \in SUBSET S /\ ~(h[U] \subseteq T)
      BY DEF C
    <2>6. U # {} /\ h[U] = UNION {PM!DaoCall(t, msgs[Latest(U)]) : t \in h[U \ {Latest(U)}]}
      BY <1>8, <2>5
    <2>7. Latest(U) \in U
      BY <1>2, <2>5, <2>6
    <2>8. h[U \ {Latest(U)}] \subseteq T
      BY <2>4, <2>5, <2>7 DEF C
    <2>9. \A t \in h[U \ {Latest(U)}] : PM!DaoCall(t, msgs[Latest(U)]) \subseteq T
      BY <1>1, <2>5, <2>7, <2>8
    <2> QED BY <2>5, <2>6, <2>9
  <1> QED BY <1>1, <1>9 DEF h

\* g gives, for each set of positions in msgs, the storages after those messages.
Deliveries(g, s, msgs) ==
    g = [U \in SUBSET DOMAIN msgs |->
            IF U = {} THEN {s} ELSE UNION {PM!Delivered(t, msgs[Latest(U)]) : t \in g[U \ {Latest(U)}]}]

LEMMA TransactionIsDeliveries ==
    ASSUME NEW s, NEW msgs
    PROVE  PM!Transaction(s, msgs) = (CHOOSE g : Deliveries(g, s, msgs))[DOMAIN msgs]
  BY Zenon DEF PM!Transaction, PM!FoldLeft, PM!MapThenFoldSet, PM!Max, Deliveries, Latest

\* h lists the sets of storages there may be after each message of a transaction.
Steps(h, s, msgs) ==
    /\ h[0] = {s}
    /\ \A i \in 1 .. Len(msgs) : h[i] = UNION {PM!Delivered(t, msgs[i]) : t \in h[i - 1]}
    /\ PM!Transaction(s, msgs) = h[Len(msgs)]

\* A transaction goes message by message, if its messages keep to a set of storages.
LEMMA MessageByMessage ==
    ASSUME NEW T, NEW s \in T, NEW M, NEW msgs \in Seq(M),
           \A t \in T : \A i \in DOMAIN msgs : PM!Delivered(t, msgs[i]) \subseteq T
    PROVE  \E h : Steps(h, s, msgs)
  <1> DEFINE L == Len(msgs)
             S == 1 .. L
             pick == PickLatest(S)
             after(p) == UNION {PM!Delivered(t, msgs[p[1]]) : t \in p[2]}
             step == [p \in S \X SUBSET T |-> after(p)]
             g == Folding({s}, step, pick, S)
  <1>1. L \in Nat /\ S = DOMAIN msgs /\ IsFiniteSet(S)
    BY FS_Interval
  <1>2. \A U \in SUBSET S : U # {} => pick[U] \in U /\ pick[U] = Latest(U)
    BY PicksLatest
  <1>3. \A x \in S : \A t \in SUBSET T : step[<<x, t>>] = after(<<x, t>>) /\ after(<<x, t>>) \in SUBSET T
    <2>1. SUFFICES ASSUME NEW x \in S, NEW t \in SUBSET T
                   PROVE  step[<<x, t>>] = after(<<x, t>>) /\ after(<<x, t>>) \in SUBSET T
      BY Zenon
    <2>2. \A u \in t : PM!Delivered(u, msgs[x]) \subseteq T
      BY <1>1
    <2> QED BY <2>2
  <1>10. \A i \in S : (1 .. i) \in SUBSET S /\ (1 .. i) # {} /\ i \in 1 .. i /\ (1 .. i) \ {i} = 1 .. i - 1
                        /\ \A y \in 1 .. i : i >= y
    <2>1. L \in Nat
      OBVIOUS
    <2> HIDE DEF L
    <2>2. ASSUME NEW i \in 1 .. L
          PROVE  /\ \A y \in 1 .. i : y \in 1 .. L /\ i >= y
                 /\ i \in 1 .. i
                 /\ \A y : y \in (1 .. i) \ {i} <=> y \in 1 .. i - 1
      BY <2>1
    <2> QED BY <2>2
  <1>11. (1 .. 0) = {}
    OBVIOUS
  <1>12. \A i \in S : Latest(1 .. i) = i
    <2>1. SUFFICES ASSUME NEW i \in S PROVE Latest(1 .. i) = i
      OBVIOUS
    <2> DEFINE U == 1 .. i
    <2>2. U \in SUBSET (1 .. L) /\ U # {} /\ i \in U /\ \A y \in U : i >= y
      BY <1>10
    <2>3. Latest(U) = CHOOSE x \in U : \A y \in U : x >= y
      BY DEF Latest
    <2> HIDE DEF U
    <2>4. Latest(U) \in U /\ \A y \in U : Latest(U) >= y
      BY <1>1, <2>2, <2>3, LargestUpTo
    <2>5. Latest(U) >= i /\ i >= Latest(U) /\ Latest(U) \in S
      BY <2>2, <2>4
    <2>6. \A k \in S : k >= i /\ i >= k => k = i
      OBVIOUS
    <2> QED BY <2>5, <2>6 DEF U
  <1> HIDE DEF S, L, pick, step, g
  <1>4. FoldsTo(g, {s}, step, pick, S)
    BY <1>1, <1>2, FoldExists DEF g
  <1>5. \A U \in SUBSET S : g[U] \in SUBSET T
    <2>1. \A x \in S : \A t \in SUBSET T : step[<<x, t>>] \in SUBSET T
      BY <1>3
    <2>2. {s} \in SUBSET T
      OBVIOUS
    <2> HIDE DEF after
    <2> QED BY <1>1, <1>2, <1>4, <2>1, <2>2, FoldType
  <1>6. Deliveries(g, s, msgs)
    <2>1. ASSUME NEW U \in SUBSET S, U # {}
          PROVE  step[<<pick[U], g[U \ {pick[U]}]>>]
                     = UNION {PM!Delivered(t, msgs[Latest(U)]) : t \in g[U \ {Latest(U)}]}
      <3>1. pick[U] \in S /\ pick[U] = Latest(U) /\ U \ {Latest(U)} \in SUBSET S
        BY <1>2, <2>1
      <3>2. step[<<pick[U], g[U \ {pick[U]}]>>] = after(<<pick[U], g[U \ {pick[U]}]>>)
        BY <1>3, <1>5, <3>1
      <3> QED BY <3>1, <3>2
    <2>2. g = [U \in SUBSET S |-> IF U = {} THEN {s} ELSE step[<<pick[U], g[U \ {pick[U]}]>>]]
      BY <1>4 DEF FoldsTo
    <2>3. g = [U \in SUBSET S |-> IF U = {} THEN {s}
                  ELSE UNION {PM!Delivered(t, msgs[Latest(U)]) : t \in g[U \ {Latest(U)}]}]
      BY <2>1, <2>2
    <2> QED BY <1>1, <2>3 DEF Deliveries
  <1> DEFINE k == CHOOSE x : Deliveries(x, s, msgs)
             h == [i \in 0 .. L |-> k[1 .. i]]
  <1>7. Deliveries(k, s, msgs)
    BY <1>6
  <1> HIDE DEF k
  <1>8. \A U \in SUBSET S : k[U] = IF U = {} THEN {s}
                  ELSE UNION {PM!Delivered(t, msgs[Latest(U)]) : t \in k[U \ {Latest(U)}]}
    BY <1>1, <1>7 DEF Deliveries
  <1>13. h[0] = {s}
    <2>1. h[0] = k[{}]
      BY <1>1, <1>11
    <2>2. {} \in SUBSET S
      OBVIOUS
    <2> HIDE DEF h
    <2> QED BY <1>8, <2>1, <2>2
  <1>14. ASSUME NEW i \in S PROVE h[i] = UNION {PM!Delivered(t, msgs[i]) : t \in h[i - 1]}
    <2>1. h[i] = k[1 .. i] /\ h[i - 1] = k[1 .. i - 1]
      BY <1>1 DEF S
    <2> HIDE DEF h
    <2>2. k[1 .. i] = UNION {PM!Delivered(t, msgs[i]) : t \in k[1 .. i - 1]}
      <3>1. (1 .. i) \in SUBSET S /\ (1 .. i) # {} /\ (1 .. i) \ {i} = 1 .. i - 1
        BY <1>10
      <3>2. k[1 .. i] = UNION {PM!Delivered(t, msgs[Latest(1 .. i)]) : t \in k[(1 .. i) \ {Latest(1 .. i)}]}
        BY <1>8, <3>1, Zenon
      <3>3. Latest(1 .. i) = i
        BY <1>12
      <3> QED BY <3>1, <3>2, <3>3, Zenon
    <2> QED BY <2>1, <2>2
  <1>15. PM!Transaction(s, msgs) = h[L]
    <2>1. h[L] = k[S]
      BY <1>1 DEF S
    <2> QED BY <1>1, <2>1, TransactionIsDeliveries DEF k
  <1>16. Steps(h, s, msgs)
    BY <1>13, <1>14, <1>15 DEF S, L, Steps
  <1> QED BY <1>16

----------------------------------------------------------------------------
(* The messages of dao-proposal-multiple *)

\* What reply does for these identifiers: it drops a hook, or the pre-propose module.
HookReplies ==
    {r \in Nat : PM!reply_type(r) \in {PM!FAILED_PROPOSAL_HOOK_MASK, PM!FAILED_VOTE_HOOK_MASK,
                                       PM!FAILED_PRE_PROPOSE_MODULE_HOOK_ID}}

HookMessage == [to : Addr, body : {<<>>}, reply_on : {"error"}, reply_id : HookReplies]

\* The messages of a choice of proposal id.
ExecutionMessage(id) ==
    {m \in [to : {Dao}, body : [id : {id}, choice : Nat, msgs : Seq(PM!Call)],
            reply_on : {"error", "never"}, reply_id : Nat] :
        m.reply_on = "error" => m.reply_id = PM!mask_proposal_execution_proposal_id(id)}

Ran(s, id, choice) == [s EXCEPT !.ran[id] = Append(@, choice)]
FailedAt(s, id) == [s EXCEPT !.proposals[id].status = "execution_failed"]

LEMMA MaskedIds ==
    ASSUME NEW i \in Nat
    PROVE  /\ PM!mask_proposal_hook_index(i) \in HookReplies
           /\ PM!mask_vote_hook_index(i) \in HookReplies
           /\ PM!FAILED_PRE_PROPOSE_MODULE_HOOK_ID \in HookReplies
           /\ PM!mask_proposal_execution_proposal_id(i) \in Nat
           /\ PM!reply_type(PM!mask_proposal_execution_proposal_id(i)) = PM!FAILED_PROPOSAL_EXECUTION_MASK
           /\ PM!id_after_shift(PM!mask_proposal_execution_proposal_id(i)) = i
  <1> USE DEF PM!reply_type, PM!id_after_shift, PM!ReplyTypes, PM!FAILED_PROPOSAL_HOOK_MASK,
              PM!FAILED_VOTE_HOOK_MASK, PM!FAILED_PRE_PROPOSE_MODULE_HOOK_ID,
              PM!FAILED_PROPOSAL_EXECUTION_MASK
  <1>1. (1 + i * 8) % 8 = 1 /\ (2 + i * 8) % 8 = 2 /\ 4 % 8 = 4 /\ (0 + i * 8) % 8 = 0
        /\ (0 + i * 8) \div 8 = i
    OBVIOUS
  <1>2. PM!mask_proposal_hook_index(i) \in HookReplies
    BY <1>1 DEF PM!mask_proposal_hook_index, HookReplies
  <1>3. PM!mask_vote_hook_index(i) \in HookReplies
    BY <1>1 DEF PM!mask_vote_hook_index, HookReplies
  <1>4. PM!FAILED_PRE_PROPOSE_MODULE_HOOK_ID \in HookReplies
    BY <1>1 DEF HookReplies
  <1> QED BY <1>1, <1>2, <1>3, <1>4 DEF PM!mask_proposal_execution_proposal_id

LEMMA ReplyKeeps ==
    ASSUME NEW s \in MultipleStore, NEW r \in HookReplies, NEW t \in PM!reply(s, r)
    PROVE  t \in Settings(s)
  <1> DEFINE value == PM!id_after_shift(r)
             type == PM!reply_type(r)
  <1>1. type \in {1, 2, 4} /\ value \in Nat
    BY DEF HookReplies, PM!id_after_shift, PM!ReplyTypes, PM!FAILED_PROPOSAL_HOOK_MASK,
           PM!FAILED_VOTE_HOOK_MASK, PM!FAILED_PRE_PROPOSE_MODULE_HOOK_ID
  <1>2. s.proposal_hooks \in Seq(Addr) /\ s.vote_hooks \in Seq(Addr)
    BY DEF MultipleStore
  <1> USE DEF PM!FAILED_PROPOSAL_HOOK_MASK, PM!FAILED_VOTE_HOOK_MASK,
              PM!FAILED_PRE_PROPOSE_MODULE_HOOK_ID, PM!FAILED_PROPOSAL_EXECUTION_MASK
  <1>3. ASSUME NEW hooks \in Seq(Addr), PM!can_remove_hook_by_index(hooks, value)
        PROVE  PM!remove_hook_by_index(hooks, value) \in Seq(Addr)
    <2>1. value + 1 \in 1 .. Len(hooks)
      BY <1>1, <1>3 DEF PM!can_remove_hook_by_index
    <2> HIDE DEF value
    <2>2. PM!RemoveAt(hooks, value + 1) \in Seq(Addr)
      BY <2>1, SeqRemoveAt
    <2> QED BY <2>2 DEF PM!remove_hook_by_index
  <1>4. CASE type = 1
    <2>1. PM!can_remove_hook_by_index(s.proposal_hooks, value)
          /\ t = [s EXCEPT !.proposal_hooks = PM!remove_hook_by_index(@, value)]
      BY <1>4 DEF PM!reply
    <2> HIDE DEF value, type
    <2> QED BY <1>2, <1>3, <2>1, OwnSettings
  <1>5. CASE type = 2
    <2>1. PM!can_remove_hook_by_index(s.vote_hooks, value)
          /\ t = [s EXCEPT !.vote_hooks = PM!remove_hook_by_index(@, value)]
      BY <1>5 DEF PM!reply
    <2> HIDE DEF value, type
    <2> QED BY <1>2, <1>3, <2>1, OwnSettings
  <1>6. CASE type = 4
    <2>1. t = [s EXCEPT !.policy = PM!Anyone]
      BY <1>6 DEF PM!reply
    <2>2. PM!Anyone \in PM!Policy
      BY DEF PM!Policy
    <2> QED BY <2>1, <2>2, OwnSettings
  <1> QED BY <1>1, <1>4, <1>5, <1>6

LEMMA HookDelivered ==
    ASSUME NEW s \in MultipleStore, NEW m \in HookMessage, NEW t \in PM!Delivered(s, m)
    PROVE  t \in Settings(s)
  <1>1. m.to # Dao /\ m.reply_id \in HookReplies
    BY ChoiceAssumption DEF HookMessage
  <1>2. t = s \/ t \in PM!reply(s, m.reply_id)
    BY <1>1 DEF PM!Delivered
  <1> QED BY <1>1, <1>2, OwnSettings, ReplyKeeps

LEMMA SettingsCompose ==
    ASSUME NEW s \in MultipleStore, NEW t \in Settings(s), NEW u \in Settings(t)
    PROVE  u \in Settings(s)
  BY DEF Settings

LEMMA HooksDelivered ==
    ASSUME NEW s \in MultipleStore, NEW msgs \in Seq(HookMessage), NEW t \in PM!Transaction(s, msgs)
    PROVE  t \in Settings(s)
  <1> DEFINE T == Settings(s)
  <1>1. s \in T
    BY OwnSettings
  <1>2. \A u \in T : \A i \in DOMAIN msgs : PM!Delivered(u, msgs[i]) \subseteq T
    <2>1. TAKE u \in T
    <2>2. TAKE i \in DOMAIN msgs
    <2>3. u \in MultipleStore /\ msgs[i] \in HookMessage
      BY DEF Settings
    <2> QED BY <2>3, HookDelivered, SettingsCompose
  <1> HIDE DEF T
  <1>3. PICK h : Steps(h, s, msgs)
    BY <1>1, <1>2, MessageByMessage
  <1> DEFINE P == {i \in 0 .. Len(msgs) : h[i] \subseteq T}
  <1>4. 0 \in P
    BY <1>1, <1>3 DEF Steps
  <1>5. \A i \in 0 .. Len(msgs) - 1 : i \in P => i + 1 \in P
    <2>1. SUFFICES ASSUME NEW i \in 0 .. Len(msgs) - 1, h[i] \subseteq T PROVE h[i + 1] \subseteq T
      OBVIOUS
    <2>2. i + 1 \in 1 .. Len(msgs) /\ (i + 1) - 1 = i /\ i + 1 \in DOMAIN msgs
      OBVIOUS
    <2>3. h[i + 1] = UNION {PM!Delivered(u, msgs[i + 1]) : u \in h[i]}
      BY <1>3, <2>2 DEF Steps
    <2> QED BY <1>2, <2>1, <2>2, <2>3
  <1> HIDE DEF P
  <1>6. \A i \in 0 .. Len(msgs) : i \in P
    BY <1>4, <1>5, InductionUpTo
  <1>7. h[Len(msgs)] \subseteq T
    BY <1>6 DEF P
  <1> QED BY <1>3, <1>7 DEF T, Steps

LEMMA ExecutedKeeps ==
    ASSUME NEW s \in MultipleStore, NEW id \in DOMAIN s.ran, NEW choice \in Nat,
           NEW body, body.id = id, body.choice = choice, body.msgs \in Seq(PM!Call),
           NEW t \in PM!Executed(s, body)
    PROVE  Ran(s, id, choice) \in MultipleStore /\ t \in Settings(Ran(s, id, choice))
  <1> DEFINE s1 == Ran(s, id, choice)
             msgs == body.msgs
             T == Settings(s1)
  <1>1. s1 \in MultipleStore
    <2>1. s.ran \in Seq(Seq(Nat)) /\ s.ran[id] \in Seq(Nat)
      BY DEF MultipleStore
    <2>2. Append(s.ran[id], choice) \in Seq(Nat)
      BY <2>1
    <2>3. [s.ran EXCEPT ![id] = Append(s.ran[id], choice)] \in Seq(Seq(Nat))
      BY <2>1, <2>2, SeqExcept
    <2>4. s1 = [s EXCEPT !.ran = [s.ran EXCEPT ![id] = Append(s.ran[id], choice)]]
      BY DEF Ran
    <2> QED BY <2>3, <2>4 DEF MultipleStore
  <1> HIDE DEF s1
  <1>2. {s1} \in SUBSET T
    BY <1>1, OwnSettings
  <1>3. \A u \in T : \A i \in DOMAIN msgs : PM!DaoCall(u, msgs[i]) \subseteq T
    <2>1. SUFFICES ASSUME NEW u \in T, NEW i \in DOMAIN msgs, NEW v \in PM!DaoCall(u, msgs[i])
                   PROVE  v \in T
      OBVIOUS
    <2>2. u \in MultipleStore /\ msgs[i] \in PM!Call
      BY DEF Settings
    <2> QED BY <1>1, <2>2, DaoCallKeeps, SettingsCompose
  <1> HIDE DEF T, msgs
  <1>4. msgs \in Seq(PM!Call)
    BY DEF msgs
  <1>5. (CHOOSE g : Calls(g, {s1}, msgs))[DOMAIN msgs] \subseteq T
    BY <1>2, <1>3, <1>4, CallsKeep
  <1>6. PM!Executed(s, body) = (CHOOSE g : Calls(g, {s1}, msgs))[DOMAIN msgs]
    BY ExecutedIsCalls DEF s1, msgs, Ran
  <1> QED BY <1>1, <1>5, <1>6 DEF T, s1

\* The messages of a choice run, or reply says that they failed.
LEMMA ExecutionDelivered ==
    ASSUME NEW s \in MultipleStore, DOMAIN s.ran = DOMAIN s.proposals, NEW id \in DOMAIN s.proposals,
           NEW m \in ExecutionMessage(id), NEW t \in PM!Delivered(s, m)
    PROVE  \/ /\ Ran(s, id, m.body.choice) \in MultipleStore
              /\ t \in Settings(Ran(s, id, m.body.choice))
           \/ FailedAt(s, id) \in MultipleStore /\ t = FailedAt(s, id)
  <1>1. /\ m.to = Dao /\ m.body.id = id /\ m.body.choice \in Nat /\ m.body.msgs \in Seq(PM!Call)
        /\ m.reply_on = "error" => m.reply_id = PM!mask_proposal_execution_proposal_id(id)
    BY DEF ExecutionMessage
  <1>2. \/ t \in PM!Executed(s, m.body)
        \/ m.reply_on = "error" /\ t \in PM!reply(s, m.reply_id)
    BY <1>1 DEF PM!Delivered
  <1>3. CASE t \in PM!Executed(s, m.body)
    BY <1>1, <1>3, ExecutedKeeps
  <1>4. CASE m.reply_on = "error" /\ t \in PM!reply(s, m.reply_id)
    <2>1. s.proposals \in Seq(MultipleProposal) /\ id \in Nat
      BY DEF MultipleStore
    <2>2. PM!reply_type(m.reply_id) = PM!FAILED_PROPOSAL_EXECUTION_MASK
          /\ PM!id_after_shift(m.reply_id) = id
      BY <1>1, <1>4, <2>1, MaskedIds
    <2>3. t = FailedAt(s, id)
      <3> DEFINE r == m.reply_id
      <3>1. t \in {[s EXCEPT !.proposals[PM!id_after_shift(r)].status = "execution_failed"]}
        <4>1. PM!reply_type(r) = 0
          BY <2>2 DEF PM!FAILED_PROPOSAL_EXECUTION_MASK
        <4> QED BY <1>4, <4>1 DEF PM!reply, PM!FAILED_PROPOSAL_EXECUTION_MASK,
                    PM!FAILED_PROPOSAL_HOOK_MASK, PM!FAILED_VOTE_HOOK_MASK,
                    PM!FAILED_PRE_PROPOSE_MODULE_HOOK_ID
      <3> QED BY <2>2, <3>1 DEF FailedAt
    <2>4. s.proposals[id] \in MultipleProposal
      BY <2>1
    <2>5. [s.proposals[id] EXCEPT !.status = "execution_failed"] \in MultipleProposal
      BY <2>4 DEF MultipleProposal, MultipleRecord, PM!MC!V!Status
    <2>6. [s.proposals EXCEPT ![id] = [s.proposals[id] EXCEPT !.status = "execution_failed"]]
              \in Seq(MultipleProposal)
      BY <2>1, <2>5, SeqExcept
    <2>7. FailedAt(s, id)
             = [s EXCEPT !.proposals = [s.proposals EXCEPT ![id] =
                                            [s.proposals[id] EXCEPT !.status = "execution_failed"]]]
      BY DEF FailedAt
    <2>8. FailedAt(s, id) \in MultipleStore
      BY <2>6, <2>7 DEF MultipleStore
    <2> QED BY <2>3, <2>8
  <1> QED BY <1>2, <1>3, <1>4

\* Execution first, then the hooks.
LEMMA ExecutionThenHooks ==
    ASSUME NEW s \in MultipleStore, DOMAIN s.ran = DOMAIN s.proposals, NEW id \in DOMAIN s.proposals,
           NEW m \in ExecutionMessage(id), NEW hooks \in Seq(HookMessage),
           NEW t \in PM!Transaction(s, <<m>> \o hooks)
    PROVE  \/ /\ Ran(s, id, m.body.choice) \in MultipleStore
              /\ t \in Settings(Ran(s, id, m.body.choice))
           \/ FailedAt(s, id) \in MultipleStore /\ t \in Settings(FailedAt(s, id))
  <1> DEFINE msgs == <<m>> \o hooks
             M == {m} \cup HookMessage
             T == {u \in MultipleStore : DOMAIN u.ran = DOMAIN s.ran /\ DOMAIN u.proposals = DOMAIN s.proposals}
             R == {u \in MultipleStore :
                      \/ /\ Ran(s, id, m.body.choice) \in MultipleStore
                         /\ u \in Settings(Ran(s, id, m.body.choice))
                      \/ FailedAt(s, id) \in MultipleStore /\ u \in Settings(FailedAt(s, id))}
  <1>1. /\ msgs \in Seq(M) /\ msgs[1] = m /\ Len(msgs) = Len(hooks) + 1
        /\ \A i \in 2 .. Len(msgs) : msgs[i] \in HookMessage
    OBVIOUS
  <1>2. \A u \in T : \A i \in DOMAIN msgs : PM!Delivered(u, msgs[i]) \subseteq T
    <2>1. SUFFICES ASSUME NEW u \in T, NEW i \in DOMAIN msgs, NEW v \in PM!Delivered(u, msgs[i])
                   PROVE  v \in T
      OBVIOUS
    <2>2. CASE i = 1
      <3>1. msgs[i] = m
        BY <1>1, <2>2
      <3>2. u \in MultipleStore /\ DOMAIN u.ran = DOMAIN u.proposals /\ id \in DOMAIN u.proposals
        OBVIOUS
      <3>3. \/ /\ Ran(u, id, m.body.choice) \in MultipleStore
               /\ v \in Settings(Ran(u, id, m.body.choice))
            \/ FailedAt(u, id) \in MultipleStore /\ v = FailedAt(u, id)
        BY <2>1, <3>1, <3>2, ExecutionDelivered
      <3>4. /\ DOMAIN Ran(u, id, m.body.choice).ran = DOMAIN u.ran
            /\ DOMAIN Ran(u, id, m.body.choice).proposals = DOMAIN u.proposals
            /\ DOMAIN FailedAt(u, id).ran = DOMAIN u.ran
            /\ DOMAIN FailedAt(u, id).proposals = DOMAIN u.proposals
        BY <3>2 DEF Ran, FailedAt, MultipleStore
      <3> QED BY <3>2, <3>3, <3>4 DEF Settings
    <2>3. CASE i # 1
      <3>1. msgs[i] \in HookMessage
        <4>1. i \in 2 .. Len(msgs)
          BY <1>1, <2>3
        <4> QED BY <1>1, <4>1
      <3>2. v \in Settings(u)
        BY <2>1, <3>1, HookDelivered
      <3> QED BY <3>2 DEF Settings
    <2> QED BY <2>2, <2>3
  <1>3. s \in T
    OBVIOUS
  <1>4. \A u \in PM!Delivered(s, m) : u \in R
    BY ExecutionDelivered, OwnSettings DEF Settings
  <1>5. \A u \in R : u \in MultipleStore /\ \A v \in Settings(u) : v \in R
    BY SettingsCompose DEF Settings
  <1> HIDE DEF T, R, M
  <1>6. msgs \in Seq(M) /\ 1 \in DOMAIN msgs
    BY <1>1
  <1> HIDE DEF msgs
  <1>7. PICK h : Steps(h, s, msgs)
    BY <1>2, <1>3, <1>6, MessageByMessage
  <1>8. Len(msgs) \in Nat /\ Len(msgs) >= 1 /\ Len(msgs) - 1 \in Nat
    BY <1>6
  <1> DEFINE P == {i \in 0 .. Len(msgs) - 1 : h[i + 1] \subseteq R}
  <1>9. 0 \in P
    <2>1. h[1] = UNION {PM!Delivered(u, msgs[1]) : u \in h[0]}
      <3>1. 1 \in 1 .. Len(msgs) /\ 1 - 1 = 0
        BY <1>8
      <3> QED BY <1>7, <3>1 DEF Steps
    <2>2. h[1] \subseteq R
      BY <1>1, <1>4, <1>7, <2>1 DEF Steps
    <2>3. 0 \in 0 .. Len(msgs) - 1 /\ 0 + 1 = 1
      BY <1>8
    <2> QED BY <2>2, <2>3
  <1>10. \A i \in 0 .. (Len(msgs) - 1) - 1 : i \in P => i + 1 \in P
    <2>1. SUFFICES ASSUME NEW i \in 0 .. (Len(msgs) - 1) - 1, h[i + 1] \subseteq R
                   PROVE  h[(i + 1) + 1] \subseteq R /\ i + 1 \in 0 .. Len(msgs) - 1
      OBVIOUS
    <2>2. /\ i + 2 \in 2 .. Len(msgs) /\ i + 2 \in 1 .. Len(msgs) /\ (i + 2) - 1 = i + 1
          /\ (i + 1) + 1 = i + 2 /\ i + 1 \in 0 .. Len(msgs) - 1
      BY <1>8
    <2>3. h[i + 2] = UNION {PM!Delivered(u, msgs[i + 2]) : u \in h[i + 1]}
      BY <1>7, <2>2 DEF Steps
    <2>4. msgs[i + 2] \in HookMessage
      BY <1>1, <2>2
    <2>5. \A u \in h[i + 1] : PM!Delivered(u, msgs[i + 2]) \subseteq R
      BY <1>5, <2>1, <2>4, HookDelivered
    <2> QED BY <2>2, <2>3, <2>5
  <1> HIDE DEF P
  <1>11. \A i \in 0 .. Len(msgs) - 1 : i \in P
    BY <1>8, <1>9, <1>10, InductionUpTo
  <1>12. h[Len(msgs)] \subseteq R
    <2>1. Len(msgs) - 1 \in 0 .. Len(msgs) - 1 /\ (Len(msgs) - 1) + 1 = Len(msgs)
      BY <1>8
    <2>2. Len(msgs) - 1 \in P
      BY <1>11, <2>1
    <2> QED BY <2>1, <2>2 DEF P
  <1> QED BY <1>7, <1>12 DEF R, msgs, Steps

\* What the handlers send to hooks.
LEMMA HookMessages ==
    ASSUME NEW s \in MultipleStore
    PROVE  /\ PM!ProposalHookMsgs(s) \in Seq(HookMessage)
           /\ PM!new_vote_hooks(s) \in Seq(HookMessage)
           /\ PM!proposal_completed_hooks(s) \in Seq(HookMessage)
           /\ \A old, new : PM!proposal_status_changed_hooks(s, old, new) \in Seq(HookMessage)
           /\ \A m1, m2 \in Seq(HookMessage) : m1 \o m2 \in Seq(HookMessage)
  <1>1. s.proposal_hooks \in Seq(Addr) /\ s.vote_hooks \in Seq(Addr) /\ s.policy \in PM!Policy
    BY DEF MultipleStore
  <1>2. ASSUME NEW a \in Addr, NEW r \in HookReplies
        PROVE  PM!MsgReplyOnError(a, <<>>, r) \in HookMessage
    BY DEF PM!MsgReplyOnError, HookMessage
  <1>3. PM!ProposalHookMsgs(s) \in Seq(HookMessage)
    <2> DEFINE hooks == s.proposal_hooks
    <2>1. ASSUME NEW i \in DOMAIN hooks
          PROVE  PM!MsgReplyOnError(hooks[i], <<>>, PM!mask_proposal_hook_index(i - 1)) \in HookMessage
      <3>1. hooks[i] \in Addr /\ i - 1 \in Nat
        BY <1>1
      <3> QED BY <3>1, <1>2, MaskedIds
    <2>2. DOMAIN hooks = 1 .. Len(hooks) /\ Len(hooks) \in Nat
      BY <1>1
    <2> HIDE DEF hooks
    <2>3. [i \in DOMAIN hooks |-> PM!MsgReplyOnError(hooks[i], <<>>, PM!mask_proposal_hook_index(i - 1))]
              \in Seq(HookMessage)
      BY <2>1, <2>2
    <2> QED BY <2>3 DEF PM!ProposalHookMsgs, hooks
  <1>4. PM!new_vote_hooks(s) \in Seq(HookMessage)
    <2> DEFINE hooks == s.vote_hooks
    <2>1. ASSUME NEW i \in DOMAIN hooks
          PROVE  PM!MsgReplyOnError(hooks[i], <<>>, PM!mask_vote_hook_index(i - 1)) \in HookMessage
      <3>1. hooks[i] \in Addr /\ i - 1 \in Nat
        BY <1>1
      <3> QED BY <3>1, <1>2, MaskedIds
    <2>2. DOMAIN hooks = 1 .. Len(hooks) /\ Len(hooks) \in Nat
      BY <1>1
    <2> HIDE DEF hooks
    <2>3. [i \in DOMAIN hooks |-> PM!MsgReplyOnError(hooks[i], <<>>, PM!mask_vote_hook_index(i - 1))]
              \in Seq(HookMessage)
      BY <2>1, <2>2
    <2> QED BY <2>3 DEF PM!new_vote_hooks, hooks
  <1>5. PM!proposal_completed_hooks(s) \in Seq(HookMessage)
    <2>1. CASE s.policy.kind = "anyone"
      BY <2>1 DEF PM!proposal_completed_hooks
    <2>2. CASE s.policy.kind # "anyone"
      <3>1. s.policy.addr \in Addr
        BY <1>1, <2>2 DEF PM!Policy, PM!Anyone, PM!Module
      <3>2. PM!FAILED_PRE_PROPOSE_MODULE_HOOK_ID \in HookReplies
        BY MaskedIds
      <3>3. PM!MsgReplyOnError(s.policy.addr, <<>>, PM!FAILED_PRE_PROPOSE_MODULE_HOOK_ID) \in HookMessage
        BY <1>2, <3>1, <3>2
      <3> QED BY <2>2, <3>3 DEF PM!proposal_completed_hooks
    <2> QED BY <2>1, <2>2
  <1>6. \A old, new : PM!proposal_status_changed_hooks(s, old, new) \in Seq(HookMessage)
    BY <1>3 DEF PM!proposal_status_changed_hooks
  <1> QED BY <1>3, <1>4, <1>5, <1>6

----------------------------------------------------------------------------
(* dao-proposal-multiple: the tally *)

ChoosersOf(ballots, c) == {a \in Addr : ballots[a].vote = c}
Unvoted(ballots) == {a \in Addr : ballots[a] = PM!NoBallot}

\* Proposals and ballots with ballot b of an address that had none, or had voted old.
WithFirst(p, b) == [p EXCEPT !.votes = PM!MC!add_vote(@, b.vote, b.power)]
WithChanged(p, old, b) ==
    [p EXCEPT !.votes = PM!MC!add_vote(PM!MC!remove_vote(@, old.vote, old.power), b.vote, b.power)]
Balloted(ballots, a, b) == [ballots EXCEPT ![a] = b]

\* q is p with n more votes for a choice.
Gains(p, q, vote, n) ==
    /\ vote \in DOMAIN p.votes /\ n \in Nat
    /\ q.choices = p.choices /\ q.allow_revoting = p.allow_revoting /\ q.expiration = p.expiration
    /\ q.total_power = p.total_power /\ q.status = p.status /\ q.start_height = p.start_height
    /\ DOMAIN q.votes = DOMAIN p.votes
    /\ q.votes[vote] = p.votes[vote] + n
    /\ \A c \in DOMAIN p.votes \ {vote} : q.votes[c] = p.votes[c]
    /\ PM!MC!total(p.votes) \in Nat /\ PM!MC!total(q.votes) = PM!MC!total(p.votes) + n
    /\ PM!MC!total(q.votes) <= p.total_power /\ p.total_power \in Nat

LEMMA VotesType ==
    ASSUME NEW p \in MultipleProposal
    PROVE  /\ p.votes \in [DOMAIN p.votes -> Nat] /\ IsFiniteSet(DOMAIN p.votes)
           /\ DOMAIN p.votes \in SUBSET Nat
           /\ \A v \in [DOMAIN p.votes -> Nat] : [p EXCEPT !.votes = v] \in MultipleProposal
           /\ \A st \in PM!MC!V!Status : [p EXCEPT !.status = st] \in MultipleProposal
  <1>1. PICK n \in 2 .. PM!MC!MAX_NUM_CHOICES : p.votes \in [0 .. n -> Nat]
    BY DEF MultipleProposal, MultipleRecord, ByChoice
  <1>2. n \in Nat /\ DOMAIN p.votes = 0 .. n
    BY <1>1 DEF PM!MC!MAX_NUM_CHOICES
  <1>3. IsFiniteSet(0 .. n)
    BY <1>2, FS_Interval
  <1>4. \A v \in [DOMAIN p.votes -> Nat] : v \in ByChoice(Nat)
    BY <1>1, <1>2 DEF ByChoice
  <1>5. \A v \in ByChoice(Nat) : [p EXCEPT !.votes = v] \in MultipleProposal
    BY DEF MultipleProposal, MultipleRecord
  <1>6. \A st \in PM!MC!V!Status : [p EXCEPT !.status = st] \in MultipleProposal
    BY DEF MultipleProposal, MultipleRecord
  <1> QED BY <1>1, <1>2, <1>3, <1>4, <1>5, <1>6

\* A function of votes with one entry changed.
LEMMA TotalChange ==
    ASSUME NEW D, IsFiniteSet(D), NEW v, DOMAIN v = D, \A x \in D : v[x] \in Nat,
           NEW u, DOMAIN u = D, NEW c \in D, u[c] \in Nat, \A x \in D \ {c} : u[x] = v[x]
    PROVE  /\ PM!MC!total(v) \in Nat
           /\ v[c] <= PM!MC!total(v)
           /\ PM!MC!total(u) = PM!MC!total(v) + (u[c] - v[c])
  <1>1. PM!MC!total(v) = SumOver(v, D) /\ PM!MC!total(u) = SumOver(u, D)
    BY TotalIsSum
  <1>2. \A x \in D : v[x] \in Int
    OBVIOUS
  <1>3. u[c] \in Int
    OBVIOUS
  <1>4. SumOver(u, D) = SumOver(v, D) + (u[c] - v[c])
    BY <1>2, <1>3, SumUpdate
  <1>5. SumOver(v, D) \in Nat /\ v[c] <= SumOver(v, D)
    BY SumNat, SumPart
  <1> QED BY <1>1, <1>4, <1>5

LEMMA TotalWith ==
    ASSUME NEW D, IsFiniteSet(D), NEW v \in [D -> Nat], NEW c \in D, NEW n \in Nat
    PROVE  /\ [v EXCEPT ![c] = n] \in [D -> Nat]
           /\ PM!MC!total(v) \in Nat
           /\ v[c] <= PM!MC!total(v)
           /\ PM!MC!total([v EXCEPT ![c] = n]) = PM!MC!total(v) + (n - v[c])
  <1> DEFINE u == [v EXCEPT ![c] = n]
  <1>1. u \in [D -> Nat] /\ u[c] = n /\ \A d \in D \ {c} : u[d] = v[d]
    OBVIOUS
  <1>2. DOMAIN v = D /\ DOMAIN u = D
    OBVIOUS
  <1> HIDE DEF u
  <1>3. /\ PM!MC!total(v) \in Nat
        /\ v[c] <= PM!MC!total(v)
        /\ PM!MC!total(u) = PM!MC!total(v) + (u[c] - v[c])
    <2>1. \A x \in D : v[x] \in Nat
      OBVIOUS
    <2>2. u[c] \in Nat
      BY <1>1
    <2>3. \A x \in D \ {c} : u[x] = v[x]
      BY <1>1
    <2>4. DOMAIN v = D
      BY <1>2
    <2>5. DOMAIN u = D
      BY <1>2
    <2> QED BY <2>1, <2>2, <2>3, <2>4, <2>5, TotalChange
  <1> QED BY <1>1, <1>3 DEF u

LEMMA TalliesAreNumbers ==
    ASSUME NEW p \in MultipleProposal, NEW ballots \in [Addr -> Ballot], p.start_height \in Heights,
           Counted(p, ballots)
    PROVE  /\ PM!MC!total(p.votes) \in Nat /\ p.total_power \in Nat
           /\ PM!MC!total(p.votes) <= p.total_power
           /\ \A c \in DOMAIN p.votes : p.votes[c] \in Nat /\ p.votes[c] <= PM!MC!total(p.votes)
           /\ PowerOf(p.start_height, Unvoted(ballots)) = p.total_power - PM!MC!total(p.votes)
  <1> DEFINE D == DOMAIN p.votes
             v == p.votes
  <1>1. v \in [D -> Nat] /\ IsFiniteSet(D)
    BY VotesType
  <1>2. p.total_power \in Nat
    BY DEF MultipleProposal, MultipleRecord
  <1>3. PowerOf(p.start_height, Unvoted(ballots)) \in Nat
    BY PowerType DEF Unvoted
  <1>4. PM!MC!total(v) + PowerOf(p.start_height, Unvoted(ballots)) = p.total_power
    BY DEF Counted, Unvoted
  <1>5. DOMAIN v = D
    OBVIOUS
  <1> HIDE DEF D, v
  <1>6. \A x \in D : v[x] \in Nat
    BY <1>1
  <1>7. \A c \in D : PM!MC!total(v) \in Nat /\ v[c] <= PM!MC!total(v)
    BY <1>1, TotalWith
  <1>8. PM!MC!total(v) \in Nat
    <2>1. PM!MC!total(v) = SumOver(v, D)
      BY <1>5, TotalIsSum
    <2>2. SumOver(v, D) \in Nat
      BY <1>1, <1>6, SumNat
    <2> QED BY <2>1, <2>2
  <1>9. /\ PM!MC!total(v) <= p.total_power
        /\ PowerOf(p.start_height, Unvoted(ballots)) = p.total_power - PM!MC!total(v)
    BY <1>2, <1>3, <1>4, <1>8
  <1> QED BY <1>2, <1>6, <1>7, <1>8, <1>9 DEF D, v

LEMMA FirstVote ==
    ASSUME NEW p \in MultipleProposal, NEW ballots \in [Addr -> Ballot], p.start_height \in Heights,
           Counted(p, ballots), NEW a \in Addr, ballots[a] = PM!NoBallot,
           NEW b \in Ballot, b.vote \in DOMAIN p.votes, b.power = PowerAt[p.start_height][a],
           NEW q, q = WithFirst(p, b)
    PROVE  q \in MultipleProposal /\ Counted(q, Balloted(ballots, a, b)) /\ Gains(p, q, b.vote, b.power)
  <1> DEFINE H == p.start_height
             D == DOMAIN p.votes
             v == p.votes
             u == [v EXCEPT ![b.vote] = v[b.vote] + b.power]
             bs == [ballots EXCEPT ![a] = b]
  <1>1. v \in [D -> Nat] /\ IsFiniteSet(D) /\ D \in SUBSET Nat
    BY VotesType
  <1>2. PowerAt[H] \in [Addr -> Nat] /\ b.power \in Nat /\ H \in Heights
    BY DEF Heights
  <1>3. q = [p EXCEPT !.votes = u]
    BY DEF WithFirst, PM!MC!add_vote
  <1>4. /\ q.votes = u /\ q.start_height = H /\ q.total_power = p.total_power /\ q.choices = p.choices
        /\ q.allow_revoting = p.allow_revoting /\ q.expiration = p.expiration /\ q.status = p.status
    BY <1>3 DEF MultipleProposal, MultipleRecord
  <1>5. b.vote \in D /\ v[b.vote] \in Nat /\ v[b.vote] + b.power \in Nat
    BY <1>1, <1>2
  <1>6. \A c \in D \ {b.vote} : u[c] = v[c]
    OBVIOUS
  <1>7. u[b.vote] = v[b.vote] + b.power
    BY <1>1, <1>5
  <1>8. /\ u \in [D -> Nat]
        /\ PM!MC!total(u) = PM!MC!total(v) + ((v[b.vote] + b.power) - v[b.vote])
        /\ PM!MC!total(v) \in Nat
    <2> DEFINE c == b.vote
    <2>1. v \in [D -> Nat] /\ IsFiniteSet(D)
      BY <1>1
    <2>2. DOMAIN v = D /\ DOMAIN u = D /\ u \in [D -> Nat] /\ \A x \in D : v[x] \in Nat
      BY <1>1, <1>5
    <2>3. c \in D /\ u[c] = v[b.vote] + b.power /\ u[c] \in Nat /\ \A x \in D \ {c} : u[x] = v[x]
      BY <1>5, <1>6, <1>7
    <2> HIDE DEF D, v, u
    <2> HIDE DEF c
    <2>4. PM!MC!total(v) \in Nat /\ PM!MC!total(u) = PM!MC!total(v) + (u[c] - v[c])
      BY <2>1, <2>2, <2>3, TotalChange
    <2> QED BY <2>2, <2>3, <2>4 DEF c
  <1>9. PM!MC!total(u) = PM!MC!total(v) + b.power
    BY <1>2, <1>5, <1>8
  <1>10. q \in MultipleProposal
    BY <1>3, <1>8, VotesType
  <1>11. /\ a \notin ChoosersOf(ballots, b.vote)
         /\ ChoosersOf(bs, b.vote) = ChoosersOf(ballots, b.vote) \cup {a}
    BY <1>1 DEF ChoosersOf, PM!NoBallot
  <1>12. ASSUME NEW c \in D \ {b.vote} PROVE ChoosersOf(bs, c) = ChoosersOf(ballots, c)
    BY <1>1 DEF ChoosersOf, PM!NoBallot
  <1>13. b # PM!NoBallot
    BY <1>1 DEF PM!NoBallot
  <1>14. a \in Unvoted(ballots) /\ Unvoted(bs) = Unvoted(ballots) \ {a}
    BY <1>13 DEF Unvoted
  <1> HIDE DEF u
  <1>15. /\ \A x \in Addr : ballots[x] # PM!NoBallot => ballots[x].vote \in D /\ ballots[x].power = PowerAt[H][x]
         /\ \A c \in D : v[c] = PowerOf(H, ChoosersOf(ballots, c))
         /\ PM!MC!total(v) + PowerOf(H, Unvoted(ballots)) = p.total_power
         /\ DOMAIN p.choices = D
    BY DEF Counted, ChoosersOf, Unvoted
  <1>16. PowerOf(H, ChoosersOf(bs, b.vote)) = PowerOf(H, ChoosersOf(ballots, b.vote)) + b.power
    <2> DEFINE S == ChoosersOf(ballots, b.vote)
    <2>1. S \in SUBSET Addr
      BY DEF ChoosersOf
    <2> HIDE DEF S
    <2>2. PowerOf(H, S \cup {a}) = PowerOf(H, S) + PowerAt[H][a]
      BY <1>2, <1>11, <2>1, PowerWith DEF S
    <2> QED BY <1>11, <2>2 DEF S
  <1>17. PowerOf(H, Unvoted(bs)) = PowerOf(H, Unvoted(ballots)) - b.power
         /\ PowerOf(H, Unvoted(ballots)) \in Nat
    <2> DEFINE S == Unvoted(ballots)
    <2>1. S \in SUBSET Addr
      BY DEF Unvoted
    <2> HIDE DEF S
    <2>2. PowerOf(H, S \ {a}) = PowerOf(H, S) - PowerAt[H][a] /\ PowerOf(H, S) \in Nat
      BY <1>2, <1>14, <2>1, PowerWithout, PowerType DEF S
    <2> QED BY <1>14, <2>2 DEF S
  <1>18. \A x \in Addr : bs[x] # PM!NoBallot => bs[x].vote \in D /\ bs[x].power = PowerAt[H][x]
    BY <1>15
  <1>19. \A c \in D : u[c] = PowerOf(H, ChoosersOf(bs, c))
    BY <1>6, <1>7, <1>12, <1>15, <1>16
  <1>20. PM!MC!total(u) + PowerOf(H, Unvoted(bs)) = p.total_power
    BY <1>2, <1>8, <1>9, <1>15, <1>17
  <1>21. DOMAIN u = D
    BY <1>8
  <1>22. Counted(q, bs)
    BY <1>4, <1>15, <1>18, <1>19, <1>20, <1>21 DEF Counted, ChoosersOf, Unvoted
  <1>23. PM!MC!total(u) <= p.total_power /\ p.total_power \in Nat
    <2>1. bs \in [Addr -> Ballot]
      OBVIOUS
    <2> HIDE DEF bs
    <2> QED BY <1>2, <1>4, <1>10, <1>22, <2>1, TalliesAreNumbers
  <1>24. Gains(p, q, b.vote, b.power)
    BY <1>2, <1>4, <1>5, <1>6, <1>7, <1>8, <1>9, <1>21, <1>23 DEF Gains
  <1> QED BY <1>10, <1>22, <1>24 DEF Balloted

LEMMA ChangedVote ==
    ASSUME NEW p \in MultipleProposal, NEW ballots \in [Addr -> Ballot], p.start_height \in Heights,
           Counted(p, ballots), NEW a \in Addr, ballots[a] # PM!NoBallot,
           NEW b \in Ballot, b.vote \in DOMAIN p.votes, b.power = PowerAt[p.start_height][a],
           b.vote # ballots[a].vote,
           NEW q, q = WithChanged(p, ballots[a], b)
    PROVE  /\ q \in MultipleProposal /\ DOMAIN q.votes = DOMAIN p.votes
           /\ Counted(q, Balloted(ballots, a, b))
           /\ q.status = p.status /\ q.start_height = p.start_height
  <1> DEFINE H == p.start_height
             D == DOMAIN p.votes
             v == p.votes
             old == ballots[a].vote
             new == b.vote
             n == b.power
             w == [v EXCEPT ![old] = v[old] - n]
             u == [w EXCEPT ![new] = w[new] + n]
             bs == [ballots EXCEPT ![a] = b]
  <1>1. v \in [D -> Nat] /\ IsFiniteSet(D)
    BY VotesType
  <1>2. D \in SUBSET Nat
    BY VotesType
  <1>3. PowerAt[H] \in [Addr -> Nat] /\ n \in Nat /\ H \in Heights
    BY DEF Heights
  <1>4. /\ \A x \in Addr : ballots[x] # PM!NoBallot => ballots[x].vote \in D /\ ballots[x].power = PowerAt[H][x]
        /\ \A c \in D : v[c] = PowerOf(H, ChoosersOf(ballots, c))
        /\ PM!MC!total(v) + PowerOf(H, Unvoted(ballots)) = p.total_power
        /\ DOMAIN p.choices = D
    BY DEF Counted, ChoosersOf, Unvoted
  <1>5. old \in D /\ new \in D /\ old # new /\ ballots[a].power = n
    BY <1>4
  <1>6. q = [p EXCEPT !.votes = u]
    BY <1>5 DEF WithChanged, PM!MC!add_vote, PM!MC!remove_vote
  <1>7. /\ q.votes = u /\ q.start_height = H /\ q.total_power = p.total_power /\ q.choices = p.choices
        /\ q.status = p.status
    BY <1>6 DEF MultipleProposal, MultipleRecord
  <1>8. a \in ChoosersOf(ballots, old) /\ ChoosersOf(bs, old) = ChoosersOf(ballots, old) \ {a}
    BY <1>5 DEF ChoosersOf
  <1>9. a \notin ChoosersOf(ballots, new) /\ ChoosersOf(bs, new) = ChoosersOf(ballots, new) \cup {a}
    BY <1>5 DEF ChoosersOf
  <1>10. ASSUME NEW c \in D \ {old, new} PROVE ChoosersOf(bs, c) = ChoosersOf(ballots, c)
    BY <1>5 DEF ChoosersOf
  <1>11. b # PM!NoBallot
    BY <1>2, <1>5 DEF PM!NoBallot
  <1>12. Unvoted(bs) = Unvoted(ballots)
    BY <1>11 DEF Unvoted
  <1>13. PowerOf(H, ChoosersOf(bs, old)) = v[old] - n /\ v[old] \in Nat /\ v[old] - n \in Nat
    <2> DEFINE S == ChoosersOf(ballots, old)
    <2>1. S \in SUBSET Addr
      BY DEF ChoosersOf
    <2>2. v[old] = PowerOf(H, S) /\ v[old] \in Nat
      BY <1>1, <1>4, <1>5
    <2>3. a \in S /\ ChoosersOf(bs, old) = S \ {a} /\ n = PowerAt[H][a]
      BY <1>8
    <2> HIDE DEF S, v, n, H, bs, old
    <2>4. PowerOf(H, S \ {a}) = PowerOf(H, S) - PowerAt[H][a] /\ PowerAt[H][a] <= PowerOf(H, S)
      BY <1>3, <2>1, <2>3, PowerWithout
    <2> QED BY <1>3, <2>2, <2>3, <2>4
  <1>14. PowerOf(H, ChoosersOf(bs, new)) = v[new] + n /\ v[new] \in Nat /\ v[new] + n \in Nat
    <2> DEFINE S == ChoosersOf(ballots, new)
    <2>1. S \in SUBSET Addr
      BY DEF ChoosersOf
    <2>2. v[new] = PowerOf(H, S) /\ v[new] \in Nat
      BY <1>1, <1>4, <1>5
    <2>3. a \notin S /\ ChoosersOf(bs, new) = S \cup {a} /\ n = PowerAt[H][a]
      BY <1>9
    <2> HIDE DEF S, v, n, H, bs, new
    <2>4. PowerOf(H, S \cup {a}) = PowerOf(H, S) + PowerAt[H][a]
      BY <1>3, <2>1, <2>3, PowerWith
    <2> QED BY <1>3, <2>2, <2>3, <2>4
  <1>15. /\ DOMAIN w = D /\ w[old] = v[old] - n /\ w[old] \in Nat /\ \A x \in D \ {old} : w[x] = v[x]
         /\ \A x \in D : w[x] \in Nat
    BY <1>1, <1>5, <1>13
  <1> HIDE DEF w
  <1>16. /\ DOMAIN u = D /\ u[new] = v[new] + n /\ u[new] \in Nat /\ \A x \in D \ {new} : u[x] = w[x]
         /\ u \in [D -> Nat] /\ w[new] = v[new]
    BY <1>5, <1>14, <1>15
  <1> HIDE DEF u
  <1>17. PM!MC!total(u) = PM!MC!total(v)
    <2>1. DOMAIN v = D /\ \A x \in D : v[x] \in Nat
      BY <1>1
    <2> HIDE DEF D, v, old, new, n
    <2>2. PM!MC!total(v) \in Nat /\ PM!MC!total(w) = PM!MC!total(v) + (w[old] - v[old])
      BY <1>1, <1>5, <1>15, <2>1, TotalChange
    <2>3. PM!MC!total(w) \in Nat /\ PM!MC!total(u) = PM!MC!total(w) + (u[new] - w[new])
      BY <1>1, <1>5, <1>15, <1>16, TotalChange
    <2> QED BY <1>3, <1>13, <1>14, <1>15, <1>16, <2>2, <2>3
  <1>18. q \in MultipleProposal
    BY <1>6, <1>16, VotesType
  <1>19. \A x \in Addr : bs[x] # PM!NoBallot => bs[x].vote \in D /\ bs[x].power = PowerAt[H][x]
    BY <1>4, <1>5
  <1>20. \A c \in D : u[c] = PowerOf(H, ChoosersOf(bs, c))
    <2>1. SUFFICES ASSUME NEW c \in D PROVE u[c] = PowerOf(H, ChoosersOf(bs, c))
      OBVIOUS
    <2>2. CASE c = old
      BY <2>2, <1>5, <1>13, <1>15, <1>16
    <2>3. CASE c = new
      BY <2>3, <1>14, <1>16
    <2>4. CASE c # old /\ c # new
      BY <2>4, <1>4, <1>10, <1>15, <1>16
    <2> QED BY <2>2, <2>3, <2>4
  <1>21. PM!MC!total(u) + PowerOf(H, Unvoted(bs)) = p.total_power
    BY <1>4, <1>12, <1>17
  <1>22. Counted(q, bs)
    BY <1>4, <1>7, <1>16, <1>19, <1>20, <1>21 DEF Counted, ChoosersOf, Unvoted
  <1> QED BY <1>7, <1>16, <1>18, <1>22 DEF Balloted

----------------------------------------------------------------------------
(* dao-proposal-multiple: the status *)

LEMMA OnlyStatus ==
    ASSUME NEW p \in MultipleProposal, NEW st \in PM!MC!V!Status, NEW q, q = [p EXCEPT !.status = st]
    PROVE  /\ q \in MultipleProposal /\ q.status = st
           /\ q.start_height = p.start_height /\ q.choices = p.choices /\ q.votes = p.votes
           /\ q.expiration = p.expiration
           /\ \A ballots : Counted(p, ballots) => Counted(q, ballots)
           /\ \A w : Leads(q, w) <=> Leads(p, w)
           /\ \A w, h : Settled(p, w, h) => Settled(q, w, h)
           /\ PM!MC!calculate_vote_result(q) = PM!MC!calculate_vote_result(p)
  <1>1. /\ q \in MultipleProposal /\ q.status = st
        /\ q.start_height = p.start_height /\ q.choices = p.choices /\ q.votes = p.votes
        /\ q.total_power = p.total_power /\ q.expiration = p.expiration
        /\ q.allow_revoting = p.allow_revoting
    BY DEF MultipleProposal, MultipleRecord
  <1>2. \A ballots : Counted(p, ballots) => Counted(q, ballots)
    BY <1>1 DEF Counted
  <1>3. \A w : Leads(q, w) <=> Leads(p, w)
    BY <1>1, Zenon DEF Leads
  <1>4. \A w, h : Settled(p, w, h) => Settled(q, w, h)
    BY <1>1, <1>3, Zenon DEF Settled
  <1>5. PM!MC!calculate_vote_result(q) = PM!MC!calculate_vote_result(p)
    BY <1>1 DEF PM!MC!calculate_vote_result
  <1> QED BY <1>1, <1>2, <1>3, <1>4, <1>5

\* The leader is the one with the most votes, alone.
LEMMA LeaderAlone ==
    ASSUME NEW p \in MultipleProposal
    PROVE  /\ \A w \in DOMAIN p.votes : Leads(p, w) => PM!MC!calculate_vote_result(p) = {w}
           /\ \A w : PM!MC!calculate_vote_result(p) = {w} => w \in DOMAIN p.votes /\ Leads(p, w)
           /\ \A w, x \in DOMAIN p.votes : Leads(p, w) /\ Leads(p, x) => w = x
  <1> DEFINE D == DOMAIN p.votes
             v == p.votes
  <1>1. \A c \in D : v[c] \in Nat
    BY VotesType
  <1>2. IsFiniteSet(D)
    BY VotesType
  <1>3. ASSUME NEW w \in D, Leads(p, w) PROVE PM!MC!calculate_vote_result(p) = {w}
    <2>1. \A c \in D \ {w} : v[c] < v[w]
      BY <1>3 DEF Leads
    <2>2. \A c \in D : (\A j \in D : v[j] <= v[c]) <=> c = w
      <3>1. SUFFICES ASSUME NEW c \in D PROVE (\A j \in D : v[j] <= v[c]) <=> c = w
        OBVIOUS
      <3>2. CASE c = w
        <4>1. \A j \in D : v[j] <= v[w]
          BY <1>1, <2>1
        <4> QED BY <3>2, <4>1
      <3>3. CASE c # w
        <4>1. v[c] < v[w] /\ v[c] \in Nat /\ v[w] \in Nat
          BY <1>1, <2>1, <3>3
        <4>2. ~(v[w] <= v[c])
          BY <4>1
        <4> QED BY <3>3, <4>2
      <3> QED BY <3>2, <3>3
    <2>3. PM!MC!calculate_vote_result(p) = {i \in D : \A j \in D : v[j] <= v[i]}
      BY DEF PM!MC!calculate_vote_result
    <2> HIDE DEF D, v
    <2> QED BY <2>2, <2>3
  <1>4. ASSUME NEW w, PM!MC!calculate_vote_result(p) = {w} PROVE w \in D /\ Leads(p, w)
    <2>1. {i \in D : \A j \in D : v[j] <= v[i]} = {w}
      BY <1>4 DEF PM!MC!calculate_vote_result
    <2>2. w \in D /\ \A j \in D : v[j] <= v[w]
      BY <2>1
    <2>3. ASSUME NEW c \in D, c # w PROVE v[c] < v[w]
      <3>1. ~(\A j \in D : v[j] <= v[c])
        BY <2>1, <2>3
      <3>2. PICK j \in D : ~(v[j] <= v[c])
        BY <3>1
      <3>3. v[j] <= v[w] /\ v[j] \in Nat /\ v[c] \in Nat /\ v[w] \in Nat
        BY <1>1, <2>2
      <3> QED BY <3>2, <3>3
    <2> QED BY <2>2, <2>3 DEF Leads
  <1>5. ASSUME NEW w \in D, NEW x \in D, Leads(p, w), Leads(p, x) PROVE w = x
    BY <1>3, <1>5
  <1> QED BY <1>3, <1>4, <1>5

\* A proposal that passes is settled.
LEMMA PassedSettled ==
    ASSUME NEW p \in MultipleProposal, NEW h \in Nat, PM!MC!is_passed(p, h)
    PROVE  \E w \in DOMAIN p.votes : Settled(p, w, h)
  <1>1. PICK w \in PM!MC!calculate_vote_result(p) :
            /\ PM!MC!calculate_vote_result(p) = {w}
            /\ p.choices[w].option_type # "none"
            /\ PM!MC!V!is_expired(p.expiration, h) \/ PM!MC!is_choice_unbeatable(p, w)
    BY DEF PM!MC!is_passed
  <1>2. w \in DOMAIN p.votes /\ Leads(p, w)
    BY <1>1, LeaderAlone
  <1>3. p.expiration \in Nat
    BY DEF MultipleProposal, MultipleRecord
  <1>4. ASSUME h < p.expiration
        PROVE  /\ ~p.allow_revoting
               /\ \A c \in DOMAIN p.votes \ {w} :
                      p.votes[w] > p.votes[c] + (p.total_power - PM!MC!total(p.votes))
    <2>1. ~PM!MC!V!is_expired(p.expiration, h)
      BY <1>3, <1>4 DEF PM!MC!V!is_expired
    <2>2. ~p.allow_revoting
      BY <2>1 DEF PM!MC!is_passed
    <2>3. PM!MC!is_choice_unbeatable(p, w)
      BY <1>1, <2>1
    <2> QED BY <1>1, <2>2, <2>3 DEF PM!MC!is_choice_unbeatable
  <1>5. Settled(p, w, h)
    BY <1>1, <1>2, <1>4 DEF Settled
  <1> QED BY <1>2, <1>5

\* Updating the status keeps the invariant of a proposal.
LEMMA UpdatedOK ==
    ASSUME NEW p \in MultipleProposal, NEW ballots, NEW ran, NEW h \in Nat, MultipleOK(p, ballots, ran, h),
           NEW q, q = PM!MC!update_status(p, h)
    PROVE  /\ q \in MultipleProposal /\ MultipleOK(q, ballots, ran, h)
           /\ q.votes = p.votes /\ q.choices = p.choices /\ q.start_height = p.start_height
           /\ q.expiration = p.expiration
           /\ PM!MC!calculate_vote_result(q) = PM!MC!calculate_vote_result(p)
           /\ p.status = "executed" <=> q.status = "executed"
  <1> DEFINE st == PM!MC!current_status(p, h)
  <1>1. p.status \in PM!MC!V!Status
    BY DEF MultipleProposal, MultipleRecord
  <1>2. st \in PM!MC!V!Status
    BY <1>1 DEF PM!MC!current_status, PM!MC!V!Status
  <1>3. p.status = "executed" <=> st = "executed"
    BY <1>1 DEF PM!MC!current_status, PM!MC!V!Status
  <1>4. st \in Passed => \E w \in DOMAIN p.votes : Settled(p, w, h)
    <2>1. CASE p.status \in Passed
      BY <2>1 DEF MultipleOK
    <2>2. CASE p.status = "open" /\ PM!MC!is_passed(p, h)
      BY <2>2, PassedSettled
    <2>3. CASE p.status \notin Passed /\ ~(p.status = "open" /\ PM!MC!is_passed(p, h))
      BY <1>1, <2>3 DEF PM!MC!current_status, PM!MC!V!Status, Passed
    <2> QED BY <2>1, <2>2, <2>3
  <1>5. q = [p EXCEPT !.status = st]
    BY DEF PM!MC!update_status
  <1> HIDE DEF st
  <1>6. /\ q \in MultipleProposal /\ q.status = st
        /\ q.start_height = p.start_height /\ q.choices = p.choices /\ q.votes = p.votes
        /\ q.expiration = p.expiration
        /\ \A bs : Counted(p, bs) => Counted(q, bs)
        /\ \A w : Leads(q, w) <=> Leads(p, w)
        /\ \A w, k : Settled(p, w, k) => Settled(q, w, k)
        /\ PM!MC!calculate_vote_result(q) = PM!MC!calculate_vote_result(p)
    BY <1>2, <1>5, OnlyStatus
  <1>7. MultipleOK(q, ballots, ran, h)
    BY <1>3, <1>4, <1>6, Zenon DEF MultipleOK
  <1> QED BY <1>3, <1>6, <1>7

----------------------------------------------------------------------------
(* dao-proposal-multiple: what calls make of proposals *)

\* The ends a proposal may come to when its status is now.
Ends(now, st) ==
    \/ now \in {"open", "veto_timelock"} /\ st = "vetoed"
    \/ now = "rejected" /\ st = "closed"
    \/ now \in {"passed", "veto_timelock"} /\ st \in {"executed", "execution_failed"}

\* q is p with a vote more, or, if votes may be changed, with other votes.
Voted(p, q) ==
    /\ q \in MultipleProposal /\ q = [p EXCEPT !.votes = q.votes]
    /\ ~p.allow_revoting => \E vote, n : n # 0 /\ Gains(p, q, vote, n)

\* A call in block h makes q of p.
Moves(p, q, h) ==
    \/ q = p
    \/ \E st : q = [p EXCEPT !.status = st] /\ Ends(PM!MC!current_status(p, h), st)
    \/ h < p.expiration /\ \E g : Voted(p, g) /\ q = PM!MC!update_status(g, h)

Moved(s, t, h) ==
    \A i \in DOMAIN s.proposals : i \in DOMAIN t.proposals /\ Moves(s.proposals[i], t.proposals[i], h)

LEMMA NoneMoves ==
    ASSUME NEW s, NEW t, t.proposals = s.proposals, NEW h
    PROVE  Moved(s, t, h)
  BY DEF Moved, Moves

LEMMA SettingsMoved ==
    ASSUME NEW s, NEW h, NEW u, Moved(s, u, h), NEW t \in Settings(u)
    PROVE  Moved(s, t, h)
  BY DEF Moved, Settings

LEMMA OneMoves ==
    ASSUME NEW s \in MultipleStore, NEW id \in DOMAIN s.proposals, NEW h,
           NEW q, Moves(s.proposals[id], q, h), NEW t, t.proposals = [s.proposals EXCEPT ![id] = q]
    PROVE  Moved(s, t, h)
  <1>1. \A i \in DOMAIN s.proposals : Moves(s.proposals[i], s.proposals[i], h)
    BY DEF Moves
  <1>2. \A i \in DOMAIN s.proposals :
            /\ i \in DOMAIN t.proposals
            /\ t.proposals[i] = IF i = id THEN q ELSE s.proposals[i]
    OBVIOUS
  <1> QED BY <1>1, <1>2, Zenon DEF Moved

----------------------------------------------------------------------------
(* dao-proposal-multiple: votes *)

\* A first vote does not unsettle a decision.
LEMMA VoteSettled ==
    ASSUME NEW p \in MultipleProposal, NEW q \in MultipleProposal, NEW w \in DOMAIN p.votes,
           NEW h \in Nat, Settled(p, w, h), h < p.expiration,
           NEW vote, NEW n, Gains(p, q, vote, n)
    PROVE  Settled(q, w, h)
  <1> DEFINE D == DOMAIN p.votes
             v == p.votes
             u == q.votes
             rest == p.total_power - PM!MC!total(v)
             left == p.total_power - PM!MC!total(u)
  <1>1. \A c \in D : v[c] \in Nat /\ u[c] \in Nat
    BY VotesType DEF Gains
  <1>2. /\ ~p.allow_revoting /\ p.choices[w].option_type # "none"
        /\ \A c \in D \ {w} : v[w] > v[c] + rest
    BY DEF Settled
  <1>3. rest \in Nat /\ left \in Nat /\ rest = left + n /\ n \in Nat
    BY DEF Gains
  <1>4. u[vote] = v[vote] + n /\ \A c \in D \ {vote} : u[c] = v[c]
    BY DEF Gains
  <1>5. vote \in D /\ w \in D
    BY DEF Gains
  <1> HIDE DEF D, v, u, rest, left
  <1>6. ASSUME NEW c \in D \ {w} PROVE u[w] > u[c] + left /\ u[c] < u[w]
    <2>1. v[w] > v[c] + rest /\ v[w] \in Nat /\ v[c] \in Nat
      BY <1>1, <1>2, <1>5
    <2>2. u[w] = v[w] \/ u[w] = v[w] + n
      BY <1>4, <1>5
    <2>3. CASE c = vote
      <3>1. u[c] = v[c] + n /\ u[w] = v[w]
        BY <1>4, <1>5, <2>3
      <3> QED BY <1>3, <2>1, <3>1
    <2>4. CASE c # vote
      <3>1. u[c] = v[c]
        BY <1>4, <2>4
      <3> QED BY <1>3, <2>1, <2>2, <3>1
    <2> QED BY <2>3, <2>4
  <1> QED BY <1>2, <1>6 DEF Settled, Leads, Gains, D, v, u, left

LEMMA VotedOK ==
    ASSUME NEW p \in MultipleProposal, NEW ballots \in [Addr -> Ballot], NEW ran, NEW h \in Nat,
           MultipleOK(p, ballots, ran, h), p.start_height \in Heights,
           NEW a \in Addr, NEW b \in Ballot, b.vote \in DOMAIN p.votes,
           b.power = PowerAt[p.start_height][a], b.power # 0, h < p.expiration,
           ballots[a] # PM!NoBallot => p.allow_revoting /\ b.vote # ballots[a].vote,
           NEW q, q = IF ballots[a] = PM!NoBallot THEN WithFirst(p, b) ELSE WithChanged(p, ballots[a], b)
    PROVE  /\ q \in MultipleProposal /\ MultipleOK(q, Balloted(ballots, a, b), ran, h)
           /\ Voted(p, q)
  <1> DEFINE bs == Balloted(ballots, a, b)
  <1>1. Counted(p, ballots)
    BY DEF MultipleOK
  <1>2. CASE ballots[a] # PM!NoBallot
    <2>1. q = WithChanged(p, ballots[a], b) /\ b.vote # ballots[a].vote
      BY <1>2
    <2>2. /\ q \in MultipleProposal /\ DOMAIN q.votes = DOMAIN p.votes /\ Counted(q, bs)
          /\ q.status = p.status /\ q.start_height = p.start_height
      BY <1>1, <1>2, <2>1, ChangedVote
    <2>3. p.status \notin Passed
      BY <1>2 DEF MultipleOK, Settled
    <2> HIDE DEF bs
    <2>4. MultipleOK(q, bs, ran, h)
      BY <2>2, <2>3 DEF MultipleOK, Passed
    <2>5. q = [p EXCEPT !.votes = q.votes]
      BY <2>1, VotesType DEF WithChanged, MultipleProposal, MultipleRecord
    <2>6. p.allow_revoting
      BY <1>2
    <2>7. Voted(p, q)
      BY <2>2, <2>5, <2>6 DEF Voted
    <2> QED BY <2>2, <2>4, <2>7 DEF bs
  <1>3. CASE ballots[a] = PM!NoBallot
    <2>1. q = WithFirst(p, b)
      BY <1>3
    <2>2. q \in MultipleProposal /\ Counted(q, bs) /\ Gains(p, q, b.vote, b.power)
      BY <1>1, <1>3, <2>1, FirstVote
    <2>3. ASSUME NEW w \in DOMAIN p.votes, Settled(p, w, h) PROVE Settled(q, w, h)
      BY <2>2, <2>3, VoteSettled
    <2> HIDE DEF bs
    <2>4. q.status \in Passed => \E w \in DOMAIN q.votes : Settled(q, w, h)
      BY <2>2, <2>3 DEF MultipleOK, Gains
    <2>5. ASSUME q.status = "executed", NEW x \in DOMAIN q.votes, Leads(q, x)
          PROVE  ran = IF q.choices[x].msgs = <<>> THEN <<>> ELSE <<x>>
      <3>1. p.status = "executed" /\ q.choices = p.choices /\ DOMAIN q.votes = DOMAIN p.votes
        BY <2>2, <2>5 DEF Gains
      <3>2. PICK w \in DOMAIN p.votes : Settled(p, w, h)
        BY <3>1 DEF MultipleOK, Passed
      <3>3. Leads(p, w) /\ Leads(q, w)
        BY <2>3, <3>2 DEF Settled
      <3>4. x = w
        BY <2>2, <2>5, <3>1, <3>3, LeaderAlone
      <3> QED BY <3>1, <3>3, <3>4 DEF MultipleOK
    <2>6. q.status # "executed" => ran = <<>>
      BY <2>2 DEF MultipleOK, Gains
    <2>7. q.start_height <= h
      BY <2>2 DEF MultipleOK, Gains
    <2>8. MultipleOK(q, bs, ran, h)
      BY <2>2, <2>4, <2>5, <2>6, <2>7, Zenon DEF MultipleOK
    <2>9. q = [p EXCEPT !.votes = q.votes]
      BY <2>1 DEF WithFirst, MultipleProposal, MultipleRecord
    <2>10. Voted(p, q)
      BY <2>2, <2>9 DEF Voted
    <2> QED BY <2>2, <2>8, <2>10 DEF bs
  <1> QED BY <1>2, <1>3

----------------------------------------------------------------------------
(* dao-proposal-multiple: the storage *)

\* s with another proposal, other ballots or another list of runs at id.
Replaced(s, id, p, ballots, ran) ==
    [s EXCEPT !.proposals[id] = p, !.ballots[id] = ballots, !.ran[id] = ran]

\* s with one more proposal.
Appended(s, p, ballots) ==
    [s EXCEPT !.proposals = Append(@, p), !.ballots = Append(@, ballots), !.ran = Append(@, <<>>)]

LEMMA SettingsInv ==
    ASSUME NEW s, NEW h, MultipleInv(s, h), NEW t \in Settings(s)
    PROVE  MultipleInv(t, h)
  BY DEF MultipleInv, Settings

LEMMA StoreAt ==
    ASSUME NEW s \in MultipleStore, NEW id \in DOMAIN s.proposals,
           DOMAIN s.ballots = DOMAIN s.proposals, DOMAIN s.ran = DOMAIN s.proposals
    PROVE  /\ s.proposals[id] \in MultipleProposal /\ s.ballots[id] \in [Addr -> Ballot]
           /\ s.ran[id] \in Seq(Nat) /\ id \in Nat
           /\ s.proposals \in Seq(MultipleProposal) /\ s.ballots \in Seq([Addr -> Ballot])
           /\ s.ran \in Seq(Seq(Nat))
  <1>1. /\ s.proposals \in Seq(MultipleProposal) /\ s.ballots \in Seq([Addr -> Ballot])
        /\ s.ran \in Seq(Seq(Nat))
    BY DEF MultipleStore
  <1> QED BY <1>1

LEMMA ReplacedInv ==
    ASSUME NEW s, NEW h, MultipleInv(s, h), NEW id \in DOMAIN s.proposals,
           NEW p \in MultipleProposal, NEW ballots \in [Addr -> Ballot], NEW ran \in Seq(Nat),
           MultipleOK(p, ballots, ran, h)
    PROVE  MultipleInv(Replaced(s, id, p, ballots, ran), h)
  <1> DEFINE ps == [s.proposals EXCEPT ![id] = p]
             bs == [s.ballots EXCEPT ![id] = ballots]
             rs == [s.ran EXCEPT ![id] = ran]
             t == [s EXCEPT !.proposals = ps, !.ballots = bs, !.ran = rs]
  <1>1. s \in MultipleStore /\ DOMAIN s.ballots = DOMAIN s.proposals /\ DOMAIN s.ran = DOMAIN s.proposals
    BY DEF MultipleInv
  <1>2. /\ s.proposals \in Seq(MultipleProposal) /\ s.ballots \in Seq([Addr -> Ballot])
        /\ s.ran \in Seq(Seq(Nat))
    BY <1>1 DEF MultipleStore
  <1>3. /\ ps \in Seq(MultipleProposal) /\ DOMAIN ps = DOMAIN s.proposals /\ ps[id] = p
        /\ \A j \in DOMAIN s.proposals \ {id} : ps[j] = s.proposals[j]
    BY <1>2, SeqExcept
  <1>4. /\ bs \in Seq([Addr -> Ballot]) /\ DOMAIN bs = DOMAIN s.ballots /\ bs[id] = ballots
        /\ \A j \in DOMAIN s.ballots \ {id} : bs[j] = s.ballots[j]
    BY <1>1, <1>2, SeqExcept
  <1>5. /\ rs \in Seq(Seq(Nat)) /\ DOMAIN rs = DOMAIN s.ran /\ rs[id] = ran
        /\ \A j \in DOMAIN s.ran \ {id} : rs[j] = s.ran[j]
    BY <1>1, <1>2, SeqExcept
  <1>6. t = Replaced(s, id, p, ballots, ran)
    BY DEF Replaced
  <1> HIDE DEF ps, bs, rs
  <1>7. t \in MultipleStore /\ t.proposals = ps /\ t.ballots = bs /\ t.ran = rs
    BY <1>1, <1>3, <1>4, <1>5 DEF MultipleStore
  <1> HIDE DEF t
  <1>8. ASSUME NEW j \in DOMAIN ps PROVE MultipleOK(ps[j], bs[j], rs[j], h)
    <2>1. CASE j = id
      BY <2>1, <1>3, <1>4, <1>5
    <2>2. CASE j # id
      <3>1. j \in DOMAIN s.proposals /\ ps[j] = s.proposals[j] /\ bs[j] = s.ballots[j] /\ rs[j] = s.ran[j]
        BY <1>1, <1>3, <1>4, <1>5, <2>2
      <3> QED BY <3>1 DEF MultipleInv
    <2> QED BY <2>1, <2>2
  <1>9. MultipleInv(t, h)
    BY <1>1, <1>3, <1>4, <1>5, <1>7, <1>8 DEF MultipleInv
  <1> QED BY <1>6, <1>9

LEMMA AppendedInv ==
    ASSUME NEW s, NEW h, MultipleInv(s, h),
           NEW p \in MultipleProposal, NEW ballots \in [Addr -> Ballot], MultipleOK(p, ballots, <<>>, h),
           NEW t, t = Appended(s, p, ballots)
    PROVE  /\ MultipleInv(t, h)
           /\ DOMAIN t.proposals = DOMAIN s.proposals \cup {Len(s.proposals) + 1}
           /\ t.proposals[Len(s.proposals) + 1] = p /\ t.ballots[Len(s.proposals) + 1] = ballots
           /\ t.ran[Len(s.proposals) + 1] = <<>>
           /\ t.vote_hooks = s.vote_hooks /\ t.proposal_hooks = s.proposal_hooks
           /\ \A j \in DOMAIN s.proposals : t.proposals[j] = s.proposals[j]
  <1> DEFINE ps == Append(s.proposals, p)
             bs == Append(s.ballots, ballots)
             rs == Append(s.ran, <<>>)
             n == Len(s.proposals) + 1
  <1>1. s \in MultipleStore /\ DOMAIN s.ballots = DOMAIN s.proposals /\ DOMAIN s.ran = DOMAIN s.proposals
    BY DEF MultipleInv
  <1>2. /\ s.proposals \in Seq(MultipleProposal) /\ s.ballots \in Seq([Addr -> Ballot])
        /\ s.ran \in Seq(Seq(Nat)) /\ <<>> \in Seq(Nat)
    BY <1>1 DEF MultipleStore
  <1>3. Len(s.ballots) + 1 = n /\ Len(s.ran) + 1 = n
    BY <1>1, <1>2
  <1>4. /\ ps \in Seq(MultipleProposal) /\ DOMAIN ps = DOMAIN s.proposals \cup {n} /\ ps[n] = p
        /\ \A j \in DOMAIN s.proposals : ps[j] = s.proposals[j]
    BY <1>2, SeqAppend
  <1>5. /\ bs \in Seq([Addr -> Ballot]) /\ DOMAIN bs = DOMAIN s.ballots \cup {n} /\ bs[n] = ballots
        /\ \A j \in DOMAIN s.ballots : bs[j] = s.ballots[j]
    BY <1>2, <1>3, SeqAppend
  <1>6. /\ rs \in Seq(Seq(Nat)) /\ DOMAIN rs = DOMAIN s.ran \cup {n} /\ rs[n] = <<>>
        /\ \A j \in DOMAIN s.ran : rs[j] = s.ran[j]
    BY <1>2, <1>3, SeqAppend
  <1> HIDE DEF ps, bs, rs
  <1>7. t = [s EXCEPT !.proposals = ps, !.ballots = bs, !.ran = rs]
    BY DEF ps, bs, rs, Appended
  <1>8. /\ t \in MultipleStore /\ t.proposals = ps /\ t.ballots = bs /\ t.ran = rs
        /\ t.vote_hooks = s.vote_hooks /\ t.proposal_hooks = s.proposal_hooks
    BY <1>1, <1>4, <1>5, <1>6, <1>7 DEF MultipleStore
  <1> HIDE DEF n
  <1>9. ASSUME NEW j \in DOMAIN ps PROVE MultipleOK(ps[j], bs[j], rs[j], h)
    <2>1. CASE j = n
      BY <2>1, <1>4, <1>5, <1>6
    <2>2. CASE j # n
      <3>1. j \in DOMAIN s.proposals /\ ps[j] = s.proposals[j] /\ bs[j] = s.ballots[j] /\ rs[j] = s.ran[j]
        BY <1>1, <1>4, <1>5, <1>6, <2>2
      <3> QED BY <3>1 DEF MultipleInv
    <2> QED BY <2>1, <2>2
  <1>10. MultipleInv(t, h)
    BY <1>1, <1>4, <1>5, <1>6, <1>8, <1>9 DEF MultipleInv
  <1> QED BY <1>4, <1>5, <1>6, <1>8, <1>10 DEF n

LEMMA StartInHeights ==
    ASSUME NEW p \in MultipleProposal, NEW ballots, NEW ran, NEW h \in 0 .. MaxHeight["multiple"],
           MultipleOK(p, ballots, ran, h)
    PROVE  p.start_height \in Heights /\ h \in Nat
  <1>1. MaxHeight["multiple"] \in Nat /\ "multiple" \in Kinds
    BY ChoiceAssumption DEF Kinds
  <1>2. p.start_height \in Nat /\ p.start_height <= h
    BY DEF MultipleOK, MultipleProposal, MultipleRecord
  <1>3. p.start_height \in 0 .. MaxHeight["multiple"]
    BY <1>1, <1>2
  <1> QED BY <1>1, <1>3, HeightsReached

\* What execute_vote saves.
LEMMA AfterVoteInv ==
    ASSUME NEW s, NEW h \in 0 .. MaxHeight["multiple"], MultipleInv(s, h), NEW id \in DOMAIN s.proposals,
           NEW a \in Addr, NEW vote, NEW r \in Rationales \cup {"none"}, PM!CanVote(s, h, a, id, vote)
    PROVE  /\ MultipleInv(PM!AfterVote(s, h, a, id, vote, r), h)
           /\ Moved(s, PM!AfterVote(s, h, a, id, vote, r), h)
  <1> DEFINE p == s.proposals[id]
             bs == s.ballots[id]
             b == [vote |-> vote, rationale |-> r, power |-> PowerAt[p.start_height][a]]
             q == IF bs[a] = PM!NoBallot THEN WithFirst(p, b) ELSE WithChanged(p, bs[a], b)
             u == PM!MC!update_status(q, h)
  <1>1. s \in MultipleStore /\ DOMAIN s.ballots = DOMAIN s.proposals /\ DOMAIN s.ran = DOMAIN s.proposals
        /\ MultipleOK(p, bs, s.ran[id], h)
    BY DEF MultipleInv
  <1>2. /\ p \in MultipleProposal /\ bs \in [Addr -> Ballot] /\ s.ran[id] \in Seq(Nat)
        /\ s.proposals \in Seq(MultipleProposal) /\ s.ballots \in Seq([Addr -> Ballot])
        /\ s.ran \in Seq(Seq(Nat))
    BY <1>1, StoreAt
  <1>3. p.start_height \in Heights /\ h \in Nat
    BY <1>1, <1>2, StartInHeights
  <1>4. PowerAt[p.start_height][a] \in Nat
    BY <1>3 DEF Heights
  <1>5. vote \in DOMAIN p.votes /\ vote \in Nat
    <2>1. DOMAIN p.choices = DOMAIN p.votes
      BY <1>1 DEF MultipleOK, Counted
    <2>2. DOMAIN p.votes \in SUBSET Nat
      BY <1>2, VotesType
    <2> QED BY <2>1, <2>2 DEF PM!CanVote
  <1>6. b \in Ballot /\ b.vote = vote /\ b.power = PowerAt[p.start_height][a] /\ b.power # 0
    BY <1>4, <1>5 DEF Ballot, PM!CanVote
  <1>7. h < p.expiration
    <2>1. p.expiration \in Nat
      BY <1>2 DEF MultipleProposal, MultipleRecord
    <2> QED BY <1>3, <2>1 DEF PM!CanVote, PM!MC!V!is_expired
  <1>8. bs[a] # PM!NoBallot => p.allow_revoting /\ b.vote # bs[a].vote
    BY <1>6 DEF PM!CanVote
  <1>9. u = PM!WithVote(s, h, a, id, vote)
    BY Zenon DEF PM!WithVote, WithFirst, WithChanged
  <1> DEFINE t == [s EXCEPT !.proposals = [s.proposals EXCEPT ![id] = u],
                            !.ballots = [s.ballots EXCEPT ![id] = Balloted(bs, a, b)]]
  <1>10. PM!AfterVote(s, h, a, id, vote, r) = t
    BY <1>9 DEF PM!AfterVote, Balloted
  <1>11. Balloted(bs, a, b) \in [Addr -> Ballot]
    BY <1>2, <1>6 DEF Balloted
  <1> HIDE DEF b, p, bs
  <1>12. /\ q \in MultipleProposal /\ MultipleOK(q, Balloted(bs, a, b), s.ran[id], h)
         /\ Voted(p, q)
    BY <1>1, <1>2, <1>3, <1>5, <1>6, <1>7, <1>8, VotedOK
  <1> HIDE DEF q
  <1>16. Moves(p, u, h)
    BY <1>7, <1>12 DEF Moves
  <1>13. u \in MultipleProposal /\ MultipleOK(u, Balloted(bs, a, b), s.ran[id], h)
    BY <1>3, <1>12, UpdatedOK
  <1> HIDE DEF u
  <1>14. MultipleInv(Replaced(s, id, u, Balloted(bs, a, b), s.ran[id]), h)
    BY <1>2, <1>11, <1>13, ReplacedInv
  <1>15. Replaced(s, id, u, Balloted(bs, a, b), s.ran[id]) = t
    <2>1. [s.ran EXCEPT ![id] = s.ran[id]] = s.ran
      BY <1>1, <1>2, SeqSame
    <2> QED BY <1>1, <2>1 DEF Replaced, MultipleStore
  <1>17. t.proposals = [s.proposals EXCEPT ![id] = u]
    BY <1>1 DEF MultipleStore
  <1> HIDE DEF t
  <1>18. Moved(s, t, h)
    BY <1>1, <1>16, <1>17, OneMoves DEF p
  <1> QED BY <1>10, <1>14, <1>15, <1>18

LEMMA VoteInv ==
    ASSUME NEW s, NEW h \in 0 .. MaxHeight["multiple"], MultipleInv(s, h), NEW id \in DOMAIN s.proposals,
           NEW a \in Addr, NEW vote, NEW r \in Rationales, NEW t \in PM!execute_vote(s, h, a, id, vote, r)
    PROVE  MultipleInv(t, h) /\ Moved(s, t, h)
  <1> DEFINE u == PM!AfterVote(s, h, a, id, vote, r)
             msgs == PM!VoteMsgs(s, h, a, id, vote)
  <1>1. PM!CanVote(s, h, a, id, vote) /\ t \in PM!Transaction(u, msgs)
    BY DEF PM!execute_vote
  <1>2. MultipleInv(u, h) /\ Moved(s, u, h)
    BY <1>1, AfterVoteInv
  <1>3. msgs \in Seq(HookMessage)
    <2>1. s \in MultipleStore
      BY DEF MultipleInv
    <2> QED BY <2>1, HookMessages DEF PM!VoteMsgs
  <1> HIDE DEF u, msgs
  <1>4. t \in Settings(u)
    BY <1>1, <1>2, <1>3, HooksDelivered DEF MultipleInv
  <1> QED BY <1>2, <1>4, SettingsInv, SettingsMoved

LEMMA RationaleInv ==
    ASSUME NEW s, NEW h, MultipleInv(s, h), NEW id \in DOMAIN s.proposals,
           NEW a \in Addr, NEW r \in Rationales, NEW t \in PM!execute_update_rationale(s, a, id, r)
    PROVE  MultipleInv(t, h) /\ Moved(s, t, h)
  <1> DEFINE p == s.proposals[id]
             bs == s.ballots[id]
             b == [bs[a] EXCEPT !.rationale = r]
             cs == [bs EXCEPT ![a] = b]
  <1>1. s \in MultipleStore /\ DOMAIN s.ballots = DOMAIN s.proposals /\ DOMAIN s.ran = DOMAIN s.proposals
        /\ MultipleOK(p, bs, s.ran[id], h)
    BY DEF MultipleInv
  <1>2. /\ p \in MultipleProposal /\ bs \in [Addr -> Ballot] /\ s.ran[id] \in Seq(Nat)
        /\ s.proposals \in Seq(MultipleProposal) /\ s.ballots \in Seq([Addr -> Ballot])
        /\ s.ran \in Seq(Seq(Nat))
    BY <1>1, StoreAt
  <1>3. bs[a] # PM!NoBallot
    BY DEF PM!execute_update_rationale
  <1>4. t = [s EXCEPT !.ballots = [s.ballots EXCEPT ![id] = cs]]
    BY <1>3 DEF PM!execute_update_rationale
  <1>5. b \in Ballot /\ b.vote = bs[a].vote /\ b.power = bs[a].power /\ b # PM!NoBallot
    <2>1. bs[a] \in [vote : Nat, power : Nat, rationale : Rationales \cup {"none"}]
      BY <1>2, <1>3 DEF Ballot
    <2>2. /\ b \in [vote : Nat, power : Nat, rationale : Rationales \cup {"none"}]
          /\ b.vote = bs[a].vote /\ b.power = bs[a].power /\ b.vote \in Nat
      BY <2>1
    <2> HIDE DEF b, bs
    <2>3. b # PM!NoBallot
      BY <2>2 DEF PM!NoBallot
    <2> QED BY <2>2, <2>3 DEF Ballot
  <1> HIDE DEF b
  <1>6. cs \in [Addr -> Ballot]
    BY <1>2, <1>5
  <1>7. \A x \in Addr : /\ cs[x].vote = bs[x].vote /\ cs[x].power = bs[x].power
                        /\ cs[x] = PM!NoBallot <=> bs[x] = PM!NoBallot
    BY <1>2, <1>3, <1>5
  <1> HIDE DEF cs
  <1>8. Counted(p, cs)
    <2>1. \A c : {x \in Addr : cs[x].vote = c} = {x \in Addr : bs[x].vote = c}
      BY <1>7
    <2>2. {x \in Addr : cs[x] = PM!NoBallot} = {x \in Addr : bs[x] = PM!NoBallot}
      BY <1>7
    <2>3. Counted(p, bs)
      BY <1>1 DEF MultipleOK
    <2> QED BY <1>7, <2>1, <2>2, <2>3 DEF Counted
  <1>9. MultipleOK(p, cs, s.ran[id], h)
    BY <1>1, <1>8 DEF MultipleOK
  <1>10. MultipleInv(Replaced(s, id, p, cs, s.ran[id]), h)
    BY <1>2, <1>6, <1>9, ReplacedInv
  <1>11. Replaced(s, id, p, cs, s.ran[id]) = t
    <2>1. [s.ran EXCEPT ![id] = s.ran[id]] = s.ran /\ [s.proposals EXCEPT ![id] = s.proposals[id]] = s.proposals
      BY <1>1, <1>2, SeqSame
    <2> QED BY <1>1, <1>4, <2>1 DEF Replaced, MultipleStore
  <1>12. Moved(s, t, h)
    <2>1. t.proposals = s.proposals
      BY <1>1, <1>4 DEF MultipleStore
    <2> QED BY <2>1, NoneMoves
  <1> QED BY <1>10, <1>11, <1>12

\* A proposal ends without executing anything.
LEMMA EndedInv ==
    ASSUME NEW s, NEW h \in 0 .. MaxHeight["multiple"], MultipleInv(s, h), NEW id \in DOMAIN s.proposals,
           NEW p, p = PM!MC!update_status(s.proposals[id], h),
           NEW st \in {"vetoed", "closed"}, Ends(p.status, st),
           NEW t \in PM!Completed(s, id, p, st, <<>>)
    PROVE  MultipleInv(t, h) /\ Moved(s, t, h)
  <1> DEFINE q == [p EXCEPT !.status = st]
             ran == s.ran[id]
             bs == s.ballots[id]
             saved == [s EXCEPT !.proposals[id] = q]
             msgs == <<>> \o PM!proposal_status_changed_hooks(s, p.status, st)
                          \o PM!proposal_completed_hooks(s)
  <1>1. s \in MultipleStore /\ DOMAIN s.ballots = DOMAIN s.proposals /\ DOMAIN s.ran = DOMAIN s.proposals
        /\ MultipleOK(s.proposals[id], bs, ran, h)
    BY DEF MultipleInv
  <1>2. /\ s.proposals[id] \in MultipleProposal /\ bs \in [Addr -> Ballot] /\ ran \in Seq(Nat)
        /\ s.proposals \in Seq(MultipleProposal) /\ s.ballots \in Seq([Addr -> Ballot])
        /\ s.ran \in Seq(Seq(Nat))
    BY <1>1, StoreAt
  <1>3. h \in Nat
    BY <1>1, <1>2, StartInHeights
  <1>4. p \in MultipleProposal /\ MultipleOK(p, bs, ran, h)
    BY <1>1, <1>2, <1>3, UpdatedOK
  <1>5. ran = <<>>
    BY <1>4 DEF MultipleOK, Ends
  <1>6. st \in PM!MC!V!Status /\ st # "executed" /\ st \notin Passed
    BY DEF PM!MC!V!Status, Passed
  <1>7. /\ q \in MultipleProposal /\ q.status = st /\ q.start_height = p.start_height
        /\ \A cs : Counted(p, cs) => Counted(q, cs)
    BY <1>4, <1>6, OnlyStatus
  <1>14. Moves(s.proposals[id], q, h)
    <2>1. p.status = PM!MC!current_status(s.proposals[id], h) /\ q = [s.proposals[id] EXCEPT !.status = st]
      BY <1>2 DEF PM!MC!update_status, MultipleProposal, MultipleRecord
    <2> QED BY <2>1 DEF Moves
  <1>15. saved.proposals = [s.proposals EXCEPT ![id] = q]
    BY <1>1 DEF MultipleStore
  <1> HIDE DEF q
  <1>8. MultipleOK(q, bs, ran, h)
    BY <1>4, <1>5, <1>6, <1>7 DEF MultipleOK
  <1>9. MultipleInv(Replaced(s, id, q, bs, ran), h)
    BY <1>2, <1>7, <1>8, ReplacedInv
  <1>10. Replaced(s, id, q, bs, ran) = saved
    <2>1. [s.ran EXCEPT ![id] = s.ran[id]] = s.ran /\ [s.ballots EXCEPT ![id] = s.ballots[id]] = s.ballots
      BY <1>1, <1>2, SeqSame
    <2> QED BY <1>1, <2>1 DEF Replaced, MultipleStore
  <1>11. t \in PM!Transaction(saved, msgs)
    BY DEF PM!Completed, q
  <1>12. msgs \in Seq(HookMessage)
    <2>1. <<>> \in Seq(HookMessage)
      OBVIOUS
    <2> QED BY <1>1, <2>1, HookMessages
  <1> HIDE DEF saved, msgs
  <1>13. t \in Settings(saved)
    BY <1>9, <1>10, <1>11, <1>12, HooksDelivered DEF MultipleInv
  <1>16. Moved(s, saved, h)
    BY <1>1, <1>14, <1>15, OneMoves
  <1> QED BY <1>9, <1>10, <1>13, <1>16, SettingsInv, SettingsMoved

LEMMA VetoInv ==
    ASSUME NEW s, NEW h \in 0 .. MaxHeight["multiple"], MultipleInv(s, h), NEW id \in DOMAIN s.proposals,
           NEW a, NEW t \in PM!execute_veto(s, h, a, id)
    PROVE  MultipleInv(t, h) /\ Moved(s, t, h)
  <1> DEFINE p == PM!MC!update_status(s.proposals[id], h)
  <1>1. Ends(p.status, "vetoed") /\ t \in PM!Completed(s, id, p, "vetoed", <<>>)
    BY DEF PM!execute_veto, Ends
  <1> HIDE DEF p
  <1> QED BY <1>1, EndedInv DEF p

LEMMA CloseInv ==
    ASSUME NEW s, NEW h \in 0 .. MaxHeight["multiple"], MultipleInv(s, h), NEW id \in DOMAIN s.proposals,
           NEW t \in PM!execute_close(s, h, id)
    PROVE  MultipleInv(t, h) /\ Moved(s, t, h)
  <1> DEFINE p == PM!MC!update_status(s.proposals[id], h)
  <1>1. Ends(p.status, "closed") /\ t \in PM!Completed(s, id, p, "closed", <<>>)
    BY DEF PM!execute_close, Ends
  <1> HIDE DEF p
  <1> QED BY <1>1, EndedInv DEF p

\* The elected choice's messages are run once, or the proposal fails.
LEMMA ExecuteInv ==
    ASSUME NEW s, NEW h \in 0 .. MaxHeight["multiple"], MultipleInv(s, h), NEW id \in DOMAIN s.proposals,
           NEW a, NEW t \in PM!execute_execute(s, h, a, id)
    PROVE  MultipleInv(t, h) /\ Moved(s, t, h)
  <1> DEFINE p == PM!MC!update_status(s.proposals[id], h)
             q == [p EXCEPT !.status = "executed"]
             ran == s.ran[id]
             bs == s.ballots[id]
             saved == [s EXCEPT !.proposals[id] = q]
             hooks == PM!proposal_status_changed_hooks(s, p.status, "executed")
                          \o PM!proposal_completed_hooks(s)
             runs == PM!ExecutionMsgs(s, id, p)
             old == PM!proposal_status_changed_hooks(s, p.status, "executed")
             done == PM!proposal_completed_hooks(s)
  <1>1. s \in MultipleStore /\ DOMAIN s.ballots = DOMAIN s.proposals /\ DOMAIN s.ran = DOMAIN s.proposals
        /\ MultipleOK(s.proposals[id], bs, ran, h)
    BY DEF MultipleInv
  <1>2. /\ s.proposals[id] \in MultipleProposal /\ bs \in [Addr -> Ballot] /\ ran \in Seq(Nat)
        /\ s.proposals \in Seq(MultipleProposal) /\ s.ballots \in Seq([Addr -> Ballot])
        /\ s.ran \in Seq(Seq(Nat)) /\ id \in Nat
    BY <1>1, StoreAt
  <1>3. h \in Nat
    BY <1>1, <1>2, StartInHeights
  <1>4. p \in MultipleProposal /\ MultipleOK(p, bs, ran, h)
    BY <1>1, <1>2, <1>3, UpdatedOK
  <1>5. p.status \in {"passed", "veto_timelock"} /\ t \in PM!Completed(s, id, p, "executed", runs)
    BY DEF PM!execute_execute
  <1> HIDE DEF p
  <1>6. ran = <<>>
    BY <1>4, <1>5 DEF MultipleOK
  <1>7. PICK w \in DOMAIN p.votes : Settled(p, w, h)
    BY <1>4, <1>5 DEF MultipleOK, Passed
  <1>8. /\ PM!MC!calculate_vote_result(p) = {w} /\ w \in Nat /\ Leads(p, w)
        /\ \A x \in DOMAIN p.votes : Leads(p, x) => x = w
    <2>1. Leads(p, w)
      BY <1>7 DEF Settled
    <2> QED BY <1>4, <2>1, LeaderAlone, VotesType
  <1>9. w = CHOOSE x \in PM!MC!calculate_vote_result(p) : TRUE
    BY <1>8
  <1> DEFINE body == [id |-> id, choice |-> w, msgs |-> p.choices[w].msgs]
             m == IF s.config.close_proposal_on_execution_failure
                  THEN PM!MsgReplyOnError(Dao, body, PM!mask_proposal_execution_proposal_id(id))
                  ELSE PM!Msg(Dao, body)
  <1>10. runs = IF p.choices[w].msgs = <<>> THEN <<>> ELSE <<m>>
    BY <1>9 DEF PM!ExecutionMsgs
  <1>11. p.choices[w].msgs \in Seq(PM!Call)
    <2>1. w \in DOMAIN p.choices
      BY <1>4 DEF MultipleOK, Counted
    <2>2. PICK n : p.choices \in [0 .. n -> Choice]
      BY <1>4 DEF MultipleProposal, MultipleRecord, ByChoice
    <2>3. p.choices[w] \in Choice
      BY <2>1, <2>2
    <2> QED BY <2>3 DEF Choice
  <1>12. m \in ExecutionMessage(id) /\ m.body = body
    <2>1. PM!mask_proposal_execution_proposal_id(id) \in Nat
      BY <1>2, MaskedIds
    <2>2. body \in [id : {id}, choice : Nat, msgs : Seq(PM!Call)]
      BY <1>8, <1>11
    <2> HIDE DEF body
    <2> QED BY <2>1, <2>2 DEF PM!MsgReplyOnError, PM!Msg, ExecutionMessage, PM!NoReply
  <1>13. body.choice = w
    OBVIOUS
  <1> HIDE DEF m, body
  <1>14. "executed" \in PM!MC!V!Status /\ "execution_failed" \in PM!MC!V!Status
    BY DEF PM!MC!V!Status
  <1>15. /\ q \in MultipleProposal /\ q.status = "executed" /\ q.start_height = p.start_height
         /\ q.votes = p.votes /\ q.choices = p.choices
         /\ \A cs : Counted(p, cs) => Counted(q, cs)
         /\ \A x : Leads(q, x) <=> Leads(p, x)
         /\ \A x, k : Settled(p, x, k) => Settled(q, x, k)
    BY <1>4, <1>14, OnlyStatus
  <1>22. q = [s.proposals[id] EXCEPT !.status = "executed"]
         /\ p.status = PM!MC!current_status(s.proposals[id], h)
    BY <1>2 DEF PM!MC!update_status, MultipleProposal, MultipleRecord, p
  <1>23. Moves(s.proposals[id], q, h)
    BY <1>5, <1>22 DEF Moves, Ends
  <1> HIDE DEF q
  <1>16. ASSUME NEW rs, rs = IF p.choices[w].msgs = <<>> THEN <<>> ELSE <<w>>
         PROVE  MultipleOK(q, bs, rs, h)
    BY <1>4, <1>7, <1>8, <1>15, <1>16 DEF MultipleOK
  <1>17. /\ saved \in MultipleStore /\ saved.proposals = [s.proposals EXCEPT ![id] = q]
         /\ DOMAIN saved.proposals = DOMAIN s.proposals /\ DOMAIN saved.ran = DOMAIN saved.proposals
         /\ saved.ballots = s.ballots /\ saved.ran = s.ran
    <2>1. [s.proposals EXCEPT ![id] = q] \in Seq(MultipleProposal)
          /\ DOMAIN [s.proposals EXCEPT ![id] = q] = DOMAIN s.proposals
      BY <1>2, <1>15, SeqExcept
    <2> QED BY <1>1, <2>1 DEF MultipleStore
  <1>24. Moved(s, saved, h)
    BY <1>1, <1>17, <1>23, OneMoves
  <1>18. t \in PM!Transaction(saved, runs \o old \o done)
    BY <1>5 DEF PM!Completed, q
  <1>19. /\ old \in Seq(HookMessage) /\ done \in Seq(HookMessage) /\ hooks = old \o done
         /\ hooks \in Seq(HookMessage)
    BY <1>1, HookMessages
  <1> HIDE DEF saved, old, done, runs, hooks
  <1>20. CASE p.choices[w].msgs = <<>>
    <2>1. runs \o old \o done = hooks
      BY <1>10, <1>19, <1>20
    <2>2. t \in Settings(saved)
      BY <1>17, <1>18, <1>19, <2>1, HooksDelivered
    <2>3. MultipleInv(Replaced(s, id, q, bs, ran), h)
      BY <1>2, <1>6, <1>15, <1>16, <1>20, ReplacedInv
    <2>4. Replaced(s, id, q, bs, ran) = saved
      <3>1. [s.ran EXCEPT ![id] = s.ran[id]] = s.ran /\ [s.ballots EXCEPT ![id] = s.ballots[id]] = s.ballots
        BY <1>1, <1>2, SeqSame
      <3> QED BY <1>1, <3>1 DEF Replaced, MultipleStore, saved
    <2> QED BY <1>24, <2>2, <2>3, <2>4, SettingsInv, SettingsMoved
  <1>21. CASE p.choices[w].msgs # <<>>
    <2>1. runs \o old \o done = <<m>> \o hooks
      BY <1>10, <1>19, <1>21
    <2>2. \/ /\ Ran(saved, id, w) \in MultipleStore
             /\ t \in Settings(Ran(saved, id, w))
          \/ FailedAt(saved, id) \in MultipleStore /\ t \in Settings(FailedAt(saved, id))
      <3>1. t \in PM!Transaction(saved, <<m>> \o hooks) /\ id \in DOMAIN saved.proposals
        BY <1>17, <1>18, <2>1
      <3>2. m.body.choice = w
        BY <1>12, <1>13
      <3> QED BY <1>12, <1>17, <1>19, <3>1, <3>2, ExecutionThenHooks
    <2>3. CASE t \in Settings(Ran(saved, id, w))
      <3>1. <<w>> \in Seq(Nat)
        BY <1>8
      <3>2. MultipleInv(Replaced(s, id, q, bs, <<w>>), h)
        BY <1>2, <1>15, <1>16, <1>21, <3>1, ReplacedInv
      <3>3. Ran(saved, id, w) = Replaced(s, id, q, bs, <<w>>)
        <4>1. [s.ballots EXCEPT ![id] = s.ballots[id]] = s.ballots
          BY <1>1, <1>2, SeqSame
        <4>2. Append(ran, w) = <<w>>
          BY <1>6
        <4> QED BY <1>1, <4>1, <4>2 DEF Ran, Replaced, MultipleStore, saved
      <3>4. Moved(s, Ran(saved, id, w), h)
        <4>1. Ran(saved, id, w).proposals = saved.proposals
          BY <1>17 DEF Ran, MultipleStore
        <4> QED BY <1>24, <4>1 DEF Moved
      <3> QED BY <2>3, <3>2, <3>3, <3>4, SettingsInv, SettingsMoved
    <2>4. CASE t \in Settings(FailedAt(saved, id))
      <3> DEFINE f == [p EXCEPT !.status = "execution_failed"]
      <3>1. /\ f \in MultipleProposal /\ f.status = "execution_failed" /\ f.start_height = p.start_height
            /\ f.votes = p.votes
            /\ \A cs : Counted(p, cs) => Counted(f, cs)
            /\ \A x, k : Settled(p, x, k) => Settled(f, x, k)
        BY <1>4, <1>14, OnlyStatus
      <3>2. [q EXCEPT !.status = "execution_failed"] = f
        BY <1>4 DEF MultipleProposal, MultipleRecord, q
      <3> HIDE DEF f
      <3>3. MultipleOK(f, bs, ran, h)
        BY <1>4, <1>6, <1>7, <3>1 DEF MultipleOK, Passed
      <3>4. MultipleInv(Replaced(s, id, f, bs, ran), h)
        BY <1>2, <3>1, <3>3, ReplacedInv
      <3>5. FailedAt(saved, id) = Replaced(s, id, f, bs, ran)
        <4>1. [s.ran EXCEPT ![id] = s.ran[id]] = s.ran /\ [s.ballots EXCEPT ![id] = s.ballots[id]] = s.ballots
          BY <1>1, <1>2, SeqSame
        <4>2. FailedAt(saved, id) = [s EXCEPT !.proposals = [s.proposals EXCEPT ![id] = f]]
          BY <1>1, <1>2, <3>2 DEF FailedAt, MultipleStore, saved
        <4> QED BY <1>1, <4>1, <4>2 DEF Replaced, MultipleStore
      <3>6. Moved(s, FailedAt(saved, id), h)
        <4>1. FailedAt(saved, id).proposals = [s.proposals EXCEPT ![id] = f]
          BY <1>1, <1>2, <3>2 DEF FailedAt, MultipleStore, saved
        <4>2. f = [s.proposals[id] EXCEPT !.status = "execution_failed"]
          BY <1>2, <1>22, <3>2 DEF MultipleProposal, MultipleRecord
        <4>3. Moves(s.proposals[id], f, h)
          BY <1>5, <1>22, <4>2 DEF Moves, Ends
        <4> QED BY <1>1, <4>1, <4>3, OneMoves
      <3> QED BY <2>4, <3>4, <3>5, <3>6, SettingsInv, SettingsMoved
    <2> QED BY <2>2, <2>3, <2>4
  <1> QED BY <1>20, <1>21

LEMMA NewProposalOK ==
    ASSUME NEW s \in MultipleStore, NEW h \in 0 .. MaxHeight["multiple"],
           NEW options \in Seq(Seq(PM!Call)), PM!MC!valid_options(options),
           NEW p, p = PM!NewProposal(s, h, options)
    PROVE  p \in MultipleProposal /\ MultipleOK(p, [a \in Addr |-> PM!NoBallot], <<>>, h)
  <1> DEFINE n == Len(options)
             votes == PM!MC!zero(n + 1)
             choices == PM!MC!into_checked(options)
             power == PM!total_power(h)
             q == [start_height |-> h, min_voting_period |-> h + s.config.min_voting_period,
                   expiration |-> h + s.config.max_voting_period, quorum |-> s.config.quorum,
                   total_power |-> power, status |-> "open",
                   votes |-> votes, allow_revoting |-> s.config.allow_revoting,
                   choices |-> choices, veto |-> s.config.veto]
             bs == [a \in Addr |-> PM!NoBallot]
  <1>1. h \in Heights /\ h \in Nat
    BY ChoiceAssumption, HeightsReached DEF Kinds
  <1>2. n \in 2 .. PM!MC!MAX_NUM_CHOICES /\ n \in Nat
    BY DEF PM!MC!valid_options
  <1>3. votes = [i \in 0 .. n |-> 0] /\ DOMAIN votes = 0 .. n /\ \A i \in 0 .. n : votes[i] = 0
    BY <1>2 DEF PM!MC!zero
  <1>4. votes \in ByChoice(Nat)
    <2>1. votes \in [0 .. n -> Nat]
      BY <1>3
    <2> HIDE DEF n, votes
    <2> QED BY <1>2, <2>1 DEF ByChoice
  <1>5. choices \in ByChoice(Choice) /\ DOMAIN choices = 0 .. n
    <2>1. ASSUME NEW i \in 0 .. n
          PROVE  (IF i < n THEN [option_type |-> "standard", msgs |-> options[i + 1]]
                  ELSE [option_type |-> "none", msgs |-> <<>>]) \in Choice
      <3>1. CASE i < n
        <4>1. i + 1 \in DOMAIN options
          BY <1>2, <3>1
        <4>2. options[i + 1] \in Seq(PM!Call)
          BY <4>1
        <4> QED BY <3>1, <4>2 DEF Choice
      <3>2. CASE ~(i < n)
        <4>1. <<>> \in Seq(PM!Call)
          OBVIOUS
        <4> QED BY <3>2, <4>1 DEF Choice
      <3> QED BY <3>1, <3>2
    <2>2. choices \in [0 .. n -> Choice]
      BY <2>1 DEF PM!MC!into_checked
    <2> HIDE DEF n, choices
    <2> QED BY <1>2, <2>2 DEF ByChoice
  <1>6. power = PowerOf(h, Addr) /\ power \in Nat
    BY <1>1, TotalPowerMultiple, PowerType
  <1>7. /\ s.config.min_voting_period \in Nat /\ s.config.max_voting_period \in Nat
        /\ s.config.quorum \in PM!MC!V!PercentageThreshold /\ s.config.allow_revoting \in BOOLEAN
        /\ s.config.veto \in VetoOption
        /\ s.config.min_voting_period <= s.config.max_voting_period
    BY DEF MultipleStore, ValidConfigs, PM!Config, VetoOption, PM!ValidConfig,
           PM!MC!V!validate_voting_period
  <1>8. p = PM!MC!update_status(q, h)
    BY DEF PM!NewProposal
  <1>9. PM!MC!total(votes) = 0
    <2> DEFINE D == DOMAIN votes
    <2>1. PM!MC!total(votes) = SumOver(votes, D)
      BY TotalIsSum
    <2>2. IsFiniteSet(0 .. n)
      <3> HIDE DEF n
      <3> QED BY <1>2, FS_Interval
    <2>3. IsFiniteSet(D) /\ \A i \in D : votes[i] = 0
      BY <1>3, <2>2
    <2> HIDE DEF D, votes
    <2> QED BY <2>1, <2>3, SumZero
  <1> HIDE DEF n, votes, choices, power
  <1>10. q \in MultipleProposal
    <2>1. /\ h + s.config.min_voting_period \in Nat /\ h + s.config.max_voting_period \in Nat
          /\ h + s.config.min_voting_period <= h + s.config.max_voting_period
      BY <1>1, <1>7
    <2>2. "open" \in PM!MC!V!Status
      BY DEF PM!MC!V!Status
    <2> QED BY <1>1, <1>4, <1>5, <1>6, <1>7, <2>1, <2>2 DEF MultipleProposal, MultipleRecord
  <1>11. /\ q.start_height = h /\ q.total_power = power /\ q.votes = votes /\ q.choices = choices
         /\ q.status = "open"
    OBVIOUS
  <1> HIDE DEF q
  <1>12. Counted(q, bs)
    <2>1. \A c \in 0 .. n : {a \in Addr : bs[a].vote = c} = {}
      BY <1>2 DEF PM!NoBallot
    <2>2. {a \in Addr : bs[a] = PM!NoBallot} = Addr /\ \A a \in Addr : bs[a] = PM!NoBallot
      OBVIOUS
    <2> HIDE DEF bs
    <2>3. \A c \in 0 .. n : votes[c] = PowerOf(h, {a \in Addr : bs[a].vote = c})
      BY <1>3, <2>1, PowerOfNone
    <2>4. PM!MC!total(q.votes) + PowerOf(q.start_height, {a \in Addr : bs[a] = PM!NoBallot}) = q.total_power
      <3>1. q.votes = votes /\ q.start_height = h /\ q.total_power = power
        BY <1>11
      <3>2. PowerOf(q.start_height, {a \in Addr : bs[a] = PM!NoBallot}) = power
        BY <1>6, <2>2, <3>1, Zenon
      <3>3. PM!MC!total(q.votes) = 0
        BY <1>9, <3>1, Zenon
      <3> QED BY <1>6, <3>1, <3>2, <3>3
    <2>5. DOMAIN q.choices = DOMAIN q.votes /\ DOMAIN q.votes = 0 .. n
      BY <1>3, <1>5, <1>11
    <2>6. \A c \in DOMAIN q.votes : q.votes[c] = PowerOf(q.start_height, {a \in Addr : bs[a].vote = c})
      <3>1. SUFFICES ASSUME NEW c \in DOMAIN q.votes
                     PROVE  q.votes[c] = PowerOf(q.start_height, {a \in Addr : bs[a].vote = c})
        OBVIOUS
      <3>2. c \in 0 .. n /\ q.votes[c] = votes[c] /\ q.start_height = h
        BY <1>11, <2>5
      <3> QED BY <2>3, <3>2, Zenon
    <2> QED BY <2>2, <2>4, <2>5, <2>6 DEF Counted
  <1>13. MultipleOK(q, bs, <<>>, h)
    BY <1>1, <1>11, <1>12 DEF MultipleOK, Passed
  <1> QED BY <1>1, <1>8, <1>10, <1>13, UpdatedOK

LEMMA ProposeInv ==
    ASSUME NEW s, NEW h \in 0 .. MaxHeight["multiple"], MultipleInv(s, h),
           NEW a, NEW proposer \in Addr, NEW options \in Seq(Seq(PM!Call)), NEW votes,
           NEW t \in PM!execute_propose(s, h, a, proposer, options, votes)
    PROVE  MultipleInv(t, h) /\ Moved(s, t, h)
  <1> DEFINE id == Len(s.proposals) + 1
             p == PM!NewProposal(s, h, options)
             bs == [x \in Addr |-> PM!NoBallot]
             saved == [s EXCEPT !.proposals = Append(@, p), !.ballots = Append(@, bs),
                                !.ran = Append(@, <<>>)]
             told == PM!ProposalHookMsgs(s)
             after(vote) == PM!AfterVote(saved, h, proposer, id, vote, "none")
             msgs(vote) == PM!VoteMsgs(saved, h, proposer, id, vote)
  <1>1. /\ PM!MC!valid_options(options)
        /\ \A vote \in votes : PM!CanVote(saved, h, proposer, id, vote)
        /\ \/ t \in PM!Transaction(saved, told)
           \/ \E vote \in votes : t \in PM!Transaction(after(vote), told \o msgs(vote))
    BY DEF PM!execute_propose
  <1>2. s \in MultipleStore
    BY DEF MultipleInv
  <1>3. p \in MultipleProposal /\ MultipleOK(p, bs, <<>>, h)
    BY <1>1, <1>2, NewProposalOK
  <1>4. bs \in [Addr -> Ballot]
    BY DEF Ballot
  <1> HIDE DEF p, bs
  <1>5. saved = Appended(s, p, bs)
    BY DEF Appended
  <1> HIDE DEF saved
  <1>6. /\ MultipleInv(saved, h)
        /\ DOMAIN saved.proposals = DOMAIN s.proposals \cup {id}
        /\ saved.vote_hooks = s.vote_hooks /\ saved.proposal_hooks = s.proposal_hooks
        /\ \A j \in DOMAIN s.proposals : saved.proposals[j] = s.proposals[j]
    BY <1>3, <1>4, <1>5, AppendedInv
  <1>7. id \in DOMAIN saved.proposals
    BY <1>6
  <1>11. id \notin DOMAIN s.proposals
    BY <1>2 DEF MultipleStore
  <1>12. Moved(s, saved, h)
    BY <1>6 DEF Moved, Moves
  <1>8. told \in Seq(HookMessage)
    BY <1>2, HookMessages
  <1>9. CASE t \in PM!Transaction(saved, told)
    <2>1. t \in Settings(saved)
      BY <1>6, <1>8, <1>9, HooksDelivered DEF MultipleInv
    <2> QED BY <1>6, <1>12, <2>1, SettingsInv, SettingsMoved
  <1>10. CASE \E vote \in votes : t \in PM!Transaction(after(vote), told \o msgs(vote))
    <2>1. PICK vote \in votes : t \in PM!Transaction(after(vote), told \o msgs(vote))
      BY <1>10
    <2>2. PM!CanVote(saved, h, proposer, id, vote) /\ "none" \in Rationales \cup {"none"}
      BY <1>1, <2>1
    <2> HIDE DEF id
    <2>3. MultipleInv(after(vote), h)
      BY <1>6, <1>7, <2>2, AfterVoteInv
    <2>6. Moved(s, after(vote), h)
      <3> DEFINE ps == after(vote).proposals
      <3>1. ps = [saved.proposals EXCEPT ![id] = PM!WithVote(saved, h, proposer, id, vote)]
        BY <1>6 DEF PM!AfterVote, MultipleInv, MultipleStore
      <3>2. \A j \in DOMAIN s.proposals : j \in DOMAIN ps /\ ps[j] = s.proposals[j]
        BY <1>6, <1>11, <3>1
      <3> QED BY <3>2 DEF Moved, Moves
    <2>4. told \o msgs(vote) \in Seq(HookMessage)
      <3>1. saved \in MultipleStore
        BY <1>6 DEF MultipleInv
      <3>2. msgs(vote) \in Seq(HookMessage)
        BY <3>1, HookMessages DEF PM!VoteMsgs
      <3> HIDE DEF msgs, told
      <3> QED BY <1>8, <3>2
    <2> HIDE DEF after, msgs, told
    <2>5. t \in Settings(after(vote))
      BY <2>1, <2>3, <2>4, HooksDelivered DEF MultipleInv
    <2> QED BY <2>3, <2>5, <2>6, SettingsInv, SettingsMoved
  <1> QED BY <1>1, <1>9, <1>10

LEMMA FirstMultiple ==
    ASSUME NEW c \in Configs["multiple"], NEW policy \in {PM!Anyone} \cup {PM!Module(m) : m \in Modules},
           NEW s \in PM!instantiate(c, policy), NEW h
    PROVE  MultipleInv(s, h) /\ s.kind = "multiple"
  <1>1. c \in PM!Config /\ policy \in PM!Policy
    BY ChoiceAssumption DEF PM!Policy
  <1>2. /\ PM!ValidConfig(c)
        /\ s = [kind |-> "multiple", config |-> c, policy |-> policy,
                proposals |-> <<>>, ballots |-> <<>>, proposal_hooks |-> <<>>,
                vote_hooks |-> <<>>, ran |-> <<>>]
    BY DEF PM!instantiate
  <1>3. \A S : <<>> \in Seq(S)
    OBVIOUS
  <1> QED BY <1>1, <1>2, <1>3 DEF MultipleInv, MultipleStore, ValidConfigs

LEMMA DaoInv ==
    ASSUME NEW s, NEW h, MultipleInv(s, h), NEW call \in DaoCalls["multiple"], NEW t \in PM!DaoCall(s, call)
    PROVE  MultipleInv(t, h) /\ Moved(s, t, h)
  <1>1. s \in MultipleStore /\ call \in PM!Call
    BY ChoiceAssumption DEF MultipleInv
  <1>2. t \in Settings(s)
    BY <1>1, DaoCallKeeps
  <1>3. Moved(s, s, h)
    BY NoneMoves
  <1> QED BY <1>2, <1>3, SettingsInv, SettingsMoved

\* A block passes.
LEMMA TickInv ==
    ASSUME NEW s, NEW h \in Nat, MultipleInv(s, h)
    PROVE  MultipleInv(s, h + 1)
  <1>1. s \in MultipleStore /\ DOMAIN s.ballots = DOMAIN s.proposals /\ DOMAIN s.ran = DOMAIN s.proposals
    BY DEF MultipleInv
  <1>2. ASSUME NEW id \in DOMAIN s.proposals
        PROVE  MultipleOK(s.proposals[id], s.ballots[id], s.ran[id], h + 1)
    <2> DEFINE p == s.proposals[id]
    <2>1. p \in MultipleProposal /\ MultipleOK(p, s.ballots[id], s.ran[id], h)
      BY <1>1, StoreAt DEF MultipleInv
    <2>2. p.expiration \in Nat /\ p.start_height \in Nat
      BY <2>1 DEF MultipleProposal, MultipleRecord
    <2> HIDE DEF p
    <2>3. ASSUME NEW w, Settled(p, w, h) PROVE Settled(p, w, h + 1)
      <3>1. h + 1 < p.expiration => h < p.expiration
        BY <2>2
      <3> QED BY <2>3, <3>1 DEF Settled
    <2>4. p.start_height <= h + 1
      BY <2>1, <2>2 DEF MultipleOK
    <2>5. MultipleOK(p, s.ballots[id], s.ran[id], h + 1)
      BY <2>1, <2>3, <2>4, Zenon DEF MultipleOK
    <2> QED BY <2>5 DEF p
  <1> QED BY <1>1, <1>2 DEF MultipleInv

----------------------------------------------------------------------------
(* Cells of dao-proposal-condorcet *)

LEMMA CellMoves ==
    ASSUME NEW c \in Cell
    PROVE  /\ Value(c) \in Int
           /\ PC!CD!invert(c) \in Cell /\ Value(PC!CD!invert(c)) = 0 - Value(c)
           /\ \A amount \in Nat \ {0} :
                  /\ PC!CD!cell_increment(c, amount) \in Cell
                  /\ Value(PC!CD!cell_increment(c, amount)) = Value(c) + amount
                  /\ PC!CD!cell_decrement(c, amount) \in Cell
                  /\ Value(PC!CD!cell_decrement(c, amount)) = Value(c) - amount
  <1> USE DEF Value, PC!CD!invert, PC!CD!cell_increment, PC!CD!cell_decrement,
              PC!CD!Zero, PC!CD!Positive, PC!CD!Negative
  <1>1. SUFFICES ASSUME NEW amount \in Nat \ {0}
                 PROVE  /\ Value(c) \in Int
                        /\ PC!CD!invert(c) \in Cell /\ Value(PC!CD!invert(c)) = 0 - Value(c)
                        /\ PC!CD!cell_increment(c, amount) \in Cell
                        /\ Value(PC!CD!cell_increment(c, amount)) = Value(c) + amount
                        /\ PC!CD!cell_decrement(c, amount) \in Cell
                        /\ Value(PC!CD!cell_decrement(c, amount)) = Value(c) - amount
    <2>1. 1 \in Nat \ {0}
      OBVIOUS
    <2> QED BY <2>1
  <1>2. CASE c = PC!CD!Zero
    <2>1. c.sign = "zero" /\ c.n = 0
      BY <1>2
    <2>2. Value(c) = 0
      BY <2>1
    <2>3. PC!CD!invert(c) = PC!CD!Zero
      BY <2>1
    <2>4. PC!CD!cell_increment(c, amount) = PC!CD!Positive(amount)
      BY <2>1
    <2>5. PC!CD!cell_decrement(c, amount) = PC!CD!Negative(amount)
      BY <2>1
    <2>6. PC!CD!Zero \in Cell /\ Value(PC!CD!Zero) = 0
      BY DEF Cell
    <2>7. PC!CD!Positive(amount) \in Cell /\ Value(PC!CD!Positive(amount)) = amount
      BY DEF Cell
    <2>8. PC!CD!Negative(amount) \in Cell /\ Value(PC!CD!Negative(amount)) = -amount
      BY DEF Cell
    <2> HIDE DEF Value, PC!CD!invert, PC!CD!cell_increment, PC!CD!cell_decrement,
                 PC!CD!Zero, PC!CD!Positive, PC!CD!Negative
    <2>9. 0 \in Int /\ 0 = 0 - 0 /\ 0 + amount = amount /\ 0 - amount = -amount
      OBVIOUS
    <2> QED BY <2>2, <2>3, <2>4, <2>5, <2>6, <2>7, <2>8, <2>9, Zenon
  <1>3. CASE c \in [sign : {"positive"}, n : Nat \ {0}]
    BY <1>3 DEF Cell
  <1>4. CASE c \in [sign : {"negative"}, n : Nat \ {0}]
    BY <1>4 DEF Cell
  <1> QED BY <1>2, <1>3, <1>4 DEF Cell

\* A cell is the one that stands for its number.
LEMMA CellForm ==
    ASSUME NEW c \in Cell
    PROVE  /\ Value(c) > 0 => c = PC!CD!Positive(Value(c))
           /\ Value(c) = 0 => c = PC!CD!Zero
           /\ Value(c) < 0 => c = PC!CD!Negative(-Value(c))
           /\ c.sign = "positive" <=> Value(c) > 0
  <1> USE DEF Value, PC!CD!Zero, PC!CD!Positive, PC!CD!Negative
  <1>1. CASE c = PC!CD!Zero
    BY <1>1 DEF Cell
  <1>2. CASE c \in [sign : {"positive"}, n : Nat \ {0}]
    BY <1>2 DEF Cell
  <1>3. CASE c \in [sign : {"negative"}, n : Nat \ {0}]
    BY <1>3 DEF Cell
  <1> QED BY <1>1, <1>2, <1>3 DEF Cell

----------------------------------------------------------------------------
(* The half matrix *)

\* Of two neighbouring numbers one is even.
LEMMA EvenProduct ==
    ASSUME NEW y \in Nat
    PROVE  /\ ((y + 1) * y) \div 2 \in Nat
           /\ 2 * (((y + 1) * y) \div 2) = (y + 1) * y
  <1> DEFINE j == y \div 2
  <1>1. j \in Nat /\ (y = 2 * j \/ y = 2 * j + 1)
    OBVIOUS
  <1> HIDE DEF j
  <1>2. CASE y = 2 * j
    <2>1. (y + 1) * y = 2 * ((y + 1) * j) /\ (y + 1) * j \in Nat
      BY <1>1, <1>2
    <2> DEFINE k == (y + 1) * j
    <2> HIDE DEF k
    <2>2. (2 * k) \div 2 = k
      BY <2>1 DEF k
    <2> QED BY <2>1, <2>2 DEF k
  <1>3. CASE y = 2 * j + 1
    <2>1. (y + 1) * y = 2 * ((j + 1) * y) /\ (j + 1) * y \in Nat
      BY <1>1, <1>3
    <2> DEFINE k == (j + 1) * y
    <2> HIDE DEF k
    <2>2. (2 * k) \div 2 = k
      BY <2>1 DEF k
    <2> QED BY <2>1, <2>2 DEF k
  <1> QED BY <1>1, <1>2, <1>3

\* The first cell of row y of n candidates.
RowStart(n, y) == y * n - ((y + 1) * y) \div 2

LEMMA RowStarts ==
    ASSUME NEW n \in Nat \ {0}
    PROVE  /\ RowStart(n, 0) = 0
           /\ RowStart(n, n - 1) = (n * (n - 1)) \div 2
           /\ \A y \in 0 .. n - 1 :
                  /\ RowStart(n, y) \in Int
                  /\ y + 1 <= n - 1 => RowStart(n, y + 1) = RowStart(n, y) + (n - 1 - y)
           /\ \A y, v \in 0 .. n - 1 : y <= v => RowStart(n, y) <= RowStart(n, v)
  <1>1. ASSUME NEW y \in 0 .. n - 1
        PROVE  RowStart(n, y) \in Int /\ 2 * RowStart(n, y) = 2 * (y * n) - (y + 1) * y
    <2> DEFINE half == ((y + 1) * y) \div 2
               pr == y * n
               sq == (y + 1) * y
    <2>1. half \in Nat /\ 2 * half = sq /\ pr \in Int /\ sq \in Int
      BY EvenProduct
    <2>2. RowStart(n, y) = pr - half
      BY DEF RowStart
    <2> HIDE DEF half, pr, sq
    <2>3. RowStart(n, y) \in Int /\ 2 * RowStart(n, y) = 2 * pr - sq
      BY <2>1, <2>2
    <2> QED BY <2>3 DEF pr, sq
  <1>2. RowStart(n, 0) = 0
    <2>1. 0 \in 0 .. n - 1 /\ 0 * n = 0 /\ (0 + 1) * 0 = 0
      OBVIOUS
    <2>2. RowStart(n, 0) \in Int /\ 2 * RowStart(n, 0) = 0
      BY <1>1, <2>1
    <2> QED BY <2>2
  <1>3. RowStart(n, n - 1) = (n * (n - 1)) \div 2
    <2> DEFINE k == (n * (n - 1)) \div 2
    <2>1. n - 1 \in 0 .. n - 1 /\ n - 1 \in Nat /\ (n - 1) + 1 = n /\ n * (n - 1) = (n - 1) * n
      OBVIOUS
    <2>2. k \in Nat /\ 2 * k = n * (n - 1)
      BY <2>1, EvenProduct
    <2>3. RowStart(n, n - 1) \in Int /\ 2 * RowStart(n, n - 1) = 2 * ((n - 1) * n) - n * (n - 1)
      BY <1>1, <2>1
    <2> DEFINE pr == n * (n - 1)
    <2>4. pr \in Int
      OBVIOUS
    <2> HIDE DEF k, pr
    <2>5. 2 * RowStart(n, n - 1) = 2 * pr - pr /\ 2 * k = pr
      BY <2>1, <2>2, <2>3 DEF pr
    <2>6. RowStart(n, n - 1) = k
      BY <2>2, <2>3, <2>4, <2>5
    <2> QED BY <2>6 DEF k
  <1>4. ASSUME NEW y \in 0 .. n - 1, y + 1 <= n - 1
        PROVE  RowStart(n, y + 1) = RowStart(n, y) + (n - 1 - y)
    <2>1. y + 1 \in 0 .. n - 1
      BY <1>4
    <2>2. (y + 1) * n = y * n + n /\ ((y + 1) + 1) * (y + 1) = (y + 1) * y + 2 * (y + 1)
      OBVIOUS
    <2>3. y * n \in Int /\ (y + 1) * y \in Int
      OBVIOUS
    <2> DEFINE pr == y * n
               sq == (y + 1) * y
    <2>4. /\ 2 * RowStart(n, y) = 2 * pr - sq
          /\ 2 * RowStart(n, y + 1) = 2 * (pr + n) - (sq + 2 * (y + 1))
          /\ RowStart(n, y) \in Int /\ RowStart(n, y + 1) \in Int /\ pr \in Int /\ sq \in Int
      BY <1>1, <2>1, <2>2, <2>3
    <2> HIDE DEF pr, sq
    <2>5. \A i, j \in Int : 2 * i = 2 * pr - sq /\ 2 * j = 2 * (pr + n) - (sq + 2 * (y + 1))
                              => j = i + (n - 1 - y)
      <3>1. y \in Int /\ n \in Int /\ pr \in Int /\ sq \in Int
        BY <2>4
      <3> QED BY <3>1
    <2> QED BY <2>4, <2>5
  <1>5. ASSUME NEW y \in 0 .. n - 1, NEW v \in 0 .. n - 1, y <= v
        PROVE  RowStart(n, y) <= RowStart(n, v)
    <2> DEFINE d == v - y
               e == 2 * n - (v + y) - 1
    <2>1. d \in Nat /\ e \in Nat
      BY <1>5
    <2>2. d * e \in Nat
      BY <2>1
    <2>3. d * e = (2 * (v * n) - (v + 1) * v) - (2 * (y * n) - (y + 1) * y)
      <3>1. v \in Int /\ y \in Int /\ n \in Int
        OBVIOUS
      <3>2. \A i, j, k \in Int : (i - j) * (2 * k - (i + j) - 1)
                                    = (2 * (i * k) - (i + 1) * i) - (2 * (j * k) - (j + 1) * j)
        OBVIOUS
      <3> QED BY <3>1, <3>2
    <2> HIDE DEF d, e
    <2>4. d * e = 2 * RowStart(n, v) - 2 * RowStart(n, y)
      BY <1>1, <2>3
    <2>5. RowStart(n, v) \in Int /\ RowStart(n, y) \in Int
      BY <1>1
    <2> QED BY <2>2, <2>4, <2>5
  <1> QED BY <1>1, <1>2, <1>3, <1>4, <1>5

\* Every pair of candidates has a cell of its own.
LEMMA IndexIn ==
    ASSUME NEW m, m.n \in Nat \ {0}, NEW x \in 0 .. m.n - 1, NEW y \in 0 .. m.n - 1, y < x
    PROVE  /\ PC!CD!index(m, x, y) \in 0 .. (m.n * (m.n - 1)) \div 2 - 1
           /\ \A u, v \in 0 .. m.n - 1 :
                  v < u /\ PC!CD!index(m, u, v) = PC!CD!index(m, x, y) => u = x /\ v = y
  <1> DEFINE n == m.n
             R(i) == RowStart(n, i)
  <1>1. n \in Nat \ {0} /\ x \in 0 .. n - 1 /\ y \in 0 .. n - 1
    OBVIOUS
  <1>2. \A u, v : PC!CD!index(m, u, v) = R(v) + (u - (v + 1))
    BY DEF PC!CD!index, RowStart
  <1> HIDE DEF n
  <1>3. /\ R(0) = 0 /\ R(n - 1) = (n * (n - 1)) \div 2
        /\ \A i \in 0 .. n - 1 : R(i) \in Int /\ (i + 1 <= n - 1 => R(i + 1) = R(i) + (n - 1 - i))
        /\ \A i, j \in 0 .. n - 1 : i <= j => R(i) <= R(j)
    BY <1>1, RowStarts, Zenon
  <1> HIDE DEF R
  <1>4. \A u, v \in 0 .. n - 1 : v < u =>
            /\ R(v) <= R(v) + (u - (v + 1)) /\ R(v) + (u - (v + 1)) < R(v + 1)
            /\ v + 1 \in 0 .. n - 1
    BY <1>1, <1>3
  <1>5. R(y) + (x - (y + 1)) \in 0 .. R(n - 1) - 1
    <2>1. 0 \in 0 .. n - 1 /\ n - 1 \in 0 .. n - 1
      BY <1>1
    <2>2. 0 <= R(y) /\ R(y + 1) <= R(n - 1)
      BY <1>1, <1>3, <1>4, <2>1
    <2>3. R(y) \in Int /\ R(y + 1) \in Int /\ R(n - 1) \in Int
      BY <1>1, <1>3, <1>4, <2>1
    <2> QED BY <1>1, <1>4, <2>2, <2>3
  <1>6. ASSUME NEW u \in 0 .. n - 1, NEW v \in 0 .. n - 1, v < u,
               R(v) + (u - (v + 1)) = R(y) + (x - (y + 1))
        PROVE  u = x /\ v = y
    <2>1. R(v) \in Int /\ R(v + 1) \in Int /\ R(y) \in Int /\ R(y + 1) \in Int
          /\ v + 1 \in 0 .. n - 1 /\ y + 1 \in 0 .. n - 1
      BY <1>1, <1>3, <1>4, <1>6
    <2>2. R(v) < R(y + 1) /\ R(y) < R(v + 1)
      BY <1>1, <1>4, <1>6, <2>1
    <2>3. ~(y + 1 <= v) /\ ~(v + 1 <= y)
      BY <1>1, <1>3, <2>1, <2>2
    <2>4. v = y
      BY <1>1, <2>3
    <2> QED BY <1>1, <1>6, <2>1, <2>4
  <1>7. n = m.n
    BY DEF n
  <1> QED BY <1>2, <1>3, <1>5, <1>6, <1>7

LEMMA MatrixType ==
    ASSUME NEW m \in Matrix
    PROVE  /\ m.n \in Sizes
           /\ m.cells \in [0 .. (m.n * (m.n - 1)) \div 2 - 1 -> Cell]
           /\ m = [n |-> m.n, cells |-> m.cells]
  BY DEF Matrix

LEMMA MatrixForm ==
    ASSUME NEW n \in Sizes, NEW cells \in [0 .. (n * (n - 1)) \div 2 - 1 -> Cell]
    PROVE  /\ [n |-> n, cells |-> cells] \in Matrix
           /\ [n |-> n, cells |-> cells].n = n
           /\ [n |-> n, cells |-> cells].cells = cells
  <1>1. [n |-> n, cells |-> cells] \in [n : {n}, cells : [0 .. (n * (n - 1)) \div 2 - 1 -> Cell]]
    OBVIOUS
  <1> QED BY <1>1 DEF Matrix

LEMMA SizeType ==
    ASSUME NEW n \in Sizes
    PROVE  n \in Nat \ {0, 1}
  <1>1. PICK choices \in Options["condorcet"] : n = Len(choices) + 1
    BY DEF Sizes
  <1>2. Len(choices) \in Nat
    BY ChoiceAssumption
  <1> QED BY <1>1, <1>2 DEF Sizes

LEMMA LeadType ==
    ASSUME NEW m \in Matrix, NEW x \in PC!CD!Candidates(m), NEW y \in PC!CD!Candidates(m), x # y
    PROVE  /\ PC!CD!get(m, x, y) \in Cell
           /\ Lead(m, x, y) \in Int
           /\ Lead(m, y, x) = 0 - Lead(m, x, y)
  <1>1. m.n \in Nat \ {0} /\ x \in 0 .. m.n - 1 /\ y \in 0 .. m.n - 1
        /\ m.cells \in [0 .. (m.n * (m.n - 1)) \div 2 - 1 -> Cell]
    BY MatrixType, SizeType DEF PC!CD!Candidates
  <1>2. CASE y < x
    <2>1. m.cells[PC!CD!index(m, x, y)] \in Cell
      BY <1>1, <1>2, IndexIn
    <2>2. PC!CD!get(m, x, y) = m.cells[PC!CD!index(m, x, y)]
          /\ PC!CD!get(m, y, x) = PC!CD!invert(m.cells[PC!CD!index(m, x, y)])
      BY <1>1, <1>2 DEF PC!CD!get
    <2> QED BY <2>1, <2>2, CellMoves, Zenon DEF Lead
  <1>3. CASE x < y
    <2> DEFINE c == m.cells[PC!CD!index(m, y, x)]
    <2>1. c \in Cell
      BY <1>1, <1>3, IndexIn
    <2>2. PC!CD!get(m, x, y) = PC!CD!invert(c) /\ PC!CD!get(m, y, x) = c
      BY <1>1, <1>3 DEF PC!CD!get
    <2> HIDE DEF c
    <2>3. PC!CD!invert(c) \in Cell /\ Value(PC!CD!invert(c)) = 0 - Value(c) /\ Value(c) \in Int
      BY <2>1, CellMoves
    <2>4. Lead(m, x, y) = 0 - Value(c) /\ Lead(m, y, x) = Value(c)
      BY <2>2, <2>3 DEF Lead
    <2> QED BY <2>2, <2>3, <2>4
  <1> QED BY <1>1, <1>2, <1>3

\* The cell of x and y, where y < x, is replaced.
LEMMA CellReplaced ==
    ASSUME NEW m \in Matrix, NEW x \in PC!CD!Candidates(m), NEW y \in PC!CD!Candidates(m), y < x,
           NEW c \in Cell, NEW r, r = [m EXCEPT !.cells[PC!CD!index(m, x, y)] = c]
    PROVE  /\ r \in Matrix /\ r.n = m.n
           /\ Lead(r, x, y) = Value(c)
           /\ Lead(r, y, x) = 0 - Value(c)
           /\ \A u, v \in PC!CD!Candidates(m) :
                  u # v /\ ~(u = x /\ v = y) /\ ~(u = y /\ v = x) => Lead(r, u, v) = Lead(m, u, v)
  <1> DEFINE i == PC!CD!index(m, x, y)
             I == 0 .. (m.n * (m.n - 1)) \div 2 - 1
  <1>1. /\ m.n \in Nat \ {0} /\ m.n \in Sizes /\ x \in 0 .. m.n - 1 /\ y \in 0 .. m.n - 1
        /\ m.cells \in [I -> Cell] /\ m = [n |-> m.n, cells |-> m.cells]
    BY MatrixType, SizeType DEF PC!CD!Candidates
  <1>2. /\ i \in I
        /\ \A u, v \in 0 .. m.n - 1 : v < u /\ PC!CD!index(m, u, v) = i => u = x /\ v = y
    BY <1>1, IndexIn
  <1>3. \A u, v : PC!CD!index(r, u, v) = PC!CD!index(m, u, v)
    <2>1. r.n = m.n
      BY <1>1
    <2> QED BY <2>1 DEF PC!CD!index
  <1> HIDE DEF i, I
  <1> DEFINE q == [m.cells EXCEPT ![i] = c]
  <1>4. r = [n |-> m.n, cells |-> q]
    BY <1>1 DEF i
  <1>11. q \in [I -> Cell] /\ q[i] = c /\ \A j \in I \ {i} : q[j] = m.cells[j]
    BY <1>1, <1>2
  <1> HIDE DEF q
  <1>12. r \in Matrix /\ r.n = m.n /\ r.cells = q
    <2> DEFINE n == m.n
    <2>1. n \in Sizes /\ r = [n |-> n, cells |-> q]
      BY <1>1, <1>4
    <2>2. q \in [0 .. (n * (n - 1)) \div 2 - 1 -> Cell]
      BY <1>11 DEF I
    <2> HIDE DEF n
    <2> DEFINE rec == [n |-> n, cells |-> q]
    <2>4. rec \in Matrix /\ rec.n = n /\ rec.cells = q
      BY <2>1, <2>2, MatrixForm
    <2>5. r = rec
      BY <2>1
    <2> HIDE DEF rec
    <2>3. r \in Matrix /\ r.n = n /\ r.cells = q
      BY <2>4, <2>5, Zenon
    <2> QED BY <2>3 DEF n
  <1>5. /\ r.n = m.n /\ r.cells \in [I -> Cell] /\ r.cells[i] = c
        /\ \A j \in I \ {i} : r.cells[j] = m.cells[j]
    BY <1>11, <1>12, Zenon
  <1>6. r \in Matrix
    BY <1>12
  <1>7. PC!CD!get(r, x, y) = c /\ PC!CD!get(r, y, x) = PC!CD!invert(c)
    <2>1. PC!CD!index(r, x, y) = i
      BY <1>3 DEF i
    <2>2. r.cells[PC!CD!index(r, x, y)] = c
      BY <1>5, <2>1
    <2>3. ~(x < y)
      BY <1>1
    <2> QED BY <2>2, <2>3 DEF PC!CD!get
  <1>8. Lead(r, x, y) = Value(c) /\ Lead(r, y, x) = 0 - Value(c)
    BY <1>7, CellMoves DEF Lead
  <1>9. ASSUME NEW u \in PC!CD!Candidates(m), NEW v \in PC!CD!Candidates(m), v < u, ~(u = x /\ v = y)
        PROVE  Lead(r, u, v) = Lead(m, u, v) /\ Lead(r, v, u) = Lead(m, v, u)
    <2>1. u \in 0 .. m.n - 1 /\ v \in 0 .. m.n - 1
      BY DEF PC!CD!Candidates
    <2>2. PC!CD!index(m, u, v) \in I /\ PC!CD!index(m, u, v) # i
      BY <1>1, <1>2, <1>9, <2>1, IndexIn DEF I
    <2>3. r.cells[PC!CD!index(r, u, v)] = m.cells[PC!CD!index(m, u, v)]
      BY <1>3, <1>5, <2>2
    <2>4. PC!CD!get(r, u, v) = PC!CD!get(m, u, v) /\ PC!CD!get(r, v, u) = PC!CD!get(m, v, u)
      BY <1>9, <2>1, <2>3 DEF PC!CD!get
    <2> QED BY <2>4 DEF Lead
  <1>10. ASSUME NEW u \in PC!CD!Candidates(m), NEW v \in PC!CD!Candidates(m),
                u # v, ~(u = x /\ v = y), ~(u = y /\ v = x)
         PROVE  Lead(r, u, v) = Lead(m, u, v)
    <2>1. v < u \/ u < v
      BY <1>1, <1>10 DEF PC!CD!Candidates
    <2> QED BY <1>9, <1>10, <2>1
  <1> QED BY <1>5, <1>6, <1>8, <1>10

\* A matrix in which x leads y by amount more, and which is otherwise the same.
Gained(m, r, x, y, amount) ==
    /\ r \in Matrix /\ r.n = m.n
    /\ Lead(r, x, y) = Lead(m, x, y) + amount
    /\ Lead(r, y, x) = Lead(m, y, x) - amount
    /\ \A u, v \in PC!CD!Candidates(m) :
           u # v /\ ~(u = x /\ v = y) /\ ~(u = y /\ v = x) => Lead(r, u, v) = Lead(m, u, v)

LEMMA Decremented ==
    ASSUME NEW m \in Matrix, NEW x \in PC!CD!Candidates(m), NEW y \in PC!CD!Candidates(m), x # y,
           NEW amount \in Nat \ {0}
    PROVE  Gained(m, PC!CD!decrement(m, y, x, amount), x, y, amount)
  <1> DEFINE r == PC!CD!decrement(m, y, x, amount)
  <1>1. m.n \in Nat \ {0} /\ x \in 0 .. m.n - 1 /\ y \in 0 .. m.n - 1
        /\ m.cells \in [0 .. (m.n * (m.n - 1)) \div 2 - 1 -> Cell]
    BY MatrixType, SizeType DEF PC!CD!Candidates
  <1>2. CASE y < x
    <2> DEFINE c == m.cells[PC!CD!index(m, x, y)]
               d == PC!CD!cell_increment(c, amount)
    <2>1. c \in Cell
      BY <1>1, <1>2, IndexIn
    <2>2. Lead(m, x, y) = Value(c)
      BY <1>1, <1>2 DEF PC!CD!get, Lead
    <2>3. r = [m EXCEPT !.cells[PC!CD!index(m, x, y)] = d]
      BY <1>2 DEF PC!CD!decrement
    <2> HIDE DEF c, r
    <2>4. d \in Cell /\ Value(d) = Value(c) + amount /\ Value(c) \in Int
      BY <2>1, CellMoves
    <2>5. Lead(m, y, x) = 0 - Value(c)
      BY <2>2, LeadType
    <2> HIDE DEF d
    <2>6. /\ r \in Matrix /\ r.n = m.n
          /\ Lead(r, x, y) = Value(d)
          /\ Lead(r, y, x) = 0 - Value(d)
          /\ \A u, v \in PC!CD!Candidates(m) :
                 u # v /\ ~(u = x /\ v = y) /\ ~(u = y /\ v = x) => Lead(r, u, v) = Lead(m, u, v)
      BY <1>2, <2>3, <2>4, CellReplaced
    <2>7. Lead(r, x, y) = Lead(m, x, y) + amount /\ Lead(r, y, x) = Lead(m, y, x) - amount
      BY <2>2, <2>4, <2>5, <2>6
    <2> QED BY <2>6, <2>7, Zenon DEF Gained, r
  <1>3. CASE x < y
    <2> DEFINE c == m.cells[PC!CD!index(m, y, x)]
               d == PC!CD!cell_decrement(c, amount)
    <2>1. c \in Cell
      BY <1>1, <1>3, IndexIn
    <2>2. Lead(m, y, x) = Value(c)
      BY <1>1, <1>3 DEF PC!CD!get, Lead
    <2>3. r = [m EXCEPT !.cells[PC!CD!index(m, y, x)] = d]
      BY <1>1, <1>3 DEF PC!CD!decrement
    <2> HIDE DEF c, r
    <2>4. d \in Cell /\ Value(d) = Value(c) - amount /\ Value(c) \in Int
      BY <2>1, CellMoves
    <2>5. Lead(m, x, y) = 0 - Value(c)
      BY <2>2, LeadType
    <2> HIDE DEF d
    <2>6. /\ r \in Matrix /\ r.n = m.n
          /\ Lead(r, y, x) = Value(d)
          /\ Lead(r, x, y) = 0 - Value(d)
          /\ \A u, v \in PC!CD!Candidates(m) :
                 u # v /\ ~(u = y /\ v = x) /\ ~(u = x /\ v = y) => Lead(r, u, v) = Lead(m, u, v)
      BY <1>3, <2>3, <2>4, CellReplaced
    <2>7. Lead(r, x, y) = Lead(m, x, y) + amount /\ Lead(r, y, x) = Lead(m, y, x) - amount
      BY <2>2, <2>4, <2>5, <2>6
    <2> QED BY <2>6, <2>7, Zenon DEF Gained, r
  <1> QED BY <1>1, <1>2, <1>3

----------------------------------------------------------------------------
(* Rankings *)

\* The pairs of places in a ranking, the better one first.
Defeats(vote) == {d \in (DOMAIN vote) \X (DOMAIN vote) : d[1] < d[2]}

\* g gives, for each set of them, the matrix after those defeats.
Defeating(g, m, vote, power) ==
    g = [U \in SUBSET Defeats(vote) |->
            IF U = {} THEN m
            ELSE PC!CD!decrement(g[U \ {First(U)}], vote[First(U)[2]], vote[First(U)[1]], power)]

Defeated(m, vote, power) == (CHOOSE g : Defeating(g, m, vote, power))[Defeats(vote)]

LEMMA AddedVote ==
    ASSUME NEW t, NEW vote, NEW power
    PROVE  PC!CD!add_vote(t, vote, power) =
               PC!CD!Counted([t EXCEPT !.m = Defeated(t.m, vote, power),
                                       !.power_outstanding = t.power_outstanding - power])
  BY Zenon DEF PC!CD!add_vote, PC!CD!FoldSet, PC!CD!MapThenFoldSet, Defeats, Defeating, Defeated, First

\* A ranking of the candidates of m.
RankingOf(vote, m) ==
    /\ vote \in [1 .. m.n -> PC!CD!Candidates(m)]
    /\ \A i, j \in 1 .. m.n : vote[i] = vote[j] => i = j

\* One of the defeats in U is of y by x.
Before(vote, U, x, y) == \E d \in U : vote[d[1]] = x /\ vote[d[2]] = y

Share(vote, U, x, y, power) == IF Before(vote, U, x, y) THEN power ELSE 0

\* r is m with the defeats in U added.
AddsUp(m, r, vote, U, power) ==
    /\ r \in Matrix /\ r.n = m.n
    /\ \A x, y \in PC!CD!Candidates(m) : x # y =>
           Lead(r, x, y) = Lead(m, x, y) + Share(vote, U, x, y, power) - Share(vote, U, y, x, power)

LEMMA DefeatAdded ==
    ASSUME NEW m \in Matrix, NEW vote, RankingOf(vote, m), NEW power \in Nat \ {0},
           NEW U \in SUBSET Defeats(vote), NEW d \in U, NEW r, AddsUp(m, r, vote, U \ {d}, power)
    PROVE  AddsUp(m, PC!CD!decrement(r, vote[d[2]], vote[d[1]], power), vote, U, power)
  <1> DEFINE x == vote[d[1]]
             y == vote[d[2]]
             q == PC!CD!decrement(r, y, x, power)
  <1>1. /\ DOMAIN vote = 1 .. m.n /\ \A i \in 1 .. m.n : vote[i] \in PC!CD!Candidates(m)
        /\ \A i, j \in 1 .. m.n : vote[i] = vote[j] => i = j
    BY DEF RankingOf
  <1>2. m.n \in Nat
    BY MatrixType, SizeType
  <1>3. \A e \in U : e[1] \in 1 .. m.n /\ e[2] \in 1 .. m.n /\ e[1] < e[2] /\ e = <<e[1], e[2]>>
    BY <1>1 DEF Defeats
  <1>4. /\ x \in PC!CD!Candidates(m) /\ y \in PC!CD!Candidates(m) /\ x # y
        /\ r \in Matrix /\ r.n = m.n
    <2>1. d[1] # d[2]
      BY <1>2, <1>3
    <2> QED BY <1>1, <1>3, <2>1 DEF AddsUp
  <1>5. PC!CD!Candidates(r) = PC!CD!Candidates(m)
    BY <1>4 DEF PC!CD!Candidates
  <1>6. /\ Before(vote, U, x, y) /\ ~Before(vote, U \ {d}, x, y)
        /\ ~Before(vote, U, y, x) /\ ~Before(vote, U \ {d}, y, x)
    <2>1. Before(vote, U, x, y)
      BY DEF Before
    <2>2. ASSUME NEW e \in U, vote[e[1]] = x, vote[e[2]] = y PROVE e = d
      <3>1. e[1] = d[1] /\ e[2] = d[2]
        BY <1>1, <1>3, <2>2
      <3> QED BY <1>3, <3>1
    <2>3. ASSUME NEW e \in U, vote[e[1]] = y, vote[e[2]] = x PROVE FALSE
      <3>1. e[1] = d[2] /\ e[2] = d[1]
        BY <1>1, <1>3, <2>3
      <3>2. e[1] < e[2] /\ d[1] < d[2] /\ d[1] \in Nat /\ d[2] \in Nat
        BY <1>2, <1>3
      <3> QED BY <3>1, <3>2
    <2> HIDE DEF x, y
    <2> QED BY <2>1, <2>2, <2>3 DEF Before
  <1>7. ASSUME NEW u, NEW v, ~(u = x /\ v = y)
        PROVE  Before(vote, U, u, v) <=> Before(vote, U \ {d}, u, v)
    BY <1>7 DEF Before
  <1> HIDE DEF x, y, q
  <1>8. Gained(r, q, x, y, power)
    BY <1>4, <1>5, Decremented DEF q
  <1>9. ASSUME NEW u \in PC!CD!Candidates(m), NEW v \in PC!CD!Candidates(m), u # v
        PROVE  Lead(q, u, v) = Lead(m, u, v) + Share(vote, U, u, v, power) - Share(vote, U, v, u, power)
    <2>1. /\ Lead(r, u, v) = Lead(m, u, v) + Share(vote, U \ {d}, u, v, power)
                                           - Share(vote, U \ {d}, v, u, power)
          /\ Lead(m, u, v) \in Int /\ power \in Int
      <3>1. Lead(m, u, v) \in Int
        BY <1>9, LeadType
      <3>2. Lead(r, u, v) = Lead(m, u, v) + Share(vote, U \ {d}, u, v, power)
                                         - Share(vote, U \ {d}, v, u, power)
        BY <1>9, Zenon DEF AddsUp
      <3>3. power \in Int
        OBVIOUS
      <3> QED BY <3>1, <3>2, <3>3
    <2>2. CASE u = x /\ v = y
      <3>1. Lead(q, u, v) = Lead(r, u, v) + power
        BY <1>8, <2>2 DEF Gained
      <3> QED BY <1>6, <2>1, <2>2, <3>1 DEF Share
    <2>3. CASE u = y /\ v = x
      <3>1. Lead(q, u, v) = Lead(r, u, v) - power
        BY <1>8, <2>3 DEF Gained
      <3> QED BY <1>6, <2>1, <2>3, <3>1 DEF Share
    <2>4. CASE ~(u = x /\ v = y) /\ ~(u = y /\ v = x)
      <3>1. Lead(q, u, v) = Lead(r, u, v)
        BY <1>5, <1>8, <1>9, <2>4 DEF Gained
      <3>2. /\ Share(vote, U, u, v, power) = Share(vote, U \ {d}, u, v, power)
            /\ Share(vote, U, v, u, power) = Share(vote, U \ {d}, v, u, power)
        BY <1>7, <2>4 DEF Share
      <3> QED BY <2>1, <3>1, <3>2
    <2> QED BY <2>2, <2>3, <2>4
  <1>10. q \in Matrix /\ q.n = m.n
    BY <1>4, <1>8 DEF Gained
  <1>11. AddsUp(m, q, vote, U, power)
    BY <1>9, <1>10 DEF AddsUp
  <1> QED BY <1>11 DEF q, x, y

LEMMA DefeatsFinite ==
    ASSUME NEW m \in Matrix, NEW vote, RankingOf(vote, m)
    PROVE  IsFiniteSet(Defeats(vote))
  <1>1. DOMAIN vote = 1 .. m.n /\ IsFiniteSet(1 .. m.n)
    BY MatrixType, SizeType, FS_Interval DEF RankingOf
  <1>2. IsFiniteSet((1 .. m.n) \X (1 .. m.n))
    BY <1>1, FS_Product
  <1>3. Defeats(vote) \subseteq (1 .. m.n) \X (1 .. m.n)
    BY <1>1 DEF Defeats
  <1> QED BY <1>2, <1>3, FS_Subset

LEMMA NoDefeats ==
    ASSUME NEW m \in Matrix, NEW vote, NEW power \in Nat \ {0}
    PROVE  AddsUp(m, m, vote, {}, power)
  <1>1. ASSUME NEW x \in PC!CD!Candidates(m), NEW y \in PC!CD!Candidates(m), x # y
        PROVE  Lead(m, x, y) = Lead(m, x, y) + Share(vote, {}, x, y, power) - Share(vote, {}, y, x, power)
    <2>1. Share(vote, {}, x, y, power) = 0 /\ Share(vote, {}, y, x, power) = 0
      BY DEF Share, Before
    <2>2. Lead(m, x, y) \in Int
      BY <1>1, LeadType
    <2> QED BY <2>1, <2>2
  <1> QED BY <1>1 DEF AddsUp

LEMMA DefeatedAddsUp ==
    ASSUME NEW m \in Matrix, NEW vote, RankingOf(vote, m), NEW power \in Nat \ {0}
    PROVE  AddsUp(m, Defeated(m, vote, power), vote, Defeats(vote), power)
  <1> DEFINE S == Defeats(vote)
             T == {r \in Matrix : r.n = m.n}
             pick == [U \in SUBSET S |-> First(U)]
             after(p) == PC!CD!decrement(p[2], vote[p[1][2]], vote[p[1][1]], power)
             step == [p \in S \X T |-> after(p)]
             g == Folding(m, step, pick, S)
  <1>1. IsFiniteSet(S)
    BY DefeatsFinite
  <1>2. \A U \in SUBSET S : U # {} => pick[U] \in U /\ pick[U] = First(U)
    BY FirstIn
  <1>3. ASSUME NEW d \in S, NEW r \in T
        PROVE  step[<<d, r>>] = PC!CD!decrement(r, vote[d[2]], vote[d[1]], power) /\ step[<<d, r>>] \in T
    <2>1. step[<<d, r>>] = PC!CD!decrement(r, vote[d[2]], vote[d[1]], power)
      OBVIOUS
    <2>2. d[1] \in 1 .. m.n /\ d[2] \in 1 .. m.n /\ d[1] # d[2] /\ r \in Matrix /\ r.n = m.n
      <3>1. d[1] \in 1 .. m.n /\ d[2] \in 1 .. m.n /\ d[1] < d[2]
        BY DEF RankingOf, Defeats
      <3>2. m.n \in Nat
        BY MatrixType, SizeType
      <3> QED BY <3>1, <3>2
    <2>3. /\ vote[d[1]] \in PC!CD!Candidates(r) /\ vote[d[2]] \in PC!CD!Candidates(r)
          /\ vote[d[1]] # vote[d[2]]
      BY <2>2 DEF RankingOf, PC!CD!Candidates
    <2>4. Gained(r, PC!CD!decrement(r, vote[d[2]], vote[d[1]], power), vote[d[1]], vote[d[2]], power)
      BY <2>2, <2>3, Decremented
    <2> HIDE DEF step, S
    <2> QED BY <2>1, <2>2, <2>4 DEF Gained
  <1> HIDE DEF S, pick, step, g
  <1>4. FoldsTo(g, m, step, pick, S)
    BY <1>1, <1>2, FoldExists DEF g
  <1>5. \A U \in SUBSET S : g[U] \in T
    <2>1. \A d \in S : \A r \in T : step[<<d, r>>] \in T
      BY <1>3
    <2>2. m \in T
      OBVIOUS
    <2> HIDE DEF T
    <2> QED BY <1>1, <1>2, <1>4, <2>1, <2>2, FoldType
  <1>6. Defeating(g, m, vote, power)
    <2>1. ASSUME NEW U \in SUBSET S, U # {}
          PROVE  step[<<pick[U], g[U \ {pick[U]}]>>]
                     = PC!CD!decrement(g[U \ {First(U)}], vote[First(U)[2]], vote[First(U)[1]], power)
      <3>1. pick[U] \in S /\ pick[U] = First(U) /\ U \ {First(U)} \in SUBSET S
        BY <1>2, <2>1
      <3>2. g[U \ {First(U)}] \in T
        BY <1>5, <3>1
      <3> HIDE DEF T
      <3> QED BY <1>3, <3>1, <3>2
    <2>2. g = [U \in SUBSET S |-> IF U = {} THEN m ELSE step[<<pick[U], g[U \ {pick[U]}]>>]]
      BY <1>4 DEF FoldsTo
    <2> HIDE DEF T
    <2>3. g = [U \in SUBSET S |-> IF U = {} THEN m ELSE
                  PC!CD!decrement(g[U \ {First(U)}], vote[First(U)[2]], vote[First(U)[1]], power)]
      BY <2>1, <2>2
    <2> QED BY <2>3 DEF Defeating, S
  <1> DEFINE h == CHOOSE k : Defeating(k, m, vote, power)
  <1>7. Defeating(h, m, vote, power)
    BY <1>6
  <1> HIDE DEF h
  <1>8. \A U \in SUBSET S : h[U] = IF U = {} THEN m ELSE
                  PC!CD!decrement(h[U \ {First(U)}], vote[First(U)[2]], vote[First(U)[1]], power)
    BY <1>7 DEF Defeating, S
  <1>9. \A U \in SUBSET S : AddsUp(m, h[U], vote, U, power)
    <2> DEFINE C == {U \in SUBSET S : ~AddsUp(m, h[U], vote, U, power)}
    <2>1. SUFFICES ASSUME C # {} PROVE FALSE
      OBVIOUS
    <2>2. C \subseteq SUBSET S
      OBVIOUS
    <2> HIDE DEF C
    <2>3. \E U \in C : \A W \in C : W \subseteq U => W = U
      BY <1>1, <2>1, <2>2, MinimalSet
    <2>4. PICK U \in C : \A W \in C : W \subseteq U => W = U
      BY <2>3
    <2>5. U \in SUBSET S /\ ~AddsUp(m, h[U], vote, U, power)
      BY DEF C
    <2>6. CASE U = {}
      <3>1. h[U] = m
        BY <1>8, <2>5, <2>6
      <3> QED BY <2>5, <2>6, <3>1, NoDefeats
    <2>7. CASE U # {}
      <3> DEFINE d == First(U)
      <3>1. d \in U
        BY <2>7, FirstIn
      <3>2. h[U] = PC!CD!decrement(h[U \ {d}], vote[d[2]], vote[d[1]], power)
        BY <1>8, <2>5, <2>7
      <3> HIDE DEF d
      <3>3. AddsUp(m, h[U \ {d}], vote, U \ {d}, power)
        BY <2>4, <2>5, <3>1 DEF C
      <3>4. U \in SUBSET Defeats(vote)
        BY <2>5 DEF S
      <3>5. AddsUp(m, PC!CD!decrement(h[U \ {d}], vote[d[2]], vote[d[1]], power), vote, U, power)
        BY <3>1, <3>3, <3>4, DefeatAdded
      <3> QED BY <2>5, <3>2, <3>5
    <2> QED BY <2>6, <2>7
  <1> QED BY <1>9 DEF h, S, Defeated

LEMMA RankingsAreRankings ==
    ASSUME NEW m \in Matrix, NEW vote \in Rankings[m.n]
    PROVE  RankingOf(vote, m) /\ vote # <<>>
  <1>1. m.n \in Sizes /\ m.n \in Nat \ {0, 1}
    BY MatrixType, SizeType
  <1>2. m.n \in {Len(choices) + 1 : choices \in Options["condorcet"]}
    BY <1>1 DEF Sizes
  <1>3. vote \in [1 .. m.n -> 0 .. m.n - 1] /\ \A i, j \in 1 .. m.n : vote[i] = vote[j] => i = j
    BY <1>2 DEF Rankings
  <1>4. 1 \in DOMAIN vote
    BY <1>1, <1>3
  <1>5. vote # <<>>
    BY <1>4
  <1>6. RankingOf(vote, m)
    BY <1>3, Zenon DEF RankingOf, PC!CD!Candidates
  <1> QED BY <1>5, <1>6

LEMMA RanksIsBefore ==
    ASSUME NEW m \in Matrix, NEW vote, RankingOf(vote, m), NEW x, NEW y
    PROVE  Ranks(vote, x, y) <=> Before(vote, Defeats(vote), x, y)
  <1>1. DOMAIN vote = 1 .. m.n /\ m.n \in Nat
    BY MatrixType, SizeType DEF RankingOf
  <1>2. ASSUME Ranks(vote, x, y) PROVE Before(vote, Defeats(vote), x, y)
    <2>1. PICK j \in DOMAIN vote : vote[j] = y /\ \E i \in 1 .. j - 1 : vote[i] = x
      BY <1>2 DEF Ranks
    <2>4. PICK i \in 1 .. j - 1 : vote[i] = x
      BY <2>1
    <2>2. i \in DOMAIN vote /\ i < j
      BY <1>1
    <2>3. <<i, j>> \in Defeats(vote) /\ <<i, j>>[1] = i /\ <<i, j>>[2] = j
      BY <2>2 DEF Defeats
    <2> QED BY <2>1, <2>3, <2>4, Zenon DEF Before
  <1>3. ASSUME Before(vote, Defeats(vote), x, y) PROVE Ranks(vote, x, y)
    <2>1. PICK d \in Defeats(vote) : vote[d[1]] = x /\ vote[d[2]] = y
      BY <1>3 DEF Before
    <2>2. d[1] \in 1 .. d[2] - 1 /\ d[2] \in DOMAIN vote
      BY <1>1 DEF Defeats
    <2> QED BY <2>1, <2>2 DEF Ranks
  <1> QED BY <1>2, <1>3

\* Member a, who had not voted, ranks the candidates of m.
RankedBy(votes, a, m, vote, after) ==
    /\ DOMAIN votes = Addr /\ votes[a] = <<>>
    /\ m \in Matrix /\ vote \in Rankings[m.n]
    /\ after = [votes EXCEPT ![a] = vote]

\* The voter joins those who prefer x to y, if the ranking says so.
LEMMA PreferringWith ==
    ASSUME NEW h \in Heights, NEW votes, NEW a \in Addr, NEW m, NEW vote, NEW after,
           RankedBy(votes, a, m, vote, after), NEW x, NEW y
    PROVE  /\ PowerOf(h, Preferring(after, x, y))
                  = PowerOf(h, Preferring(votes, x, y)) + Share(vote, Defeats(vote), x, y, PowerAt[h][a])
           /\ PowerOf(h, Preferring(votes, x, y)) \in Nat
  <1> DEFINE P == Preferring(votes, x, y)
             Q == Preferring(after, x, y)
  <1>1. RankingOf(vote, m) /\ vote # <<>>
    BY RankingsAreRankings DEF RankedBy
  <1>2. after[a] = vote /\ \A b \in Addr \ {a} : after[b] = votes[b]
    BY DEF RankedBy
  <1>8. votes[a] = <<>> /\ m \in Matrix
    BY DEF RankedBy
  <1>3. P \in SUBSET Addr /\ a \notin P
    BY <1>8 DEF Preferring
  <1>4. Q = P \cup IF Before(vote, Defeats(vote), x, y) THEN {a} ELSE {}
    <2>1. Ranks(vote, x, y) <=> Before(vote, Defeats(vote), x, y)
      BY <1>1, <1>8, RanksIsBefore
    <2>2. a \in Q <=> Before(vote, Defeats(vote), x, y)
      BY <1>1, <1>2, <2>1 DEF Preferring
    <2>3. \A b \in Addr \ {a} : b \in Q <=> b \in P
      BY <1>2 DEF Preferring
    <2>4. Q \in SUBSET Addr
      BY DEF Preferring
    <2> HIDE DEF P, Q
    <2> QED BY <1>3, <2>2, <2>3, <2>4
  <1> HIDE DEF P, Q
  <1>5. PowerOf(h, P) \in Nat
    BY <1>3, PowerType
  <1>6. CASE Before(vote, Defeats(vote), x, y)
    <2>1. PowerOf(h, Q) = PowerOf(h, P) + PowerAt[h][a]
      BY <1>3, <1>4, <1>6, PowerWith
    <2> QED BY <1>5, <1>6, <2>1 DEF P, Q, Share
  <1>7. CASE ~Before(vote, Defeats(vote), x, y)
    <2>1. Q = P
      BY <1>4, <1>7
    <2> QED BY <1>5, <1>7, <2>1 DEF P, Q, Share
  <1> QED BY <1>6, <1>7

LEMMA WinnerDepends ==
    ASSUME NEW t, NEW u, t.m = u.m, t.power_outstanding = u.power_outstanding
    PROVE  PC!CD!winner(t) = PC!CD!winner(u)
  BY Zenon DEF PC!CD!winner

----------------------------------------------------------------------------
(* Winners *)

\* No candidate's column lacks anything exactly if it leads every other.
LEMMA PositiveColumn ==
    ASSUME NEW m \in Matrix, NEW w \in PC!CD!Candidates(m)
    PROVE  /\ PC!CD!distance_from_positivity(m, w) \in Nat
           /\ w \in PC!CD!PositiveColumns(m) <=>
                  \A x \in PC!CD!Candidates(m) \ {w} : Lead(m, w, x) > 0
  <1> DEFINE L == PC!CD!Lacks(m, w)
             D == PC!CD!Candidates(m) \ {w}
  <1>1. IsFiniteSet(D)
    <2>1. IsFiniteSet(0 .. m.n - 1)
      BY MatrixType, SizeType, FS_Interval
    <2>2. D \subseteq 0 .. m.n - 1
      BY DEF PC!CD!Candidates
    <2> QED BY <2>1, <2>2, FS_Subset
  <1>2. DOMAIN L = D
    BY DEF PC!CD!Lacks
  <1>3. ASSUME NEW x \in D
        PROVE  L[x] \in Nat /\ (L[x] = 0 <=> Lead(m, w, x) > 0)
    <2> DEFINE c == PC!CD!get(m, w, x)
    <2>1. c \in Cell
      BY LeadType
    <2>2. L[x] = IF c.sign = "positive" THEN 0 ELSE c.n + 1
      BY DEF PC!CD!Lacks
    <2>3. c.sign = "positive" <=> Lead(m, w, x) > 0
      BY <2>1, CellForm DEF Lead
    <2> HIDE DEF c, L
    <2>4. c.n \in Nat
      BY <2>1 DEF Cell, PC!CD!Zero
    <2> QED BY <2>2, <2>3, <2>4
  <1>4. PC!CD!distance_from_positivity(m, w) = SumOver(L, D)
    BY <1>2 DEF PC!CD!distance_from_positivity, SumOver, MapThenSumSet, MapThenFoldSet,
                PC!CD!MapThenSumSet, PC!CD!MapThenFoldSet
  <1> HIDE DEF L, D
  <1>5. SumOver(L, D) \in Nat
    BY <1>1, <1>3, SumNat
  <1>6. SumOver(L, D) = 0 <=> \A x \in D : L[x] = 0
    <2>1. ASSUME \A x \in D : L[x] = 0 PROVE SumOver(L, D) = 0
      BY <1>1, <2>1, SumZero
    <2>2. ASSUME SumOver(L, D) = 0, NEW x \in D PROVE L[x] = 0
      <3>1. L[x] <= SumOver(L, D)
        BY <1>1, <1>3, SumPart
      <3> QED BY <1>3, <2>2, <3>1
    <2> QED BY <2>1, <2>2
  <1>7. w \in PC!CD!PositiveColumns(m) <=> SumOver(L, D) = 0
    BY <1>4 DEF PC!CD!PositiveColumns
  <1> QED BY <1>3, <1>4, <1>5, <1>6, <1>7 DEF D

\* At most one candidate leads every other.
LEMMA OneWinner ==
    ASSUME NEW t, t.m \in Matrix, NEW w \in PC!CD!Candidates(t.m), NEW x \in PC!CD!Candidates(t.m),
           Beats(t, w), Beats(t, x)
    PROVE  w = x
  <1> SUFFICES ASSUME w # x PROVE FALSE
    OBVIOUS
  <1>1. Lead(t.m, w, x) > 0 /\ Lead(t.m, x, w) > 0
    BY DEF Beats
  <1>2. Lead(t.m, x, w) = 0 - Lead(t.m, w, x) /\ Lead(t.m, w, x) \in Int
    BY LeadType
  <1> QED BY <1>1, <1>2

\* The candidate elected is the one that beats every other.
LEMMA ColumnsBeat ==
    ASSUME NEW t, t.m \in Matrix, NEW w \in PC!CD!Candidates(t.m), Beats(t, w)
    PROVE  PC!CD!PositiveColumns(t.m) = {w}
  <1>1. w \in PC!CD!PositiveColumns(t.m)
    BY PositiveColumn DEF Beats
  <1>2. ASSUME NEW x \in PC!CD!PositiveColumns(t.m) PROVE x = w
    <2>1. x \in PC!CD!Candidates(t.m)
      BY DEF PC!CD!PositiveColumns
    <2>2. Beats(t, x)
      BY <2>1, PositiveColumn DEF Beats
    <2> QED BY <2>1, <2>2, OneWinner
  <1> QED BY <1>1, <1>2

\* What winner finds.
LEMMA WinnerFound ==
    ASSUME NEW t, t.m \in Matrix, t.power_outstanding \in Nat, NEW w, w = PC!CD!winner(t)
    PROVE  /\ w \in WinnerType
           /\ w.kind \in {"some", "undisputed"} =>
                  w.candidate \in PC!CD!Candidates(t.m) /\ Beats(t, w.candidate)
           /\ w.kind = "undisputed" =>
                  \A x \in PC!CD!Candidates(t.m) \ {w.candidate} :
                      Lead(t.m, w.candidate, x) > t.power_outstanding
  <1> DEFINE positive == PC!CD!PositiveColumns(t.m)
             first == CHOOSE col \in positive : \A other \in positive : col <= other
             margins == PC!CD!Magnitudes(PC!CD!Column(t.m, first), "positive")
             undisputed == \A margin \in margins : margin > t.power_outstanding
  <1>1. positive \in SUBSET Nat /\ positive \subseteq PC!CD!Candidates(t.m)
    <2>1. t.m.n \in Nat
      BY MatrixType, SizeType
    <2> QED BY <2>1 DEF PC!CD!PositiveColumns, PC!CD!Candidates
  <1>2. CASE positive = {}
    <2>1. w.kind \in {"none", "never"} /\ w \in [kind : {"none", "never"}]
      BY <1>2 DEF PC!CD!winner
    <2> QED BY <2>1 DEF WinnerType
  <1>3. CASE positive # {}
    <2>1. w = [kind |-> IF undisputed THEN "undisputed" ELSE "some", candidate |-> first]
      BY <1>3, Zenon DEF PC!CD!winner
    <2>2. first \in positive
      <3>1. \E col \in positive : \A other \in positive : col <= other
        <4> HIDE DEF positive
        <4> QED BY <1>1, <1>3, LeastNatural
      <3> HIDE DEF positive
      <3> QED BY <3>1
    <2>3. first \in PC!CD!Candidates(t.m) /\ Beats(t, first)
      BY <1>1, <2>2, PositiveColumn DEF Beats
    <2> HIDE DEF positive, first, undisputed
    <2>4. w.kind = (IF undisputed THEN "undisputed" ELSE "some") /\ w.candidate = first
          /\ w \in WinnerType
      BY <1>1, <2>1, <2>2 DEF WinnerType
    <2>5. ASSUME undisputed, NEW x \in PC!CD!Candidates(t.m) \ {first}
          PROVE  Lead(t.m, first, x) > t.power_outstanding
      <3> DEFINE c == PC!CD!get(t.m, first, x)
      <3>1. c \in Cell /\ Value(c) > 0
        BY <2>3, LeadType DEF Beats, Lead
      <3>2. c \in PC!CD!Column(t.m, first)
        BY DEF PC!CD!Column
      <3> HIDE DEF c
      <3>3. c = PC!CD!Positive(Value(c)) /\ c.sign = "positive"
        BY <3>1, CellForm
      <3>4. c.n = Value(c)
        BY <3>3 DEF PC!CD!Positive
      <3>5. Value(c) \in margins
        BY <3>2, <3>3, <3>4 DEF PC!CD!Magnitudes
      <3> HIDE DEF margins
      <3> QED BY <2>5, <3>5 DEF undisputed, c, Lead
    <2> QED BY <2>3, <2>4, <2>5
  <1> QED BY <1>2, <1>3

----------------------------------------------------------------------------
(* A ranked vote *)

\* What a vote with this power makes of the tally.
LEMMA AddedTally ==
    ASSUME NEW t \in Tally, NEW vote \in Rankings[t.m.n], NEW power \in Nat \ {0},
           power <= t.power_outstanding, NEW u, u = PC!CD!add_vote(t, vote, power)
    PROVE  /\ u \in Tally
           /\ AddsUp(t.m, u.m, vote, Defeats(vote), power)
           /\ u.power_outstanding = t.power_outstanding - power
           /\ u.winner = PC!CD!winner(u)
           /\ u.start_height = t.start_height /\ u.expiration = t.expiration
  <1> DEFINE r == Defeated(t.m, vote, power)
             out == t.power_outstanding - power
             k == [t EXCEPT !.m = r, !.power_outstanding = out]
             w == PC!CD!winner(k)
             v == [m |-> r, power_outstanding |-> out, winner |-> w,
                   start_height |-> t.start_height, expiration |-> t.expiration]
  <1>1. /\ t.m \in Matrix /\ t.power_outstanding \in Nat /\ t.winner \in WinnerType
        /\ t.start_height \in Nat /\ t.expiration \in Nat
        /\ t = [m |-> t.m, power_outstanding |-> t.power_outstanding, winner |-> t.winner,
                start_height |-> t.start_height, expiration |-> t.expiration]
    BY DEF Tally
  <1>2. RankingOf(vote, t.m)
    BY <1>1, RankingsAreRankings
  <1>3. AddsUp(t.m, r, vote, Defeats(vote), power)
    BY <1>1, <1>2, DefeatedAddsUp
  <1>4. r \in Matrix /\ out \in Nat
    BY <1>1, <1>3 DEF AddsUp
  <1> HIDE DEF r, out
  <1>5. k.m = r /\ k.power_outstanding = out
    BY <1>1
  <1>6. u = [k EXCEPT !.winner = w]
    <2>1. u = PC!CD!Counted(k)
      BY AddedVote DEF r, out
    <2> QED BY <2>1 DEF PC!CD!Counted
  <1>7. w \in WinnerType
    <2> HIDE DEF k
    <2>1. k.m \in Matrix /\ k.power_outstanding \in Nat
      BY <1>4, <1>5
    <2> HIDE DEF w
    <2>2. w = PC!CD!winner(k)
      BY DEF w
    <2> QED BY <2>1, <2>2, WinnerFound
  <1> HIDE DEF w
  <1>8. u = v
    BY <1>1, <1>6
  <1>9. v \in Tally /\ v.m = r /\ v.power_outstanding = out /\ v.winner = w
        /\ v.start_height = t.start_height /\ v.expiration = t.expiration
    BY <1>1, <1>4, <1>7 DEF Tally
  <1> HIDE DEF v, k
  <1>10. PC!CD!winner(v) = w
    BY <1>5, <1>9, WinnerDepends DEF w
  <1> QED BY <1>3, <1>8, <1>9, <1>10, Zenon DEF out

\* What is settled stays so: the voter's power was outstanding.
LEMMA SettledStays ==
    ASSUME NEW t \in Tally, NEW u, NEW vote, NEW power \in Nat \ {0}, power <= t.power_outstanding,
           AddsUp(t.m, u.m, vote, Defeats(vote), power),
           u.power_outstanding = t.power_outstanding - power, u.expiration = t.expiration,
           NEW w \in PC!CD!Candidates(t.m), NEW h, h < t.expiration, RankSettled(t, w, h)
    PROVE  w \in PC!CD!Candidates(u.m) /\ RankSettled(u, w, h)
  <1>1. t.m \in Matrix /\ t.power_outstanding \in Nat
    BY DEF Tally
  <1>2. PC!CD!Candidates(u.m) = PC!CD!Candidates(t.m)
    BY DEF AddsUp, PC!CD!Candidates
  <1>3. ASSUME NEW x \in PC!CD!Candidates(t.m) \ {w}
        PROVE  Lead(u.m, w, x) > 0 /\ Lead(u.m, w, x) > u.power_outstanding
    <2>1. Lead(t.m, w, x) > t.power_outstanding
      BY DEF RankSettled
    <2>2. Lead(t.m, w, x) \in Int
      BY <1>1, LeadType
    <2> DEFINE p == Share(vote, Defeats(vote), w, x, power)
               q == Share(vote, Defeats(vote), x, w, power)
    <2>3. Lead(u.m, w, x) = Lead(t.m, w, x) + p - q
      BY DEF AddsUp
    <2>4. p \in 0 .. power /\ q \in 0 .. power
      BY DEF Share
    <2> HIDE DEF p, q
    <2>5. power \in Nat
      OBVIOUS
    <2> QED BY <1>1, <2>1, <2>2, <2>3, <2>4, <2>5
  <1> QED BY <1>2, <1>3 DEF RankSettled, Beats

\* u is t with a vote more: no lead moves by more than the voter's power.
Swings(t, u) ==
    /\ u \in Tally /\ u.winner = PC!CD!winner(u) /\ u.m.n = t.m.n /\ u.expiration = t.expiration
    /\ \E power \in Nat \ {0} :
           /\ power <= t.power_outstanding /\ u.power_outstanding = t.power_outstanding - power
           /\ \A x, y \in PC!CD!Candidates(t.m) : x # y =>
                  /\ Lead(t.m, x, y) - power <= Lead(u.m, x, y)
                  /\ Lead(u.m, x, y) <= Lead(t.m, x, y) + power

\* Member a, who had not voted, casts a vote: t and votes become u and after.
Cast(t, votes, a, vote, u, after) ==
    /\ t.start_height \in Heights
    /\ votes[a] = <<>> /\ PowerAt[t.start_height][a] # 0
    /\ vote \in Rankings[t.m.n]
    /\ u = PC!CD!add_vote(t, vote, PowerAt[t.start_height][a])
    /\ after = [votes EXCEPT ![a] = vote]

LEMMA VoteTallied ==
    ASSUME NEW t \in Tally, NEW votes \in RankedVotes, Tallied(t, votes),
           NEW a \in Addr, NEW vote, NEW u, NEW after, Cast(t, votes, a, vote, u, after)
    PROVE  /\ u \in Tally /\ u.m.n = t.m.n
           /\ u.start_height = t.start_height /\ u.expiration = t.expiration
           /\ after \in RankedVotes
           /\ Tallied(u, after)
           /\ \A w \in PC!CD!Candidates(t.m), h \in Nat :
                  h < t.expiration /\ RankSettled(t, w, h) => RankSettled(u, w, h)
           /\ Swings(t, u)
  <1> DEFINE H == t.start_height
             power == PowerAt[H][a]
             Silent(v) == {b \in Addr : v[b] = <<>>}
  <1>1. t.m \in Matrix /\ t.power_outstanding \in Nat /\ t.m.n \in Sizes
    BY MatrixType DEF Tally
  <1>0. /\ H \in Heights /\ votes[a] = <<>> /\ power # 0 /\ vote \in Rankings[t.m.n]
        /\ u = PC!CD!add_vote(t, vote, power) /\ after = [votes EXCEPT ![a] = vote]
    BY DEF Cast
  <1>2. power \in Nat \ {0} /\ H \in Heights
    BY <1>0 DEF Heights
  <1>3. vote # <<>> /\ RankingOf(vote, t.m)
    BY <1>0, <1>1, RankingsAreRankings
  <1>4. DOMAIN votes = Addr
    BY DEF RankedVotes
  <1>5. after \in RankedVotes /\ after[a] = vote /\ \A b \in Addr \ {a} : after[b] = votes[b]
    <2>1. vote \in UNION {Rankings[n] : n \in Sizes}
      BY <1>0, <1>1
    <2> QED BY <1>0, <2>1 DEF RankedVotes
  <1>6. Silent(votes) \in SUBSET Addr /\ a \in Silent(votes) /\ Silent(after) = Silent(votes) \ {a}
    BY <1>0, <1>3, <1>5
  <1>7. t.power_outstanding = PowerOf(H, Silent(votes))
    BY DEF Tallied
  <1> HIDE DEF Silent, H
  <1>8. PowerOf(H, Silent(after)) = t.power_outstanding - power /\ power <= t.power_outstanding
    <2>1. /\ PowerOf(H, Silent(votes) \ {a}) = PowerOf(H, Silent(votes)) - power
          /\ power <= PowerOf(H, Silent(votes))
      BY <1>2, <1>6, PowerWithout
    <2> QED BY <1>6, <1>7, <2>1
  <1> HIDE DEF power
  <1>9. /\ u \in Tally
        /\ AddsUp(t.m, u.m, vote, Defeats(vote), power)
        /\ u.power_outstanding = t.power_outstanding - power
        /\ u.winner = PC!CD!winner(u)
        /\ u.start_height = t.start_height /\ u.expiration = t.expiration
    BY <1>0, <1>2, <1>8, AddedTally
  <1>10. u.m.n = t.m.n /\ PC!CD!Candidates(u.m) = PC!CD!Candidates(t.m)
    BY <1>9 DEF AddsUp, PC!CD!Candidates
  <1>16. ASSUME NEW x, NEW y
         PROVE  /\ PowerOf(H, Preferring(after, x, y))
                       = PowerOf(H, Preferring(votes, x, y)) + Share(vote, Defeats(vote), x, y, power)
                /\ PowerOf(H, Preferring(votes, x, y)) \in Nat
    <2> DEFINE M == t.m
    <2>1. RankedBy(votes, a, M, vote, after)
      BY <1>0, <1>1, <1>4 DEF RankedBy
    <2> HIDE DEF M
    <2> QED BY <1>2, <2>1, PreferringWith DEF power
  <1>11. ASSUME NEW x \in PC!CD!Candidates(t.m), NEW y \in PC!CD!Candidates(t.m), x # y
         PROVE  Lead(u.m, x, y) = Margin(u, after, x, y)
    <2> DEFINE p == Share(vote, Defeats(vote), x, y, power)
               q == Share(vote, Defeats(vote), y, x, power)
               fore == PowerOf(H, Preferring(votes, x, y))
               against == PowerOf(H, Preferring(votes, y, x))
    <2>1. Lead(u.m, x, y) = Lead(t.m, x, y) + p - q
      BY <1>9, <1>11 DEF AddsUp
    <2>2. Lead(t.m, x, y) = fore - against
      BY <1>11 DEF Tallied, Margin, H
    <2>3. /\ PowerOf(H, Preferring(after, x, y)) = fore + p
          /\ fore \in Nat
      BY <1>16
    <2>4. /\ PowerOf(H, Preferring(after, y, x)) = against + q
          /\ against \in Nat
      BY <1>16
    <2>5. p \in Nat /\ q \in Nat
      BY <1>2 DEF Share
    <2> HIDE DEF p, q, fore, against
    <2>6. Margin(u, after, x, y) = (fore + p) - (against + q)
      BY <1>9, <2>3, <2>4 DEF Margin, H
    <2> QED BY <2>1, <2>2, <2>3, <2>4, <2>5, <2>6
  <1>12. \A b \in Addr : after[b] = <<>> \/ after[b] \in Rankings[u.m.n]
    BY <1>0, <1>5, <1>10 DEF Tallied
  <1>13. u.power_outstanding = PowerOf(u.start_height, {b \in Addr : after[b] = <<>>})
    BY <1>8, <1>9 DEF Silent, H
  <1>14. Tallied(u, after)
    BY <1>9, <1>10, <1>11, <1>12, <1>13 DEF Tallied
  <1>15. ASSUME NEW w \in PC!CD!Candidates(t.m), NEW h \in Nat, h < t.expiration, RankSettled(t, w, h)
         PROVE  RankSettled(u, w, h)
    BY <1>2, <1>8, <1>9, <1>15, SettledStays
  <1>17. ASSUME NEW x \in PC!CD!Candidates(t.m), NEW y \in PC!CD!Candidates(t.m), x # y
         PROVE  /\ Lead(t.m, x, y) - power <= Lead(u.m, x, y)
                /\ Lead(u.m, x, y) <= Lead(t.m, x, y) + power
    <2> DEFINE p == Share(vote, Defeats(vote), x, y, power)
               q == Share(vote, Defeats(vote), y, x, power)
    <2>1. Lead(u.m, x, y) = Lead(t.m, x, y) + p - q
      BY <1>9, <1>17 DEF AddsUp
    <2>2. p \in 0 .. power /\ q \in 0 .. power
      BY <1>2 DEF Share
    <2>3. Lead(t.m, x, y) \in Int /\ power \in Nat
      BY <1>1, <1>2, <1>17, LeadType
    <2> HIDE DEF p, q
    <2> QED BY <2>1, <2>2, <2>3
  <1>18. Swings(t, u)
    BY <1>2, <1>8, <1>9, <1>10, <1>17 DEF Swings
  <1> QED BY <1>5, <1>9, <1>10, <1>14, <1>15, <1>18

LEMMA RankedVoteOK ==
    ASSUME NEW p \in RankedProposal, NEW t \in Tally, NEW votes \in RankedVotes, NEW ran, NEW h \in Nat,
           RankedOK(p, t, votes, ran, h), NEW a \in Addr, h < t.expiration,
           NEW vote, NEW u, NEW after, Cast(t, votes, a, vote, u, after)
    PROVE  u \in Tally /\ after \in RankedVotes /\ RankedOK(p, u, after, ran, h) /\ Swings(t, u)
  <1>1. Tallied(t, votes)
    BY DEF RankedOK
  <1>2. /\ u \in Tally /\ u.m.n = t.m.n
        /\ u.start_height = t.start_height /\ u.expiration = t.expiration
        /\ after \in RankedVotes
        /\ Tallied(u, after)
        /\ \A w \in PC!CD!Candidates(t.m), k \in Nat :
               k < t.expiration /\ RankSettled(t, w, k) => RankSettled(u, w, k)
        /\ Swings(t, u)
    BY <1>1, VoteTallied
  <1>3. PC!CD!Candidates(u.m) = PC!CD!Candidates(t.m) /\ u.m \in Matrix
    BY <1>2 DEF PC!CD!Candidates, Tally
  <1>4. p.last_status.kind \in Passed => \E w \in PC!CD!Candidates(u.m) : RankSettled(u, w, h)
    BY <1>2, <1>3 DEF RankedOK
  <1>5. ASSUME p.last_status.kind = "executed", NEW w \in PC!CD!Candidates(u.m), Beats(u, w)
        PROVE  ran = <<w>>
    <2>1. PICK v \in PC!CD!Candidates(t.m) : RankSettled(t, v, h)
      BY <1>5 DEF RankedOK, Passed
    <2>2. RankSettled(u, v, h)
      BY <1>2, <2>1
    <2>3. v = w
      BY <1>3, <1>5, <2>1, <2>2, OneWinner DEF RankSettled
    <2>4. ran = <<v>>
      BY <1>5, <2>1 DEF RankedOK, RankSettled
    <2> QED BY <2>3, <2>4
  <1>6. /\ u.start_height <= h /\ Len(p.choices) = u.m.n
        /\ p.total_power = PowerOf(u.start_height, Addr)
        /\ p.last_status.kind # "executed" => ran = <<>>
    BY <1>2 DEF RankedOK
  <1> QED BY <1>2, <1>4, <1>5, <1>6 DEF RankedOK

----------------------------------------------------------------------------
(* dao-proposal-condorcet: what calls make of proposals *)

\* The ends a proposal may come to when its status is now.
RankedEnds(now, k) ==
    \/ now = "rejected" /\ k = "closed"
    \/ now = "passed" /\ k \in {"executed", "execution_failed"}

\* A call in block h makes q and u of the proposal p and its tally t.
RankedMoves(p, t, q, u, h) ==
    \/ q = p /\ u = t
    \/ /\ u = t
       /\ \E k : /\ q = [p EXCEPT !.last_status = [kind |-> k]]
                 /\ RankedEnds(PC!CD!status(p, t, h).kind, k)
    \/ q = p /\ h < t.expiration /\ Swings(t, u)

RankedMoved(s, r, h) ==
    \A i \in DOMAIN s.proposals :
        /\ i \in DOMAIN r.proposals
        /\ RankedMoves(s.proposals[i], s.tallies[i], r.proposals[i], r.tallies[i], h)

LEMMA RankedNoneMoves ==
    ASSUME NEW s, NEW r, r.proposals = s.proposals, r.tallies = s.tallies, NEW h
    PROVE  RankedMoved(s, r, h)
  BY DEF RankedMoved, RankedMoves

LEMMA RankedOneMoves ==
    ASSUME NEW s, NEW h, NEW k, RankedInv(s, k), NEW id \in DOMAIN s.proposals, NEW r, NEW q, NEW u,
           r.proposals = [s.proposals EXCEPT ![id] = q], r.tallies = [s.tallies EXCEPT ![id] = u],
           RankedMoves(s.proposals[id], s.tallies[id], q, u, h)
    PROVE  RankedMoved(s, r, h)
  <1>1. DOMAIN s.tallies = DOMAIN s.proposals
    BY DEF RankedInv
  <1>2. \A i \in DOMAIN s.proposals :
            RankedMoves(s.proposals[i], s.tallies[i], s.proposals[i], s.tallies[i], h)
    BY DEF RankedMoves
  <1>3. \A i \in DOMAIN s.proposals :
            /\ i \in DOMAIN r.proposals
            /\ r.proposals[i] = IF i = id THEN q ELSE s.proposals[i]
            /\ r.tallies[i] = IF i = id THEN u ELSE s.tallies[i]
    BY <1>1
  <1> QED BY <1>2, <1>3, Zenon DEF RankedMoved

----------------------------------------------------------------------------
(* dao-proposal-condorcet: the storage *)

\* s with another proposal, tally, votes or list of runs at id.
RankedReplaced(s, id, p, tally, votes, ran) ==
    [s EXCEPT !.proposals[id] = p, !.tallies[id] = tally, !.votes[id] = votes, !.ran[id] = ran]

\* s with one more proposal.
RankedAppended(s, p, tally, votes) ==
    [s EXCEPT !.proposals = Append(@, p), !.tallies = Append(@, tally),
              !.votes = Append(@, votes), !.ran = Append(@, <<>>)]

LEMMA RankedLists ==
    ASSUME NEW s, NEW h, RankedInv(s, h)
    PROVE  /\ s \in RankedStore
           /\ s.proposals \in Seq(RankedProposal) /\ s.tallies \in Seq(Tally)
           /\ s.votes \in Seq(RankedVotes) /\ s.ran \in Seq(Seq(Nat))
           /\ DOMAIN s.tallies = DOMAIN s.proposals /\ DOMAIN s.votes = DOMAIN s.proposals
           /\ DOMAIN s.ran = DOMAIN s.proposals
  BY DEF RankedInv, RankedStore

LEMMA RankedAt ==
    ASSUME NEW s, NEW h, RankedInv(s, h), NEW id \in DOMAIN s.proposals
    PROVE  /\ s.proposals[id] \in RankedProposal /\ s.tallies[id] \in Tally
           /\ s.votes[id] \in RankedVotes /\ s.ran[id] \in Seq(Nat)
           /\ RankedOK(s.proposals[id], s.tallies[id], s.votes[id], s.ran[id], h)
  <1>1. /\ s.proposals \in Seq(RankedProposal) /\ s.tallies \in Seq(Tally)
        /\ s.votes \in Seq(RankedVotes) /\ s.ran \in Seq(Seq(Nat))
        /\ DOMAIN s.tallies = DOMAIN s.proposals /\ DOMAIN s.votes = DOMAIN s.proposals
        /\ DOMAIN s.ran = DOMAIN s.proposals
    BY RankedLists
  <1>2. RankedOK(s.proposals[id], s.tallies[id], s.votes[id], s.ran[id], h)
    BY DEF RankedInv
  <1> QED BY <1>1, <1>2

LEMMA RankedReplacedInv ==
    ASSUME NEW s, NEW h, RankedInv(s, h), NEW id \in DOMAIN s.proposals,
           NEW p \in RankedProposal, NEW tally \in Tally, NEW votes \in RankedVotes, NEW ran \in Seq(Nat),
           RankedOK(p, tally, votes, ran, h)
    PROVE  RankedInv(RankedReplaced(s, id, p, tally, votes, ran), h)
  <1> DEFINE ps == [s.proposals EXCEPT ![id] = p]
             ts == [s.tallies EXCEPT ![id] = tally]
             vs == [s.votes EXCEPT ![id] = votes]
             rs == [s.ran EXCEPT ![id] = ran]
             t == [s EXCEPT !.proposals = ps, !.tallies = ts, !.votes = vs, !.ran = rs]
  <1>1. /\ s \in RankedStore
        /\ s.proposals \in Seq(RankedProposal) /\ s.tallies \in Seq(Tally)
        /\ s.votes \in Seq(RankedVotes) /\ s.ran \in Seq(Seq(Nat))
        /\ DOMAIN s.tallies = DOMAIN s.proposals /\ DOMAIN s.votes = DOMAIN s.proposals
        /\ DOMAIN s.ran = DOMAIN s.proposals
    BY RankedLists
  <1>2. /\ ps \in Seq(RankedProposal) /\ DOMAIN ps = DOMAIN s.proposals /\ ps[id] = p
        /\ \A j \in DOMAIN s.proposals \ {id} : ps[j] = s.proposals[j]
    BY <1>1, SeqExcept
  <1>3. /\ ts \in Seq(Tally) /\ DOMAIN ts = DOMAIN s.tallies /\ ts[id] = tally
        /\ \A j \in DOMAIN s.tallies \ {id} : ts[j] = s.tallies[j]
    BY <1>1, SeqExcept
  <1>4. /\ vs \in Seq(RankedVotes) /\ DOMAIN vs = DOMAIN s.votes /\ vs[id] = votes
        /\ \A j \in DOMAIN s.votes \ {id} : vs[j] = s.votes[j]
    BY <1>1, SeqExcept
  <1>5. /\ rs \in Seq(Seq(Nat)) /\ DOMAIN rs = DOMAIN s.ran /\ rs[id] = ran
        /\ \A j \in DOMAIN s.ran \ {id} : rs[j] = s.ran[j]
    BY <1>1, SeqExcept
  <1>6. t = RankedReplaced(s, id, p, tally, votes, ran)
    BY DEF RankedReplaced
  <1> HIDE DEF ps, ts, vs, rs
  <1>7. t \in RankedStore /\ t.proposals = ps /\ t.tallies = ts /\ t.votes = vs /\ t.ran = rs
    BY <1>1, <1>2, <1>3, <1>4, <1>5 DEF RankedStore
  <1> HIDE DEF t
  <1>8. ASSUME NEW j \in DOMAIN ps PROVE RankedOK(ps[j], ts[j], vs[j], rs[j], h)
    <2>1. CASE j = id
      BY <2>1, <1>2, <1>3, <1>4, <1>5
    <2>2. CASE j # id
      <3>1. j \in DOMAIN s.proposals /\ ps[j] = s.proposals[j] /\ ts[j] = s.tallies[j]
            /\ vs[j] = s.votes[j] /\ rs[j] = s.ran[j]
        BY <1>1, <1>2, <1>3, <1>4, <1>5, <2>2
      <3> QED BY <3>1 DEF RankedInv
    <2> QED BY <2>1, <2>2
  <1>9. RankedInv(t, h)
    BY <1>1, <1>2, <1>3, <1>4, <1>5, <1>7, <1>8 DEF RankedInv
  <1> QED BY <1>6, <1>9

LEMMA RankedAppendedInv ==
    ASSUME NEW s, NEW h, RankedInv(s, h),
           NEW p \in RankedProposal, NEW tally \in Tally, NEW votes \in RankedVotes,
           RankedOK(p, tally, votes, <<>>, h)
    PROVE  /\ RankedInv(RankedAppended(s, p, tally, votes), h)
           /\ RankedMoved(s, RankedAppended(s, p, tally, votes), h)
  <1> DEFINE ps == Append(s.proposals, p)
             ts == Append(s.tallies, tally)
             vs == Append(s.votes, votes)
             rs == Append(s.ran, <<>>)
             n == Len(s.proposals) + 1
             t == [s EXCEPT !.proposals = ps, !.tallies = ts, !.votes = vs, !.ran = rs]
  <1>1. /\ s \in RankedStore
        /\ s.proposals \in Seq(RankedProposal) /\ s.tallies \in Seq(Tally)
        /\ s.votes \in Seq(RankedVotes) /\ s.ran \in Seq(Seq(Nat)) /\ <<>> \in Seq(Nat)
        /\ DOMAIN s.tallies = DOMAIN s.proposals /\ DOMAIN s.votes = DOMAIN s.proposals
        /\ DOMAIN s.ran = DOMAIN s.proposals
    BY RankedLists
  <1>2. Len(s.tallies) + 1 = n /\ Len(s.votes) + 1 = n /\ Len(s.ran) + 1 = n
    BY <1>1
  <1>3. /\ ps \in Seq(RankedProposal) /\ DOMAIN ps = DOMAIN s.proposals \cup {n} /\ ps[n] = p
        /\ \A j \in DOMAIN s.proposals : ps[j] = s.proposals[j]
    BY <1>1, SeqAppend
  <1>4. /\ ts \in Seq(Tally) /\ DOMAIN ts = DOMAIN s.tallies \cup {n} /\ ts[n] = tally
        /\ \A j \in DOMAIN s.tallies : ts[j] = s.tallies[j]
    BY <1>1, <1>2, SeqAppend
  <1>5. /\ vs \in Seq(RankedVotes) /\ DOMAIN vs = DOMAIN s.votes \cup {n} /\ vs[n] = votes
        /\ \A j \in DOMAIN s.votes : vs[j] = s.votes[j]
    BY <1>1, <1>2, SeqAppend
  <1>6. /\ rs \in Seq(Seq(Nat)) /\ DOMAIN rs = DOMAIN s.ran \cup {n} /\ rs[n] = <<>>
        /\ \A j \in DOMAIN s.ran : rs[j] = s.ran[j]
    BY <1>1, <1>2, SeqAppend
  <1>7. t = RankedAppended(s, p, tally, votes)
    BY DEF RankedAppended
  <1> HIDE DEF ps, ts, vs, rs
  <1>8. t \in RankedStore /\ t.proposals = ps /\ t.tallies = ts /\ t.votes = vs /\ t.ran = rs
    BY <1>1, <1>3, <1>4, <1>5, <1>6 DEF RankedStore
  <1> HIDE DEF n, t
  <1>9. ASSUME NEW j \in DOMAIN ps PROVE RankedOK(ps[j], ts[j], vs[j], rs[j], h)
    <2>1. CASE j = n
      BY <2>1, <1>3, <1>4, <1>5, <1>6
    <2>2. CASE j # n
      <3>1. j \in DOMAIN s.proposals /\ ps[j] = s.proposals[j] /\ ts[j] = s.tallies[j]
            /\ vs[j] = s.votes[j] /\ rs[j] = s.ran[j]
        BY <1>1, <1>3, <1>4, <1>5, <1>6, <2>2
      <3> QED BY <3>1 DEF RankedInv
    <2> QED BY <2>1, <2>2
  <1>10. RankedInv(t, h)
    BY <1>1, <1>3, <1>4, <1>5, <1>6, <1>8, <1>9 DEF RankedInv
  <1>11. RankedMoved(s, t, h)
    BY <1>1, <1>3, <1>4, <1>8 DEF RankedMoved, RankedMoves
  <1> QED BY <1>7, <1>10, <1>11

\* The storages that differ from s in the configuration only.
Configured(s) == {[s EXCEPT !.config = c] : c \in PC!Config}

LEMMA ConfiguredInv ==
    ASSUME NEW s, NEW h, RankedInv(s, h), NEW t \in Configured(s)
    PROVE  RankedInv(t, h)
  <1>1. PICK c \in PC!Config : t = [s EXCEPT !.config = c]
    BY DEF Configured
  <1>2. s \in RankedStore
    BY DEF RankedInv
  <1>3. /\ t \in RankedStore /\ t.proposals = s.proposals /\ t.tallies = s.tallies
        /\ t.votes = s.votes /\ t.ran = s.ran
    BY <1>1, <1>2 DEF RankedStore
  <1> QED BY <1>3 DEF RankedInv

LEMMA ConfiguredMoved ==
    ASSUME NEW s, NEW h, NEW u \in RankedStore, RankedMoved(s, u, h), NEW r \in Configured(u)
    PROVE  RankedMoved(s, r, h)
  <1>1. r.proposals = u.proposals /\ r.tallies = u.tallies
    BY DEF Configured, RankedStore
  <1> QED BY <1>1, Zenon DEF RankedMoved

LEMMA RankedDaoCall ==
    ASSUME NEW s \in RankedStore, NEW call \in PC!Call, NEW t \in PC!DaoCall(s, call)
    PROVE  t \in Configured(s)
  <1>1. CASE call.kind = "update_config"
    <2>1. call.config \in PC!Config
      BY <1>1 DEF PC!Call
    <2>2. t = [s EXCEPT !.config = call.config]
      BY <1>1 DEF PC!DaoCall, PC!execute_set_config
    <2> QED BY <2>1, <2>2 DEF Configured
  <1>2. CASE call.kind # "update_config"
    <2>1. t = s
      BY <1>2 DEF PC!DaoCall
    <2>2. s.config \in PC!Config /\ s = [s EXCEPT !.config = s.config]
      BY DEF RankedStore
    <2> QED BY <2>1, <2>2 DEF Configured
  <1> QED BY <1>1, <1>2

----------------------------------------------------------------------------
(* dao-proposal-condorcet: execution *)

\* g gives, for each set of positions in msgs, the storages after those calls.
RankedCalls(g, base, msgs) ==
    g = [U \in SUBSET DOMAIN msgs |->
            IF U = {} THEN base ELSE UNION {PC!DaoCall(t, msgs[Latest(U)]) : t \in g[U \ {Latest(U)}]}]

LEMMA RankedExecutedIsCalls ==
    ASSUME NEW s, NEW id, NEW w
    PROVE  PC!Executed(s, id, w) =
               (CHOOSE g : RankedCalls(g, {[s EXCEPT !.ran[id] = Append(@, w)]},
                                       s.proposals[id].choices[w + 1]))
                   [DOMAIN s.proposals[id].choices[w + 1]]
  BY Zenon DEF PC!Executed, PC!FoldLeft, PC!MapThenFoldSet, PC!Max, RankedCalls, Latest

\* All storages after the calls are in a set that each call keeps.
LEMMA RankedCallsKeep ==
    ASSUME NEW T, NEW base \in SUBSET T, NEW M, NEW msgs \in Seq(M),
           \A t \in T : \A i \in DOMAIN msgs : PC!DaoCall(t, msgs[i]) \subseteq T
    PROVE  (CHOOSE g : RankedCalls(g, base, msgs))[DOMAIN msgs] \subseteq T
  <1> DEFINE S == 1 .. Len(msgs)
             pick == PickLatest(S)
             after(p) == UNION {PC!DaoCall(t, msgs[p[1]]) : t \in p[2]}
             step == [p \in S \X SUBSET T |-> after(p)]
             g == Folding(base, step, pick, S)
  <1>1. S = DOMAIN msgs /\ IsFiniteSet(S)
    BY FS_Interval
  <1>2. \A U \in SUBSET S : U # {} => pick[U] \in U /\ pick[U] = Latest(U)
    BY PicksLatest
  <1>3. \A x \in S : \A t \in SUBSET T : step[<<x, t>>] = after(<<x, t>>) /\ after(<<x, t>>) \in SUBSET T
    <2>1. SUFFICES ASSUME NEW x \in S, NEW t \in SUBSET T
                   PROVE  step[<<x, t>>] = after(<<x, t>>) /\ after(<<x, t>>) \in SUBSET T
      BY Zenon
    <2>2. \A u \in t : PC!DaoCall(u, msgs[x]) \subseteq T
      BY <1>1
    <2> QED BY <2>2
  <1> HIDE DEF S, pick, step, g
  <1>4. FoldsTo(g, base, step, pick, S)
    BY <1>1, <1>2, FoldExists DEF g
  <1>5. \A U \in SUBSET S : g[U] \in SUBSET T
    <2>1. \A x \in S : \A t \in SUBSET T : step[<<x, t>>] \in SUBSET T
      BY <1>3
    <2>2. base \in SUBSET T
      OBVIOUS
    <2> HIDE DEF after
    <2> QED BY <1>1, <1>2, <1>4, <2>1, <2>2, FoldType
  <1>6. RankedCalls(g, base, msgs)
    <2>1. ASSUME NEW U \in SUBSET S, U # {}
          PROVE  step[<<pick[U], g[U \ {pick[U]}]>>]
                     = UNION {PC!DaoCall(t, msgs[Latest(U)]) : t \in g[U \ {Latest(U)}]}
      <3>1. pick[U] \in S /\ pick[U] = Latest(U) /\ U \ {Latest(U)} \in SUBSET S
        BY <1>2, <2>1
      <3>2. step[<<pick[U], g[U \ {pick[U]}]>>] = after(<<pick[U], g[U \ {pick[U]}]>>)
        BY <1>3, <1>5, <3>1
      <3> QED BY <3>1, <3>2
    <2>2. g = [U \in SUBSET S |-> IF U = {} THEN base ELSE step[<<pick[U], g[U \ {pick[U]}]>>]]
      BY <1>4 DEF FoldsTo
    <2>3. g = [U \in SUBSET S |-> IF U = {} THEN base
                  ELSE UNION {PC!DaoCall(t, msgs[Latest(U)]) : t \in g[U \ {Latest(U)}]}]
      BY <2>1, <2>2
    <2> QED BY <1>1, <2>3 DEF RankedCalls
  <1> DEFINE h == CHOOSE k : RankedCalls(k, base, msgs)
  <1>7. RankedCalls(h, base, msgs)
    BY <1>6
  <1> HIDE DEF h
  <1>8. \A U \in SUBSET S : h[U] = IF U = {} THEN base
                  ELSE UNION {PC!DaoCall(t, msgs[Latest(U)]) : t \in h[U \ {Latest(U)}]}
    BY <1>1, <1>7 DEF RankedCalls
  <1>9. \A U \in SUBSET S : h[U] \subseteq T
    <2> DEFINE C == {U \in SUBSET S : ~(h[U] \subseteq T)}
    <2>1. SUFFICES ASSUME C # {} PROVE FALSE
      OBVIOUS
    <2>2. C \subseteq SUBSET S
      OBVIOUS
    <2> HIDE DEF C
    <2>3. \E U \in C : \A W \in C : W \subseteq U => W = U
      BY <1>1, <2>1, <2>2, MinimalSet
    <2>4. PICK U \in C : \A W \in C : W \subseteq U => W = U
      BY <2>3
    <2>5. U \in SUBSET S /\ ~(h[U] \subseteq T)
      BY DEF C
    <2>6. U # {} /\ h[U] = UNION {PC!DaoCall(t, msgs[Latest(U)]) : t \in h[U \ {Latest(U)}]}
      BY <1>8, <2>5
    <2>7. Latest(U) \in U
      BY <1>2, <2>5, <2>6
    <2>8. h[U \ {Latest(U)}] \subseteq T
      BY <2>4, <2>5, <2>7 DEF C
    <2>9. \A t \in h[U \ {Latest(U)}] : PC!DaoCall(t, msgs[Latest(U)]) \subseteq T
      BY <1>1, <2>5, <2>7, <2>8
    <2> QED BY <2>5, <2>6, <2>9
  <1> QED BY <1>1, <1>9 DEF h


\* Messages of a choice change the configuration only.
LEMMA RankedExecuted ==
    ASSUME NEW s \in RankedStore, NEW id, NEW w, NEW base, base = [s EXCEPT !.ran[id] = Append(@, w)],
           base \in RankedStore, s.proposals[id].choices[w + 1] \in Seq(PC!Call)
    PROVE  PC!Executed(s, id, w) \subseteq Configured(base)
  <1> DEFINE T == Configured(base)
             msgs == s.proposals[id].choices[w + 1]
  <1>1. base \in T /\ T \subseteq RankedStore
    <2>1. base.config \in PC!Config /\ base = [base EXCEPT !.config = base.config]
      BY DEF RankedStore
    <2>2. \A c \in PC!Config : [base EXCEPT !.config = c] \in RankedStore
      BY DEF RankedStore
    <2> QED BY <2>1, <2>2 DEF Configured
  <1>2. ASSUME NEW t \in T, NEW i \in DOMAIN msgs PROVE PC!DaoCall(t, msgs[i]) \subseteq T
    <2>1. SUFFICES ASSUME NEW u \in PC!DaoCall(t, msgs[i]) PROVE u \in T
      OBVIOUS
    <2>7. msgs \in Seq(PC!Call)
      OBVIOUS
    <2> HIDE DEF msgs
    <2>8. msgs[i] \in PC!Call
      BY <2>7
    <2>2. t \in RankedStore /\ msgs[i] \in PC!Call
      BY <1>1, <2>8, Zenon
    <2>3. u \in Configured(t)
      BY <2>2, RankedDaoCall
    <2>4. PICK c \in PC!Config : u = [t EXCEPT !.config = c]
      BY <2>3 DEF Configured
    <2>5. PICK d \in PC!Config : t = [base EXCEPT !.config = d]
      BY DEF Configured
    <2>6. u = [base EXCEPT !.config = c]
      BY <2>4, <2>5 DEF RankedStore
    <2> QED BY <2>6 DEF Configured
  <1>3. {base} \in SUBSET T /\ msgs \in Seq(PC!Call)
    BY <1>1
  <1> HIDE DEF T, msgs
  <1>4. (CHOOSE g : RankedCalls(g, {base}, msgs))[DOMAIN msgs] \subseteq T
    BY <1>2, <1>3, RankedCallsKeep
  <1>5. PC!Executed(s, id, w) = (CHOOSE g : RankedCalls(g, {base}, msgs))[DOMAIN msgs]
    BY RankedExecutedIsCalls DEF msgs
  <1> QED BY <1>4, <1>5 DEF T

\* A proposal that passes is open and settled.
LEMMA RankedPasses ==
    ASSUME NEW p \in RankedProposal, NEW t \in Tally, t.winner = PC!CD!winner(t), NEW h \in Nat,
           PC!CD!status(p, t, h).kind = "passed"
    PROVE  /\ p.last_status.kind = "open"
           /\ PC!CD!status(p, t, h).winner \in PC!CD!Candidates(t.m)
           /\ RankSettled(t, PC!CD!status(p, t, h).winner, h)
  <1> DEFINE w == t.winner
  <1>1. /\ t.m \in Matrix /\ t.power_outstanding \in Nat /\ t.expiration \in Nat
        /\ p.last_status \in RankedStatus
    BY DEF Tally, RankedProposal
  <1>2. /\ w \in WinnerType
        /\ w.kind \in {"some", "undisputed"} =>
               w.candidate \in PC!CD!Candidates(t.m) /\ Beats(t, w.candidate)
        /\ w.kind = "undisputed" =>
               \A x \in PC!CD!Candidates(t.m) \ {w.candidate} :
                   Lead(t.m, w.candidate, x) > t.power_outstanding
    BY <1>1, WinnerFound
  <1>3. p.last_status = PC!CD!Open /\ p.last_status.kind = "open"
    <2>1. p.last_status.kind # "passed"
      BY <1>1 DEF RankedStatus
    <2>2. p.last_status = PC!CD!Open
      BY <2>1 DEF PC!CD!status
    <2> QED BY <2>2 DEF PC!CD!Open
  <1>4. w.kind \in {"none", "never", "some", "undisputed"}
    BY <1>2 DEF WinnerType
  <1>5. w.kind \in {"some", "undisputed"}
        /\ PC!CD!status(p, t, h) = PC!CD!Passed(w.candidate)
        /\ (w.kind = "some" => PC!CD!V!is_expired(t.expiration, h))
    <2>1. ~(PC!CD!status(p, t, h) = PC!CD!Open) /\ ~(PC!CD!status(p, t, h) = PC!CD!Rejected)
      BY DEF PC!CD!Open, PC!CD!Rejected
    <2>2. CASE w.kind = "none"
      BY <1>3, <2>1, <2>2 DEF PC!CD!status
    <2>3. CASE w.kind = "never"
      BY <1>3, <2>1, <2>3 DEF PC!CD!status, PC!CD!Open
    <2>4. CASE w.kind = "some"
      BY <1>3, <2>1, <2>4 DEF PC!CD!status
    <2>5. CASE w.kind = "undisputed"
      BY <1>3, <2>1, <2>5 DEF PC!CD!status
    <2> QED BY <1>4, <2>2, <2>3, <2>4, <2>5
  <1> HIDE DEF w
  <1>6. PC!CD!status(p, t, h).winner = w.candidate
    BY <1>5 DEF PC!CD!Passed
  <1>7. RankSettled(t, w.candidate, h)
    <2>1. w.kind = "some" => ~(h < t.expiration)
      BY <1>1, <1>5 DEF PC!CD!V!is_expired
    <2> QED BY <1>2, <1>5, <2>1 DEF RankSettled
  <1> QED BY <1>2, <1>3, <1>5, <1>6, <1>7

\* Only the status, which is not that of a passed proposal, and the runs change.
LEMMA RankedEnded ==
    ASSUME NEW s, NEW h, RankedInv(s, h), NEW id \in DOMAIN s.proposals, NEW k,
           k \in {"rejected", "closed", "execution_failed"},
           k = "execution_failed" =>
               \E w \in PC!CD!Candidates(s.tallies[id].m) : RankSettled(s.tallies[id], w, h),
           RankedEnds(PC!CD!status(s.proposals[id], s.tallies[id], h).kind, k),
           s.ran[id] = <<>>, NEW r,
           r = [s EXCEPT !.proposals[id] = [s.proposals[id] EXCEPT !.last_status = [kind |-> k]]]
    PROVE  RankedInv(r, h) /\ RankedMoved(s, r, h)
  <1> DEFINE p == s.proposals[id]
             t == s.tallies[id]
             vs == s.votes[id]
             q == [p EXCEPT !.last_status = [kind |-> k]]
  <1>1. /\ p \in RankedProposal /\ t \in Tally /\ vs \in RankedVotes /\ RankedOK(p, t, vs, <<>>, h)
        /\ <<>> \in Seq(Nat)
    BY RankedAt
  <1>2. /\ s \in RankedStore /\ s.tallies \in Seq(Tally) /\ s.votes \in Seq(RankedVotes)
        /\ s.ran \in Seq(Seq(Nat))
        /\ DOMAIN s.tallies = DOMAIN s.proposals /\ DOMAIN s.votes = DOMAIN s.proposals
        /\ DOMAIN s.ran = DOMAIN s.proposals
    BY RankedLists
  <1>3. /\ q \in RankedProposal /\ q.last_status.kind = k
        /\ q.choices = p.choices /\ q.total_power = p.total_power
    BY <1>1 DEF RankedProposal, RankedStatus
  <1>4. k # "executed" /\ (k \in Passed => k = "execution_failed")
    BY DEF Passed
  <1> DEFINE settled == \E w \in PC!CD!Candidates(t.m) : RankSettled(t, w, h)
  <1>5. k \in Passed => settled
    BY <1>4
  <1>6. [s.tallies EXCEPT ![id] = t] = s.tallies /\ [s.votes EXCEPT ![id] = vs] = s.votes
        /\ [s.ran EXCEPT ![id] = <<>>] = s.ran
    BY <1>2, SeqSame
  <1>7. r = [s EXCEPT !.proposals[id] = q]
    OBVIOUS
  <1>11. RankedMoves(p, t, q, t, h)
    BY DEF RankedMoves
  <1> HIDE DEF q
  <1>12. /\ r.proposals = [s.proposals EXCEPT ![id] = q]
         /\ r.tallies = [s.tallies EXCEPT ![id] = t]
    BY <1>2, <1>6, <1>7 DEF RankedStore
  <1>8. r = RankedReplaced(s, id, q, t, vs, <<>>)
    BY <1>2, <1>6, <1>7 DEF RankedReplaced, RankedStore
  <1> HIDE DEF p, t, vs, settled
  <1>9. RankedOK(q, t, vs, <<>>, h)
    BY <1>1, <1>3, <1>4, <1>5, Zenon DEF RankedOK, settled
  <1>10. RankedInv(RankedReplaced(s, id, q, t, vs, <<>>), h)
    <2>1. id \in DOMAIN s.proposals
      OBVIOUS
    <2> QED BY <1>1, <1>3, <1>9, <2>1, RankedReplacedInv, Zenon
  <1>13. RankedMoved(s, r, h)
    BY <1>11, <1>12, RankedOneMoves DEF p, t
  <1> QED BY <1>8, <1>10, <1>13, Zenon

LEMMA RankedCloseInv ==
    ASSUME NEW s, NEW h \in Nat, RankedInv(s, h), NEW id \in DOMAIN s.proposals,
           NEW r \in PC!execute_close(s, h, id)
    PROVE  RankedInv(r, h) /\ RankedMoved(s, r, h)
  <1> DEFINE p == s.proposals[id]
             t == s.tallies[id]
  <1>1. p \in RankedProposal /\ s.ran[id] \in Seq(Nat) /\ RankedOK(p, t, s.votes[id], s.ran[id], h)
    BY RankedAt
  <1>2. /\ PC!CD!update_status(p, t, h).last_status.kind = "rejected"
        /\ r = [s EXCEPT !.proposals[id] = [PC!CD!update_status(p, t, h) EXCEPT !.last_status = [kind |-> "closed"]]]
    BY DEF PC!execute_close
  <1>3. PC!CD!status(p, t, h).kind = "rejected"
    BY <1>1, <1>2 DEF PC!CD!update_status, RankedProposal
  <1>4. p.last_status.kind # "executed"
    BY <1>3 DEF PC!CD!status, PC!CD!Open
  <1>5. s.ran[id] = <<>>
    BY <1>1, <1>4 DEF RankedOK
  <1>6. [PC!CD!update_status(p, t, h) EXCEPT !.last_status = [kind |-> "closed"]]
            = [p EXCEPT !.last_status = [kind |-> "closed"]]
    BY <1>1 DEF PC!CD!update_status, RankedProposal
  <1>7. r = [s EXCEPT !.proposals[id] = [s.proposals[id] EXCEPT !.last_status = [kind |-> "closed"]]]
    BY <1>2, <1>6
  <1>9. RankedEnds(PC!CD!status(s.proposals[id], s.tallies[id], h).kind, "closed")
    BY <1>3 DEF RankedEnds
  <1> HIDE DEF p, t
  <1>8. "closed" \in {"rejected", "closed", "execution_failed"} /\ "closed" # "execution_failed"
    OBVIOUS
  <1> QED BY <1>5, <1>7, <1>8, <1>9, RankedEnded

LEMMA RankedExecuteInv ==
    ASSUME NEW s, NEW h \in Nat, RankedInv(s, h), NEW id \in DOMAIN s.proposals, NEW a,
           NEW r \in PC!execute_execute(s, h, a, id)
    PROVE  RankedInv(r, h) /\ RankedMoved(s, r, h)
  <1> DEFINE p == s.proposals[id]
             t == s.tallies[id]
             vs == s.votes[id]
             u == PC!CD!update_status(p, t, h)
             q == [u EXCEPT !.last_status = [kind |-> "executed"]]
             saved == [s EXCEPT !.proposals[id] = q]
             w == u.last_status.winner
             base == [saved EXCEPT !.ran[id] = Append(@, w)]
  <1>1. /\ p \in RankedProposal /\ t \in Tally /\ vs \in RankedVotes /\ s.ran[id] \in Seq(Nat)
        /\ RankedOK(p, t, vs, s.ran[id], h)
    BY RankedAt
  <1>2. /\ s \in RankedStore /\ s.proposals \in Seq(RankedProposal) /\ s.tallies \in Seq(Tally)
        /\ s.votes \in Seq(RankedVotes) /\ s.ran \in Seq(Seq(Nat))
        /\ DOMAIN s.tallies = DOMAIN s.proposals /\ DOMAIN s.votes = DOMAIN s.proposals
        /\ DOMAIN s.ran = DOMAIN s.proposals
    BY RankedLists
  <1>3. /\ u.last_status.kind = "passed"
        /\ \/ r \in PC!Executed(saved, id, w)
           \/ r \in PC!reply(saved, id)
    BY Zenon DEF PC!execute_execute
  <1>4. u.last_status = PC!CD!status(p, t, h) /\ q = [p EXCEPT !.last_status = [kind |-> "executed"]]
    BY <1>1 DEF PC!CD!update_status, RankedProposal
  <1>18. PC!CD!status(p, t, h).kind = "passed"
    BY <1>3, <1>4
  <1>19. RankedMoves(p, t, q, t, h)
    BY <1>4, <1>18 DEF RankedMoves, RankedEnds
  <1> HIDE DEF u
  <1>5. t.winner = PC!CD!winner(t)
    BY <1>1 DEF RankedOK, Tallied
  <1>6. p.last_status.kind = "open" /\ w \in PC!CD!Candidates(t.m) /\ RankSettled(t, w, h)
    BY <1>1, <1>3, <1>4, <1>5, RankedPasses
  <1>7. s.ran[id] = <<>>
    BY <1>1, <1>6 DEF RankedOK
  <1>8. w \in Nat /\ w + 1 \in 1 .. t.m.n /\ t.m \in Matrix
    <2>1. t.m \in Matrix
      BY <1>1 DEF Tally
    <2>2. t.m.n \in Nat
      BY <2>1, MatrixType, SizeType
    <2> QED BY <1>6, <2>1, <2>2 DEF PC!CD!Candidates
  <1> HIDE DEF w
  <1>9. /\ q \in RankedProposal /\ q.last_status.kind = "executed"
        /\ q.choices = p.choices /\ q.total_power = p.total_power
    BY <1>1, <1>4 DEF RankedProposal, RankedStatus
  <1> HIDE DEF q
  <1>10. RankedOK(q, t, vs, <<w>>, h)
    <2>1. \A x \in PC!CD!Candidates(t.m) : Beats(t, x) => <<w>> = <<x>>
      BY <1>6, <1>8, OneWinner DEF RankSettled
    <2>2. t.start_height <= h /\ Len(q.choices) = t.m.n /\ q.total_power = PowerOf(t.start_height, Addr)
          /\ Tallied(t, vs)
      BY <1>1, <1>9 DEF RankedOK
    <2> HIDE DEF t, vs
    <2> QED BY <1>6, <1>9, <2>1, <2>2, Zenon DEF RankedOK
  <1>11. <<w>> \in Seq(Nat)
    BY <1>8
  <1>12. base = RankedReplaced(s, id, q, t, vs, <<w>>)
    <2>1. [s.tallies EXCEPT ![id] = t] = s.tallies /\ [s.votes EXCEPT ![id] = vs] = s.votes
      BY <1>2, SeqSame
    <2>2. Append(s.ran[id], w) = <<w>>
      BY <1>7, <1>8
    <2> HIDE DEF t, vs
    <2>3. base = [s EXCEPT !.proposals[id] = q, !.ran[id] = <<w>>]
      BY <1>2, <2>2 DEF RankedStore
    <2> HIDE DEF base
    <2> QED BY <1>2, <2>1, <2>3 DEF RankedReplaced, RankedStore
  <1>13. RankedInv(base, h)
    <2> HIDE DEF base, t, vs
    <2> QED BY <1>1, <1>9, <1>10, <1>11, <1>12, RankedReplacedInv
  <1>20. RankedMoved(s, base, h)
    <2>1. /\ base.proposals = [s.proposals EXCEPT ![id] = q]
          /\ base.tallies = [s.tallies EXCEPT ![id] = t]
      <3>1. [s.tallies EXCEPT ![id] = t] = s.tallies
        BY <1>2, SeqSame
      <3> HIDE DEF t
      <3> QED BY <1>2, <3>1 DEF RankedStore
    <2>2. RankedMoves(s.proposals[id], s.tallies[id], q, t, h)
      BY <1>19
    <2>3. id \in DOMAIN s.proposals /\ RankedInv(s, h)
      OBVIOUS
    <2> HIDE DEF base, t
    <2> QED BY <2>1, <2>2, <2>3, RankedOneMoves
  <1>14. saved \in RankedStore
    <2>1. [s.proposals EXCEPT ![id] = q] \in Seq(RankedProposal)
      BY <1>2, <1>9, SeqExcept
    <2> QED BY <1>2, <2>1 DEF RankedStore
  <1>15. saved.proposals[id] = q /\ saved.ran = s.ran
    BY <1>2 DEF RankedStore
  <1>16. CASE r \in PC!Executed(saved, id, w)
    <2>1. saved.proposals[id].choices[w + 1] \in Seq(PC!Call)
      <3>1. q.choices \in Seq(Seq(PC!Call)) /\ Len(q.choices) = t.m.n
        BY <1>1, <1>9 DEF RankedProposal, RankedOK
      <3> QED BY <1>8, <1>15, <3>1
    <2>2. base \in RankedStore
      BY <1>13 DEF RankedInv
    <2> HIDE DEF saved
    <2>3. base = [saved EXCEPT !.ran[id] = Append(@, w)]
      OBVIOUS
    <2> HIDE DEF base
    <2>4. r \in Configured(base)
      BY <1>14, <1>16, <2>1, <2>2, <2>3, RankedExecuted
    <2> QED BY <1>13, <1>20, <2>2, <2>4, ConfiguredInv, ConfiguredMoved
  <1>17. CASE r \in PC!reply(saved, id)
    <2>1. r = [saved EXCEPT !.proposals[id].last_status = [kind |-> "execution_failed"]]
      BY <1>17 DEF PC!reply
    <2>2. r = [s EXCEPT !.proposals[id] = [q EXCEPT !.last_status = [kind |-> "execution_failed"]]]
      BY <1>2, <2>1 DEF RankedStore
    <2>3. [q EXCEPT !.last_status = [kind |-> "execution_failed"]]
              = [p EXCEPT !.last_status = [kind |-> "execution_failed"]]
      BY <1>1, <1>4 DEF RankedProposal
    <2>4. r = [s EXCEPT !.proposals[id] = [s.proposals[id] EXCEPT !.last_status = [kind |-> "execution_failed"]]]
      BY <2>2, <2>3
    <2>5. \E x \in PC!CD!Candidates(s.tallies[id].m) : RankSettled(s.tallies[id], x, h)
      BY <1>6
    <2>6. "execution_failed" \in {"rejected", "closed", "execution_failed"}
      OBVIOUS
    <2>7. RankedEnds(PC!CD!status(s.proposals[id], s.tallies[id], h).kind, "execution_failed")
      BY <1>18 DEF RankedEnds
    <2> HIDE DEF saved, base, p, t, vs
    <2> QED BY <1>7, <2>4, <2>5, <2>6, <2>7, RankedEnded
  <1> QED BY <1>3, <1>16, <1>17

----------------------------------------------------------------------------
(* dao-proposal-condorcet: new proposals, and the other steps *)

LEMMA NewMatrix ==
    ASSUME NEW n \in Sizes
    PROVE  /\ PC!CD!NewM(n) \in Matrix /\ PC!CD!NewM(n).n = n
           /\ \A x, y \in 0 .. n - 1 : x # y => Lead(PC!CD!NewM(n), x, y) = 0
  <1> DEFINE m == PC!CD!NewM(n)
  <1>1. PC!CD!Zero \in Cell /\ Value(PC!CD!Zero) = 0
    BY DEF Cell, PC!CD!Zero, Value
  <1>2. m \in Matrix /\ m.n = n /\ m.cells = [i \in 0 .. (n * (n - 1)) \div 2 - 1 |-> PC!CD!Zero]
    <2> DEFINE zeros == [i \in 0 .. (n * (n - 1)) \div 2 - 1 |-> PC!CD!Zero]
               rec == [n |-> n, cells |-> zeros]
    <2>1. zeros \in [0 .. (n * (n - 1)) \div 2 - 1 -> Cell]
      BY <1>1
    <2>2. m = rec
      BY DEF PC!CD!NewM
    <2> HIDE DEF zeros, m
    <2>3. rec \in Matrix /\ rec.n = n /\ rec.cells = zeros
      BY <2>1, MatrixForm
    <2> HIDE DEF rec
    <2> QED BY <2>2, <2>3 DEF zeros
  <1> HIDE DEF m
  <1>3. n \in Nat \ {0}
    BY SizeType
  <1>4. ASSUME NEW x \in 0 .. n - 1, NEW y \in 0 .. n - 1, y < x
        PROVE  Lead(m, x, y) = 0 /\ Lead(m, y, x) = 0
    <2>1. PC!CD!index(m, x, y) \in 0 .. (n * (n - 1)) \div 2 - 1
      BY <1>2, <1>3, <1>4, IndexIn
    <2>2. m.cells[PC!CD!index(m, x, y)] = PC!CD!Zero
      BY <1>2, <2>1
    <2>3. PC!CD!get(m, x, y) = PC!CD!Zero
      BY <1>3, <1>4, <2>2 DEF PC!CD!get
    <2>4. Lead(m, x, y) = 0
      BY <1>1, <2>3 DEF Lead
    <2>5. x \in PC!CD!Candidates(m) /\ y \in PC!CD!Candidates(m) /\ x # y
      BY <1>2, <1>3, <1>4 DEF PC!CD!Candidates
    <2>6. Lead(m, y, x) = 0 - Lead(m, x, y)
      BY <1>2, <2>5, LeadType
    <2> QED BY <2>4, <2>6
  <1>5. ASSUME NEW x \in 0 .. n - 1, NEW y \in 0 .. n - 1, x # y PROVE Lead(m, x, y) = 0
    <2>1. x < y \/ y < x
      BY <1>3, <1>5
    <2> QED BY <1>4, <2>1
  <1> QED BY <1>2, <1>5 DEF m

LEMMA NewTallyOK ==
    ASSUME NEW n \in Sizes, NEW h \in Heights, NEW e \in Nat, NEW power, power = PowerOf(h, Addr),
           NEW t, t = PC!CD!NewTally(n, power, h, e), NEW votes, votes = [a \in Addr |-> <<>>]
    PROVE  /\ t \in Tally /\ t.m.n = n /\ t.start_height = h /\ t.expiration = e
           /\ votes \in RankedVotes /\ Tallied(t, votes)
           /\ t.winner.kind \in {"none", "never"}
  <1> DEFINE m == PC!CD!NewM(n)
             k == [m |-> m, power_outstanding |-> power, winner |-> [kind |-> "none"],
                   start_height |-> h, expiration |-> e]
             w == PC!CD!winner(k)
             v == [m |-> m, power_outstanding |-> power, winner |-> w,
                   start_height |-> h, expiration |-> e]
  <1>1. m \in Matrix /\ m.n = n /\ \A x, y \in 0 .. n - 1 : x # y => Lead(m, x, y) = 0
    BY NewMatrix
  <1>2. power \in Nat
    BY PowerType
  <1> HIDE DEF m
  <1>3. t = [k EXCEPT !.winner = w]
    BY DEF PC!CD!NewTally, PC!CD!Counted, m
  <1>4. k.m = m /\ k.power_outstanding = power
    OBVIOUS
  <1>5. t = v
    BY <1>3
  <1> HIDE DEF k, w
  <1>6. w \in WinnerType
    BY <1>1, <1>2, <1>4, WinnerFound DEF w
  <1>7. v \in Tally /\ v.m = m /\ v.power_outstanding = power /\ v.winner = w
        /\ v.start_height = h /\ v.expiration = e
    BY <1>1, <1>2, <1>6 DEF Tally, Heights
  <1> HIDE DEF v
  <1>8. PC!CD!winner(v) = w
    BY <1>4, <1>7, WinnerDepends DEF w
  <1>9. \A b \in Addr : votes[b] = <<>>
    OBVIOUS
  <1>10. votes \in RankedVotes
    BY DEF RankedVotes
  <1>11. ASSUME NEW x, NEW y PROVE PowerOf(h, Preferring(votes, x, y)) = 0
    <2>1. Preferring(votes, x, y) = {}
      BY <1>9 DEF Preferring
    <2> QED BY <2>1, PowerOfNone
  <1>12. {b \in Addr : votes[b] = <<>>} = Addr
    BY <1>9
  <1>13. Tallied(v, votes)
    <2>1. PC!CD!Candidates(v.m) = 0 .. n - 1
      BY <1>1, <1>7 DEF PC!CD!Candidates
    <2>2. ASSUME NEW x \in 0 .. n - 1, NEW y \in 0 .. n - 1, x # y
          PROVE  Lead(v.m, x, y) = Margin(v, votes, x, y)
      <3>1. Lead(v.m, x, y) = 0
        BY <1>1, <1>7, <2>2
      <3>2. Margin(v, votes, x, y) = 0 - 0
        BY <1>7, <1>11 DEF Margin
      <3> QED BY <3>1, <3>2
    <2>3. v.power_outstanding = PowerOf(v.start_height, {b \in Addr : votes[b] = <<>>})
      BY <1>7, <1>12
    <2> QED BY <1>7, <1>8, <1>9, <2>1, <2>2, <2>3 DEF Tallied
  <1>14. w.kind \in {"none", "never"}
    <2>1. SUFFICES ASSUME w.kind \in {"some", "undisputed"} PROVE FALSE
      BY <1>6 DEF WinnerType
    <2>2. w.candidate \in PC!CD!Candidates(k.m) /\ Beats(k, w.candidate)
      BY <1>1, <1>2, <1>4, <2>1, WinnerFound DEF w
    <2>3. n \in Nat \ {0, 1}
      BY SizeType
    <2> DEFINE c == w.candidate
               d == IF c = 0 THEN 1 ELSE 0
    <2>4. c \in 0 .. n - 1 /\ d \in 0 .. n - 1 /\ c # d
      BY <1>1, <1>4, <2>2, <2>3 DEF PC!CD!Candidates
    <2> HIDE DEF c, d
    <2>5. Lead(m, c, d) > 0
      BY <1>1, <1>4, <2>2, <2>4 DEF Beats, PC!CD!Candidates, c
    <2>6. Lead(m, c, d) = 0
      BY <1>1, <2>4
    <2> QED BY <2>5, <2>6
  <1> QED BY <1>1, <1>5, <1>7, <1>10, <1>13, <1>14

LEMMA RankedHeights ==
    ASSUME NEW h \in 0 .. MaxHeight["condorcet"]
    PROVE  /\ h \in Heights /\ h \in Nat
           /\ \A k \in Nat : k <= h => k \in Heights
  <1>1. MaxHeight["condorcet"] \in Nat /\ "condorcet" \in Kinds
    BY ChoiceAssumption DEF Kinds
  <1>2. ASSUME NEW k \in Nat, k <= h PROVE k \in Heights
    <2>1. k \in 0 .. MaxHeight["condorcet"]
      BY <1>1, <1>2
    <2> QED BY <1>1, <2>1, HeightsReached
  <1> QED BY <1>1, <1>2

LEMMA RankedProposeInv ==
    ASSUME NEW s, NEW h \in 0 .. MaxHeight["condorcet"], RankedInv(s, h), NEW a,
           NEW choices \in Options["condorcet"], NEW r \in PC!execute_propose(s, h, a, choices)
    PROVE  RankedInv(r, h) /\ RankedMoved(s, r, h)
  <1> DEFINE n == Len(choices) + 1
             power == PC!total_power(h)
             e == h + s.config.voting_period
             t == PC!CD!NewTally(n, power, h, e)
             p == PC!NewProposal(s, h, Append(choices, <<>>))
             q == PC!CD!update_status(p, t, h)
             vs == [b \in Addr |-> <<>>]
  <1>1. s \in RankedStore
    BY DEF RankedInv
  <1>2. h \in Heights /\ h \in Nat
    BY RankedHeights
  <1>3. power = PowerOf(h, Addr) /\ power \in Nat
    BY <1>2, TotalPowerRanked, PowerType
  <1>4. /\ choices # <<>>
        /\ r = [s EXCEPT !.proposals = Append(@, q), !.tallies = Append(@, t),
                         !.votes = Append(@, vs), !.ran = Append(@, <<>>)]
    BY DEF PC!execute_propose
  <1>5. choices \in Seq(Seq(PC!Call)) /\ n \in Sizes
    <2>1. choices \in Seq(Seq(PC!Call))
      BY ChoiceAssumption
    <2>2. Len(choices) # 0
      BY <1>4, <2>1
    <2> QED BY <2>1, <2>2 DEF Sizes
  <1>6. /\ s.config.voting_period \in Nat /\ s.config.min_voting_period \in Nat
        /\ s.config.quorum \in PC!CD!V!PercentageThreshold
        /\ s.config.close_proposals_on_execution_failure \in BOOLEAN
    BY <1>1 DEF RankedStore, PC!Config
  <1>7. e \in Nat /\ h + s.config.min_voting_period \in Nat
    BY <1>2, <1>6
  <1>8. Append(choices, <<>>) \in Seq(Seq(PC!Call)) /\ Len(Append(choices, <<>>)) = n
    BY <1>5
  <1>9. p = [last_status |-> PC!CD!Open, quorum |-> s.config.quorum,
             min_voting_period |-> h + s.config.min_voting_period,
             close_on_execution_failure |-> s.config.close_proposals_on_execution_failure,
             total_power |-> power, choices |-> Append(choices, <<>>)]
    BY DEF PC!NewProposal
  <1> HIDE DEF n, power, e, t, p, vs
  <1>10. /\ t \in Tally /\ t.m.n = n /\ t.start_height = h /\ t.expiration = e
         /\ vs \in RankedVotes /\ Tallied(t, vs)
         /\ t.winner.kind \in {"none", "never"}
    BY <1>2, <1>3, <1>5, <1>7, NewTallyOK DEF t, vs
  <1>11. /\ p \in RankedProposal /\ p.last_status = PC!CD!Open /\ p.total_power = power
         /\ Len(p.choices) = n
    BY <1>3, <1>6, <1>7, <1>8, <1>9 DEF RankedProposal, RankedStatus, PC!CD!Open
  <1> DEFINE st == PC!CD!status(p, t, h)
  <1>12. st \in {PC!CD!Open, PC!CD!Rejected}
    <2>1. CASE t.winner.kind = "none"
      BY <1>11, <2>1 DEF PC!CD!status
    <2>2. CASE t.winner.kind = "never"
      BY <1>11, <2>2 DEF PC!CD!status
    <2> QED BY <1>10, <2>1, <2>2
  <1>13. q = [p EXCEPT !.last_status = st]
    BY DEF PC!CD!update_status
  <1> HIDE DEF st, q
  <1>14. st \in RankedStatus /\ st.kind \notin Passed /\ st.kind # "executed"
    BY <1>12 DEF RankedStatus, PC!CD!Open, PC!CD!Rejected, Passed
  <1>15. q \in RankedProposal /\ q.last_status = st /\ q.total_power = power /\ Len(q.choices) = n
    BY <1>11, <1>13, <1>14 DEF RankedProposal
  <1>16. RankedOK(q, t, vs, <<>>, h)
    <2>1. t.start_height <= h
      BY <1>2, <1>10
    <2> QED BY <1>3, <1>10, <1>14, <1>15, <2>1 DEF RankedOK
  <1>17. r = RankedAppended(s, q, t, vs)
    BY <1>4 DEF RankedAppended
  <1>18. RankedMoved(s, r, h)
    BY <1>10, <1>15, <1>16, <1>17, RankedAppendedInv
  <1> QED BY <1>10, <1>15, <1>16, <1>17, <1>18, RankedAppendedInv

LEMMA RankedVoteInv ==
    ASSUME NEW s, NEW h \in 0 .. MaxHeight["condorcet"], RankedInv(s, h), NEW id \in DOMAIN s.proposals,
           NEW a \in Addr, NEW vote \in Rankings[s.tallies[id].m.n],
           NEW r \in PC!execute_vote(s, h, a, id, vote)
    PROVE  RankedInv(r, h) /\ RankedMoved(s, r, h)
  <1> DEFINE p == s.proposals[id]
             t == s.tallies[id]
             vs == s.votes[id]
             ran == s.ran[id]
             power == PowerAt[t.start_height][a]
             u == PC!CD!add_vote(t, vote, power)
             after == [vs EXCEPT ![a] = vote]
  <1>1. /\ p \in RankedProposal /\ t \in Tally /\ vs \in RankedVotes /\ ran \in Seq(Nat)
        /\ RankedOK(p, t, vs, ran, h)
    BY RankedAt
  <1>2. /\ s \in RankedStore /\ s.proposals \in Seq(RankedProposal) /\ s.tallies \in Seq(Tally)
        /\ s.votes \in Seq(RankedVotes) /\ s.ran \in Seq(Seq(Nat))
        /\ DOMAIN s.tallies = DOMAIN s.proposals /\ DOMAIN s.votes = DOMAIN s.proposals
        /\ DOMAIN s.ran = DOMAIN s.proposals
    BY RankedLists
  <1>3. /\ power # 0 /\ vs[a] = <<>> /\ ~PC!CD!V!is_expired(t.expiration, h)
        /\ r = [s EXCEPT !.votes[id][a] = vote, !.tallies[id] = u]
    BY DEF PC!execute_vote, PC!MayVote
  <1>4. h \in Nat /\ t.start_height \in Heights /\ h < t.expiration
    <2>1. t.start_height \in Nat /\ t.expiration \in Nat /\ t.start_height <= h /\ h \in Nat
      BY <1>1, RankedHeights DEF Tally, RankedOK
    <2>2. t.start_height \in Heights
      BY <2>1, RankedHeights
    <2> QED BY <1>3, <2>1, <2>2 DEF PC!CD!V!is_expired
  <1>5. Cast(t, vs, a, vote, u, after)
    BY <1>3, <1>4 DEF Cast
  <1>6. [s.proposals EXCEPT ![id] = p] = s.proposals /\ [s.ran EXCEPT ![id] = ran] = s.ran
    BY <1>2, SeqSame
  <1>7. r = [s EXCEPT !.votes[id] = after, !.tallies[id] = u]
    BY <1>3
  <1> HIDE DEF p, t, vs, ran, u, after
  <1>8. r = RankedReplaced(s, id, p, u, after, ran)
    BY <1>2, <1>6, <1>7 DEF RankedReplaced, RankedStore
  <1>9. u \in Tally /\ after \in RankedVotes /\ RankedOK(p, u, after, ran, h) /\ Swings(t, u)
    BY <1>1, <1>4, <1>5, RankedVoteOK
  <1>10. RankedInv(RankedReplaced(s, id, p, u, after, ran), h)
    BY <1>1, <1>9, RankedReplacedInv
  <1>11. r.proposals = [s.proposals EXCEPT ![id] = p] /\ r.tallies = [s.tallies EXCEPT ![id] = u]
    BY <1>2, <1>6, <1>7 DEF RankedStore
  <1>12. RankedMoves(p, t, p, u, h)
    BY <1>4, <1>9 DEF RankedMoves
  <1>13. RankedMoved(s, r, h)
    BY <1>11, <1>12, RankedOneMoves DEF p, t
  <1> QED BY <1>8, <1>10, <1>13

LEMMA RankedTickInv ==
    ASSUME NEW s, NEW h \in Nat, RankedInv(s, h)
    PROVE  RankedInv(s, h + 1)
  <1>1. ASSUME NEW id \in DOMAIN s.proposals
        PROVE  RankedOK(s.proposals[id], s.tallies[id], s.votes[id], s.ran[id], h + 1)
    <2> DEFINE p == s.proposals[id]
               t == s.tallies[id]
    <2>1. t \in Tally /\ RankedOK(p, t, s.votes[id], s.ran[id], h)
      BY RankedAt
    <2>2. t.expiration \in Nat /\ t.start_height \in Nat
      BY <2>1 DEF Tally
    <2> HIDE DEF p, t
    <2>3. ASSUME NEW w, RankSettled(t, w, h) PROVE RankSettled(t, w, h + 1)
      <3>1. h + 1 < t.expiration => h < t.expiration
        BY <2>2
      <3> QED BY <2>3, <3>1 DEF RankSettled
    <2>4. t.start_height <= h + 1
      BY <2>1, <2>2 DEF RankedOK
    <2>5. RankedOK(p, t, s.votes[id], s.ran[id], h + 1)
      BY <2>1, <2>3, <2>4, Zenon DEF RankedOK
    <2> QED BY <2>5 DEF p, t
  <1> QED BY <1>1 DEF RankedInv

LEMMA FirstRanked ==
    ASSUME NEW c \in Configs["condorcet"], NEW s \in PC!instantiate(c), NEW h
    PROVE  RankedInv(s, h) /\ s.kind = "condorcet"
  <1>1. c \in PC!Config
    BY ChoiceAssumption
  <1>2. s = [kind |-> "condorcet", config |-> c, proposals |-> <<>>, tallies |-> <<>>,
             votes |-> <<>>, ran |-> <<>>]
    BY DEF PC!instantiate
  <1>3. \A S : <<>> \in Seq(S)
    OBVIOUS
  <1> QED BY <1>1, <1>2, <1>3 DEF RankedInv, RankedStore

LEMMA RankedDaoInv ==
    ASSUME NEW s, NEW h, RankedInv(s, h), NEW call \in DaoCalls["condorcet"], NEW r \in PC!DaoCall(s, call)
    PROVE  RankedInv(r, h) /\ RankedMoved(s, r, h)
  <1>1. s \in RankedStore /\ call \in PC!Call
    BY ChoiceAssumption DEF RankedInv
  <1>2. RankedMoved(s, s, h)
    BY RankedNoneMoves
  <1> QED BY <1>1, <1>2, RankedDaoCall, ConfiguredInv, ConfiguredMoved

----------------------------------------------------------------------------
(* The invariant holds *)

LEMMA KindOfStore ==
    ASSUME NEW s, NEW h
    PROVE  /\ MultipleInv(s, h) => s.kind = "multiple"
           /\ RankedInv(s, h) => s.kind = "condorcet"
  <1>1. MultipleInv(s, h) => s.kind = "multiple"
    BY DEF MultipleInv, MultipleStore
  <1>2. RankedInv(s, h) => s.kind = "condorcet"
    BY DEF RankedInv, RankedStore
  <1> QED BY <1>1, <1>2

\* The invariant holds at the start.
LEMMA InitInv == Init => IInv
  <1> SUFFICES ASSUME Init PROVE IInv
    OBVIOUS
  <1>1. height = 0 /\ \A k \in Kinds : 0 \in 0 .. MaxHeight[k]
    BY ChoiceAssumption DEF Init
  <1>2. \/ MultipleInv(store, height) /\ store.kind = "multiple"
        \/ RankedInv(store, height) /\ store.kind = "condorcet"
    <2>1. CASE \E c \in Configs["multiple"], policy \in {PM!Anyone} \cup {PM!Module(m) : m \in Modules} :
                   store \in PM!instantiate(c, policy)
      BY <2>1, FirstMultiple
    <2>2. CASE \E c \in Configs["condorcet"] : store \in PC!instantiate(c)
      BY <2>2, FirstRanked
    <2> QED BY <2>1, <2>2 DEF Init
  <1> QED BY <1>1, <1>2 DEF IInv, kind, Kinds

\* A step of dao-proposal-multiple.
LEMMA MultipleStep ==
    ASSUME IInv, Next, kind = "multiple"
    PROVE  /\ MultipleInv(store', height') /\ height' \in 0 .. MaxHeight["multiple"]
           /\ \/ height' = height /\ Moved(store, store', height)
              \/ height' = height + 1 /\ store' = store
  <1>1. /\ MultipleInv(store, height) /\ height \in 0 .. MaxHeight["multiple"]
        /\ store.kind = "multiple" /\ MaxHeight["multiple"] \in Nat
    BY ChoiceAssumption DEF IInv, kind, Kinds
  <1>2. ASSUME NEW sender \in Addr, NEW proposer \in Addr, NEW options \in Options["multiple"], NEW votes,
               Propose(sender, proposer, options, votes)
        PROVE  MultipleInv(store', height') /\ height' = height /\ Moved(store, store', height)
    <2>1. options \in Seq(Seq(PM!Call))
      BY ChoiceAssumption
    <2> QED BY <1>1, <1>2, <2>1, ProposeInv DEF Propose, Becomes
  <1>3. ASSUME NEW sender, NEW choices, ProposeRanked(sender, choices) PROVE FALSE
    BY <1>1, <1>3 DEF ProposeRanked, kind
  <1>4. ASSUME NEW id \in Ids, NEW sender \in Addr, NEW vote, NEW r \in Rationales,
               CastVote(sender, id, vote, r)
        PROVE  MultipleInv(store', height') /\ height' = height /\ Moved(store, store', height)
    BY <1>1, <1>4, VoteInv DEF CastVote, Becomes, Ids
  <1>5. ASSUME NEW id \in Ids, NEW sender \in Addr, NEW r \in Rationales, UpdateRationale(sender, id, r)
        PROVE  MultipleInv(store', height') /\ height' = height /\ Moved(store, store', height)
    BY <1>1, <1>5, RationaleInv DEF UpdateRationale, Becomes, Ids
  <1>6. ASSUME NEW id \in Ids, NEW sender \in Addr, Veto(sender, id)
        PROVE  MultipleInv(store', height') /\ height' = height /\ Moved(store, store', height)
    BY <1>1, <1>6, VetoInv DEF Veto, Becomes, Ids
  <1>7. ASSUME NEW id \in Ids, NEW sender \in Addr, Execute(sender, id)
        PROVE  MultipleInv(store', height') /\ height' = height /\ Moved(store, store', height)
    BY <1>1, <1>7, ExecuteInv DEF Execute, Becomes, Ids, kind
  <1>8. ASSUME NEW id \in Ids, Close(id)
        PROVE  MultipleInv(store', height') /\ height' = height /\ Moved(store, store', height)
    BY <1>1, <1>8, CloseInv DEF Close, Becomes, Ids, kind
  <1>9. ASSUME NEW call \in DaoCalls["multiple"], DaoCall(call)
        PROVE  MultipleInv(store', height') /\ height' = height /\ Moved(store, store', height)
    BY <1>1, <1>9, DaoInv DEF DaoCall, Becomes, kind
  <1>10. ASSUME Tick
         PROVE  /\ MultipleInv(store', height') /\ height' \in 0 .. MaxHeight["multiple"]
                /\ height' = height + 1 /\ store' = store
    <2>1. height \in Nat /\ height < MaxHeight["multiple"] /\ height' = height + 1 /\ store' = store
      BY <1>1, <1>10 DEF Tick, kind
    <2>2. MultipleInv(store, height + 1)
      BY <1>1, <2>1, TickInv
    <2> QED BY <1>1, <2>1, <2>2
  <1>11. kind # "condorcet" /\ DaoCalls[kind] = DaoCalls["multiple"]
    BY <1>1 DEF kind
  <1> QED BY <1>1, <1>2, <1>3, <1>4, <1>5, <1>6, <1>7, <1>8, <1>9, <1>10, <1>11 DEF Next

\* A step of dao-proposal-condorcet.
LEMMA RankedStep ==
    ASSUME IInv, Next, kind = "condorcet"
    PROVE  /\ RankedInv(store', height') /\ height' \in 0 .. MaxHeight["condorcet"]
           /\ \/ height' = height /\ RankedMoved(store, store', height)
              \/ height' = height + 1 /\ store' = store
  <1>1. /\ RankedInv(store, height) /\ height \in 0 .. MaxHeight["condorcet"] /\ height \in Nat
        /\ store.kind = "condorcet" /\ MaxHeight["condorcet"] \in Nat
    BY ChoiceAssumption DEF IInv, kind, Kinds
  <1>2. ASSUME NEW sender \in Addr, NEW choices \in Options["condorcet"], ProposeRanked(sender, choices)
        PROVE  RankedInv(store', height') /\ height' = height /\ RankedMoved(store, store', height)
    BY <1>1, <1>2, RankedProposeInv DEF ProposeRanked, Becomes
  <1>3. ASSUME NEW id \in Ids, NEW sender \in Addr, NEW vote \in Rankings[store.tallies[id].m.n],
               Rank(sender, id, vote)
        PROVE  RankedInv(store', height') /\ height' = height /\ RankedMoved(store, store', height)
    BY <1>1, <1>3, RankedVoteInv DEF Rank, Becomes, Ids
  <1>4. ASSUME NEW id \in Ids, NEW sender \in Addr, Execute(sender, id)
        PROVE  RankedInv(store', height') /\ height' = height /\ RankedMoved(store, store', height)
    BY <1>1, <1>4, RankedExecuteInv DEF Execute, Becomes, Ids, kind
  <1>5. ASSUME NEW id \in Ids, Close(id)
        PROVE  RankedInv(store', height') /\ height' = height /\ RankedMoved(store, store', height)
    BY <1>1, <1>5, RankedCloseInv DEF Close, Becomes, Ids, kind
  <1>6. ASSUME NEW call \in DaoCalls["condorcet"], DaoCall(call)
        PROVE  RankedInv(store', height') /\ height' = height /\ RankedMoved(store, store', height)
    BY <1>1, <1>6, RankedDaoInv DEF DaoCall, Becomes, kind
  <1>7. ASSUME Tick
        PROVE  /\ RankedInv(store', height') /\ height' \in 0 .. MaxHeight["condorcet"]
               /\ height' = height + 1 /\ store' = store
    <2>1. height < MaxHeight["condorcet"] /\ height' = height + 1 /\ store' = store
      BY <1>1, <1>7 DEF Tick, kind
    <2>2. RankedInv(store, height + 1)
      BY <1>1, RankedTickInv
    <2> QED BY <1>1, <2>1, <2>2
  <1>8. kind # "multiple" /\ DaoCalls[kind] = DaoCalls["condorcet"]
    BY <1>1 DEF kind
  <1>9. ASSUME NEW a, NEW b, NEW c, NEW d
        PROVE  /\ ~Propose(a, b, c, d) /\ ~CastVote(a, b, c, d)
               /\ ~UpdateRationale(a, b, c) /\ ~Veto(a, b)
    BY <1>8 DEF Propose, CastVote, UpdateRationale, Veto
  <1> QED BY <1>1, <1>2, <1>3, <1>4, <1>5, <1>6, <1>7, <1>8, <1>9 DEF Next

\* Every step keeps the invariant.
LEMMA StepInv == IInv /\ [Next]_vars => IInv'
  <1> SUFFICES ASSUME IInv, [Next]_vars PROVE IInv'
    OBVIOUS
  <1>1. CASE UNCHANGED vars
    BY <1>1 DEF vars, IInv, kind, MultipleInv, RankedInv
  <1>2. CASE Next /\ kind = "multiple"
    <2>1. MultipleInv(store', height') /\ height' \in 0 .. MaxHeight["multiple"]
      BY <1>2, MultipleStep
    <2>2. store'.kind = "multiple"
      BY <2>1, KindOfStore
    <2> QED BY <2>1, <2>2 DEF IInv, kind, Kinds, MultipleInv
  <1>3. CASE Next /\ kind = "condorcet"
    <2>1. RankedInv(store', height') /\ height' \in 0 .. MaxHeight["condorcet"]
      BY <1>3, RankedStep
    <2>2. store'.kind = "condorcet"
      BY <2>1, KindOfStore
    <2> QED BY <2>1, <2>2 DEF IInv, kind, Kinds
  <1> QED BY <1>1, <1>2, <1>3 DEF IInv, Kinds

----------------------------------------------------------------------------
(* What the invariant implies *)

\* The tallies of dao-proposal-multiple are those of the ballots.
LEMMA MultipleTallies ==
    ASSUME IInv, kind = "multiple", NEW id \in Ids, NEW choice \in DOMAIN store.proposals[id].choices
    PROVE  store.proposals[id].votes[choice] = MapThenSumSet(
               LAMBDA a : PowerAt[store.proposals[id].start_height][a],
               {a \in Addr : store.ballots[id][a].vote = choice})
  <1>1. Counted(store.proposals[id], store.ballots[id])
    BY DEF IInv, MultipleInv, MultipleOK, Ids
  <1>2. store.proposals[id].votes[choice]
            = PowerOf(store.proposals[id].start_height, {a \in Addr : store.ballots[id][a].vote = choice})
    BY <1>1 DEF Counted
  <1> QED BY <1>2 DEF PowerOf, SumOver

\* The matrix of dao-proposal-condorcet is that of the rankings.
LEMMA RankedTallies ==
    ASSUME IInv, kind = "condorcet", NEW id \in Ids
    PROVE  /\ \A x, y \in PC!CD!Candidates(store.tallies[id].m) : x > y =>
                  LET margin == Margin(store.tallies[id], store.votes[id], x, y)
                  IN  PC!CD!get(store.tallies[id].m, x, y) =
                          CASE margin > 0 -> PC!CD!Positive(margin)
                            [] margin = 0 -> PC!CD!Zero
                            [] margin < 0 -> PC!CD!Negative(-margin)
           /\ store.tallies[id].power_outstanding =
                  PowerOf(store.tallies[id].start_height, {a \in Addr : store.votes[id][a] = <<>>})
  <1> DEFINE t == store.tallies[id]
             vs == store.votes[id]
  <1>1. t \in Tally /\ RankedOK(store.proposals[id], t, vs, store.ran[id], height)
    <2>1. RankedInv(store, height) /\ id \in DOMAIN store.proposals
      BY DEF IInv, Ids
    <2> QED BY <2>1, RankedAt
  <1> HIDE DEF t, vs
  <1>2. t.m \in Matrix /\ Tallied(t, vs)
    BY <1>1 DEF Tally, RankedOK
  <1>3. ASSUME NEW x \in PC!CD!Candidates(t.m), NEW y \in PC!CD!Candidates(t.m), x > y
        PROVE  LET margin == Margin(t, vs, x, y)
               IN  PC!CD!get(t.m, x, y) =
                          CASE margin > 0 -> PC!CD!Positive(margin)
                            [] margin = 0 -> PC!CD!Zero
                            [] margin < 0 -> PC!CD!Negative(-margin)
    <2> DEFINE c == PC!CD!get(t.m, x, y)
               margin == Margin(t, vs, x, y)
    <2>1. x # y
      <3>1. t.m.n \in Nat
        BY <1>2, MatrixType, SizeType
      <3> QED BY <1>3, <3>1 DEF PC!CD!Candidates
    <2>2. c \in Cell /\ Value(c) = margin /\ Value(c) \in Int
      BY <1>2, <2>1, LeadType DEF Tallied, Lead
    <2> HIDE DEF c, margin
    <2>3. /\ margin > 0 => c = PC!CD!Positive(margin)
          /\ margin = 0 => c = PC!CD!Zero
          /\ margin < 0 => c = PC!CD!Negative(-margin)
          /\ margin \in Int
      BY <2>2, CellForm
    <2>4. c = CASE margin > 0 -> PC!CD!Positive(margin)
                [] margin = 0 -> PC!CD!Zero
                [] margin < 0 -> PC!CD!Negative(-margin)
      <3> HIDE DEF PC!CD!Positive, PC!CD!Zero, PC!CD!Negative
      <3>1. CASE margin > 0
        BY <2>3, <3>1
      <3>2. CASE margin = 0
        BY <2>3, <3>2
      <3>3. CASE margin < 0
        BY <2>3, <3>3
      <3> QED BY <2>3, <3>1, <3>2, <3>3
    <2> QED BY <2>4 DEF c, margin
  <1>4. t.power_outstanding = PowerOf(t.start_height, {a \in Addr : vs[a] = <<>>})
    BY <1>2 DEF Tallied
  <1> QED BY <1>3, <1>4 DEF t, vs

LEMMA TalliesMatch == IInv => TalliesMatchBallots
  <1> SUFFICES ASSUME IInv PROVE TalliesMatchBallots
    OBVIOUS
  <1>1. kind \in Kinds
    BY DEF IInv
  <1>2. CASE kind = "multiple"
    BY <1>2, MultipleTallies DEF TalliesMatchBallots
  <1>3. CASE kind = "condorcet"
    <2>1. SUFFICES ASSUME NEW id \in Ids
          PROVE  LET t == store.tallies[id]
                     Voters == {a \in Addr : store.votes[id][a] # <<>>}
                     Prefer(x, y) == {a \in Voters : LET v == store.votes[id][a] IN
                                         \E j \in DOMAIN v : v[j] = y /\ \E i \in 1 .. j - 1 : v[i] = x}
                     Power(S) == MapThenSumSet(LAMBDA a : PowerAt[t.start_height][a], S)
                 IN  /\ \A x, y \in PC!CD!Candidates(t.m) : x > y =>
                            LET margin == Power(Prefer(x, y)) - Power(Prefer(y, x))
                            IN  PC!CD!get(t.m, x, y) = CASE margin > 0 -> PC!CD!Positive(margin)
                                                         [] margin = 0 -> PC!CD!Zero
                                                         [] margin < 0 -> PC!CD!Negative(-margin)
                     /\ t.power_outstanding =
                            Power(Addr \ Voters)
      BY <1>3, Zenon DEF TalliesMatchBallots
    <2> DEFINE t == store.tallies[id]
               Voters == {a \in Addr : store.votes[id][a] # <<>>}
               Prefer(x, y) == {a \in Voters : LET v == store.votes[id][a] IN
                                   \E j \in DOMAIN v : v[j] = y /\ \E i \in 1 .. j - 1 : v[i] = x}
               Power(S) == MapThenSumSet(LAMBDA a : PowerAt[t.start_height][a], S)
    <2>2. \A S : Power(S) = PowerOf(t.start_height, S)
      BY DEF PowerOf, SumOver
    <2>3. \A x, y : Prefer(x, y) = Preferring(store.votes[id], x, y)
      BY DEF Preferring, Ranks
    <2>4. Addr \ Voters = {a \in Addr : store.votes[id][a] = <<>>}
      OBVIOUS
    <2> HIDE DEF Prefer, Power, Voters
    <2>5. \A x, y : Power(Prefer(x, y)) - Power(Prefer(y, x)) = Margin(t, store.votes[id], x, y)
      BY <2>2, <2>3 DEF Margin
    <2>6. /\ \A x, y \in PC!CD!Candidates(t.m) : x > y =>
                 LET margin == Power(Prefer(x, y)) - Power(Prefer(y, x))
                 IN  PC!CD!get(t.m, x, y) = CASE margin > 0 -> PC!CD!Positive(margin)
                                              [] margin = 0 -> PC!CD!Zero
                                              [] margin < 0 -> PC!CD!Negative(-margin)
          /\ t.power_outstanding = Power(Addr \ Voters)
      <3> DEFINE CellOf(margin) == CASE margin > 0 -> PC!CD!Positive(margin)
                                     [] margin = 0 -> PC!CD!Zero
                                     [] margin < 0 -> PC!CD!Negative(-margin)
                 G(x, y) == Power(Prefer(x, y)) - Power(Prefer(y, x))
      <3>1. /\ \A x, y \in PC!CD!Candidates(t.m) : x > y =>
                   PC!CD!get(t.m, x, y) = CellOf(Margin(t, store.votes[id], x, y))
            /\ t.power_outstanding = PowerOf(t.start_height, {a \in Addr : store.votes[id][a] = <<>>})
        BY <1>3, RankedTallies
      <3>2. \A x, y : G(x, y) = Margin(t, store.votes[id], x, y)
        BY <2>5
      <3>3. t.power_outstanding = Power(Addr \ Voters)
        BY <2>2, <2>4, <3>1
      <3>4. \A x, y \in PC!CD!Candidates(t.m) : x > y => PC!CD!get(t.m, x, y) = CellOf(G(x, y))
        <4> HIDE DEF CellOf, G
        <4> QED BY <3>1, <3>2, Zenon
      <3> QED BY <3>3, <3>4, Zenon
    <2> QED BY <2>6, Zenon DEF Prefer, Power, Voters
  <1> QED BY <1>1, <1>2, <1>3 DEF Kinds

LEMMA MultipleRuns ==
    ASSUME IInv, kind = "multiple", NEW id \in Ids
    PROVE  LET p == store.proposals[id]
               empty == \A w \in Elected(store, id) : p.choices[w].msgs = <<>>
           IN  IF p.status = "executed" /\ ~empty
               THEN Elected(store, id) # {} /\ store.ran[id] = <<CHOOSE w \in Elected(store, id) : TRUE>>
               ELSE store.ran[id] = <<>>
  <1> DEFINE p == store.proposals[id]
             ran == store.ran[id]
             E == Elected(store, id)
  <1>1. p \in MultipleProposal /\ MultipleOK(p, store.ballots[id], ran, height)
    <2>1. MultipleInv(store, height) /\ id \in DOMAIN store.proposals
      BY DEF IInv, Ids
    <2> QED BY <2>1, StoreAt DEF MultipleInv
  <1>2. store.kind = "multiple"
    BY DEF kind
  <1> HIDE DEF p, ran
  <1>3. CASE p.status # "executed"
    <2>1. ran = <<>>
      BY <1>1, <1>3 DEF MultipleOK
    <2> QED BY <1>3, <2>1 DEF p, ran
  <1>4. CASE p.status = "executed"
    <2>1. PICK w \in DOMAIN p.votes : Settled(p, w, height)
      BY <1>1, <1>4 DEF MultipleOK, Passed
    <2>2. Leads(p, w)
      BY <2>1 DEF Settled
    <2>3. PM!MC!calculate_vote_result(p) = {w}
      BY <1>1, <2>2, LeaderAlone
    <2>4. E = {w}
      <3>1. Cardinality({w}) = 1
        BY FS_Singleton
      <3> QED BY <1>2, <2>3, <3>1, Zenon DEF Elected, p
    <2>5. (CHOOSE x \in E : TRUE) = w /\ E # {}
      BY <2>4
    <2>6. ran = IF p.choices[w].msgs = <<>> THEN <<>> ELSE <<w>>
      BY <1>1, <1>4, <2>2 DEF MultipleOK
    <2>7. (\A x \in E : p.choices[x].msgs = <<>>) <=> p.choices[w].msgs = <<>>
      BY <2>4
    <2> HIDE DEF E
    <2> QED BY <1>4, <2>5, <2>6, <2>7 DEF p, ran, E
  <1> QED BY <1>3, <1>4

LEMMA RankedRuns ==
    ASSUME IInv, kind = "condorcet", NEW id \in Ids
    PROVE  IF store.proposals[id].last_status.kind = "executed"
           THEN Elected(store, id) # {} /\ store.ran[id] = <<CHOOSE w \in Elected(store, id) : TRUE>>
           ELSE store.ran[id] = <<>>
  <1> DEFINE p == store.proposals[id]
             t == store.tallies[id]
             ran == store.ran[id]
             E == Elected(store, id)
  <1>1. t \in Tally /\ RankedOK(p, t, store.votes[id], ran, height)
    <2>1. RankedInv(store, height) /\ id \in DOMAIN store.proposals
      BY DEF IInv, Ids
    <2> QED BY <2>1, RankedAt
  <1>2. E = PC!CD!PositiveColumns(t.m)
    BY DEF Elected, kind
  <1>3. t.m \in Matrix
    BY <1>1 DEF Tally
  <1> HIDE DEF p, t, ran
  <1>4. CASE p.last_status.kind # "executed"
    <2>1. ran = <<>>
      BY <1>1, <1>4 DEF RankedOK
    <2> QED BY <1>4, <2>1 DEF p, ran
  <1>5. CASE p.last_status.kind = "executed"
    <2>1. PICK w \in PC!CD!Candidates(t.m) : RankSettled(t, w, height)
      BY <1>1, <1>5 DEF RankedOK, Passed
    <2>2. Beats(t, w)
      BY <2>1 DEF RankSettled
    <2>3. E = {w}
      BY <1>2, <1>3, <2>2, ColumnsBeat
    <2>4. (CHOOSE x \in E : TRUE) = w /\ E # {}
      BY <2>3
    <2>5. ran = <<w>>
      BY <1>1, <1>5, <2>2 DEF RankedOK
    <2> HIDE DEF E
    <2> QED BY <1>5, <2>4, <2>5 DEF p, ran, E
  <1> QED BY <1>4, <1>5

LEMMA ElectedRun == IInv => RunsElected
  <1> SUFFICES ASSUME IInv PROVE RunsElected
    OBVIOUS
  <1>1. kind \in Kinds
    BY DEF IInv
  <1>2. CASE kind = "multiple"
    BY <1>2, MultipleRuns DEF RunsElected
  <1>3. CASE kind = "condorcet"
    BY <1>3, RankedRuns DEF RunsElected
  <1> QED BY <1>1, <1>2, <1>3 DEF Kinds

----------------------------------------------------------------------------
(* Decisions: quorum *)

\* A quorum that is met stays met with more votes.
LEMMA QuorumGrows ==
    ASSUME NEW y \in Int, NEW z \in Int, NEW o \in Nat, y <= z,
           NEW percent \in PM!MC!V!PercentageThreshold
    PROVE  /\ PM!MC!V!does_vote_count_pass(y, o, percent) => PM!MC!V!does_vote_count_pass(z, o, percent)
           /\ PC!CD!V!does_vote_count_pass(y, o, percent) => PC!CD!V!does_vote_count_pass(z, o, percent)
  <1>1. PrecisionFactor \in Nat /\ DecimalOne \in Nat
    BY ChoiceAssumption
  <1>2. CASE percent.kind = "majority"
    BY <1>2 DEF PM!MC!V!does_vote_count_pass, PC!CD!V!does_vote_count_pass
  <1>3. CASE percent.kind # "majority"
    <2> DEFINE t == (o * PrecisionFactor * percent.atomics) \div DecimalOne
               f == PrecisionFactor
    <2>1. percent.atomics \in Nat
      BY <1>3 DEF PM!MC!V!PercentageThreshold
    <2>2. o * PrecisionFactor * percent.atomics \in Nat
      <3>1. o * PrecisionFactor \in Nat
        BY <1>1
      <3> QED BY <2>1, <3>1
    <2>3. t \in Int
      BY <1>1, <2>2, ChoiceAssumption
    <2>4. y * f \in Int /\ z * f \in Int /\ y * f <= z * f
      <3>1. PICK d \in Nat : z = y + d
        <4>1. z - y \in Nat /\ z = y + (z - y)
          OBVIOUS
        <4> QED BY <4>1
      <3>2. z * f = y * f + d * f /\ d * f \in Nat /\ y * f \in Int
        BY <1>1, <3>1
      <3> QED BY <3>2
    <2>5. /\ PM!MC!V!does_vote_count_pass(y, o, percent) <=> o # 0 /\ y * f >= t
          /\ PM!MC!V!does_vote_count_pass(z, o, percent) <=> o # 0 /\ z * f >= t
          /\ PC!CD!V!does_vote_count_pass(y, o, percent) <=> o # 0 /\ y * f >= t
          /\ PC!CD!V!does_vote_count_pass(z, o, percent) <=> o # 0 /\ z * f >= t
      BY <1>3 DEF PM!MC!V!does_vote_count_pass, PC!CD!V!does_vote_count_pass,
                  PM!MC!V!compare_vote_count, PC!CD!V!compare_vote_count,
                  PM!MC!V!scaled_threshold, PC!CD!V!scaled_threshold
    <2> HIDE DEF t, f
    <2> QED BY <2>3, <2>4, <2>5
  <1> QED BY <1>2, <1>3

----------------------------------------------------------------------------
(* Decisions: dao-proposal-multiple *)

\* What Outcome makes of a status.
Verdict(st) ==
    CASE st = "open" -> "open"
      [] st \in {"rejected", "closed"} -> "rejected"
      [] st = "vetoed" -> "vetoed"
      [] OTHER -> "passed"

\* An outcome is a verdict and, of what passed, the choice elected.
LEMMA OutcomeOf ==
    \A s, id, h : LET st == ShownStatus(s, id, h) IN
        Outcome(s, id, h) = <<Verdict(st), IF Verdict(st) = "passed" THEN Elected(s, id) ELSE {}>>
  BY DEF Outcome, Verdict

\* The decision shown of p in block h is the one shown of q in block k.
Stays(p, h, q, k) ==
    LET before == PM!MC!current_status(p, h)
        after == PM!MC!current_status(q, k)
    IN  \/ before = "open"
        \/ /\ Verdict(after) = Verdict(before)
           /\ Verdict(before) = "passed" =>
                  PM!MC!calculate_vote_result(q) = PM!MC!calculate_vote_result(p)
        \/ after = "vetoed" /\ before = "veto_timelock"

\* What passes as the votes stand passes later as well, and what fails when voting
\* ends does not pass.
LEMMA PassesLater ==
    ASSUME NEW p \in MultipleProposal, NEW h \in Nat
    PROVE  /\ PM!MC!is_passed(p, h) => PM!MC!is_passed(p, h + 1)
           /\ h >= p.expiration /\ PM!MC!is_passed(p, h + 1) => PM!MC!is_passed(p, h)
  <1>1. /\ p.expiration \in Nat /\ p.min_voting_period \in Nat /\ p.min_voting_period <= p.expiration
    BY DEF MultipleProposal, MultipleRecord
  <1>2. \A e \in Nat : h >= e => h + 1 >= e
    OBVIOUS
  <1>3. PM!MC!is_passed(p, h) => PM!MC!is_passed(p, h + 1)
    BY <1>1, <1>2, Zenon DEF PM!MC!is_passed, PM!MC!V!is_expired
  <1>4. h >= p.expiration => h >= p.min_voting_period
    BY <1>1
  <1>5. ASSUME h >= p.expiration, PM!MC!is_passed(p, h + 1) PROVE PM!MC!is_passed(p, h)
    BY <1>4, <1>5, Zenon DEF PM!MC!is_passed, PM!MC!V!is_expired
  <1> QED BY <1>3, <1>5

\* MultipleChoice has the operator from an instance of its own.
LEMMA SameCardinality == \A S : PM!MC!Cardinality(S) = Cardinality(S)
  BY Zenon DEF PM!MC!Cardinality, Cardinality

\* A proposal that is rejected does not pass.
LEMMA RejectedFails ==
    ASSUME NEW p \in MultipleProposal, NEW h \in Nat, NEW k \in Nat,
           h < p.expiration, PM!MC!is_rejected(p, h)
    PROVE  ~PM!MC!is_passed(p, k)
  <1> DEFINE leaders == PM!MC!calculate_vote_result(p)
  <1>1. ~PM!MC!V!is_expired(p.expiration, h)
    BY DEF PM!MC!V!is_expired, MultipleProposal, MultipleRecord
  <1>2. CASE Cardinality(leaders) > 1
    <2>1. \A w : leaders # {w}
      BY <1>2, FS_Singleton
    <2> QED BY <2>1 DEF PM!MC!is_passed
  <1>3. CASE ~(Cardinality(leaders) > 1)
    <2>1. \E w \in leaders : p.choices[w].option_type = "none"
      BY <1>1, <1>3, SameCardinality DEF PM!MC!is_rejected
    <2> QED BY <2>1 DEF PM!MC!is_passed
  <1> QED BY <1>2, <1>3

\* Rejection in time is rejection later.
LEMMA RejectsLater ==
    ASSUME NEW p \in MultipleProposal, NEW h \in Nat, PM!MC!is_rejected(p, h),
           h + 1 < p.expiration
    PROVE  PM!MC!is_rejected(p, h + 1)
  <1>1. p.expiration \in Nat
    BY DEF MultipleProposal, MultipleRecord
  <1>2. ~PM!MC!V!is_expired(p.expiration, h) /\ ~PM!MC!V!is_expired(p.expiration, h + 1)
    BY <1>1 DEF PM!MC!V!is_expired
  <1> QED BY <1>2, Zenon DEF PM!MC!is_rejected

\* A block changes no decision.
LEMMA BlockStays ==
    ASSUME NEW p \in MultipleProposal, NEW h \in Nat
    PROVE  Stays(p, h, p, h + 1)
  <1> DEFINE before == PM!MC!current_status(p, h)
             after == PM!MC!current_status(p, h + 1)
  <1>1. p.status \in PM!MC!V!Status /\ p.expiration \in Nat
    BY DEF MultipleProposal, MultipleRecord
  <1>2. CASE p.status = "open" /\ PM!MC!is_passed(p, h)
    <2>1. PM!MC!is_passed(p, h + 1)
      BY <1>2, PassesLater
    <2>2. before \in {"passed", "veto_timelock"} /\ after \in {"passed", "veto_timelock"}
      BY <1>2, <2>1 DEF PM!MC!current_status
    <2> QED BY <2>2 DEF Stays, Verdict
  <1>3. CASE p.status = "open" /\ ~PM!MC!is_passed(p, h)
    <2>1. CASE h >= p.expiration
      <3>1. ~PM!MC!is_passed(p, h + 1)
        BY <1>3, <2>1, PassesLater
      <3>2. PM!MC!V!is_expired(p.expiration, h) /\ PM!MC!V!is_expired(p.expiration, h + 1)
        BY <1>1, <2>1 DEF PM!MC!V!is_expired
      <3>3. before = "rejected" /\ after = "rejected"
        BY <1>3, <3>1, <3>2 DEF PM!MC!current_status
      <3> QED BY <3>3 DEF Stays, Verdict
    <2>2. CASE h < p.expiration /\ PM!MC!is_rejected(p, h)
      <3>1. ~PM!MC!is_passed(p, h + 1)
        BY <2>2, RejectedFails
      <3>2. PM!MC!V!is_expired(p.expiration, h + 1) \/ PM!MC!is_rejected(p, h + 1)
        BY <1>1, <2>2, RejectsLater DEF PM!MC!V!is_expired
      <3>3. before = "rejected" /\ after = "rejected"
        BY <1>3, <2>2, <3>1, <3>2 DEF PM!MC!current_status
      <3> QED BY <3>3 DEF Stays, Verdict
    <2>3. CASE h < p.expiration /\ ~PM!MC!is_rejected(p, h)
      <3>1. ~PM!MC!V!is_expired(p.expiration, h)
        BY <1>1, <2>3 DEF PM!MC!V!is_expired
      <3>2. before = "open"
        BY <1>3, <2>3, <3>1 DEF PM!MC!current_status
      <3> QED BY <3>2 DEF Stays
    <2> QED BY <1>1, <2>1, <2>2, <2>3
  <1>4. CASE p.status = "veto_timelock"
    <2>1. before \in {"passed", "veto_timelock"} /\ after \in {"passed", "veto_timelock"}
      BY <1>4 DEF PM!MC!current_status
    <2> QED BY <2>1 DEF Stays, Verdict
  <1>5. CASE p.status \notin {"open", "veto_timelock"}
    <2>1. before = p.status /\ after = p.status
      BY <1>5 DEF PM!MC!current_status
    <2> QED BY <2>1 DEF Stays
  <1> QED BY <1>1, <1>2, <1>3, <1>4, <1>5

\* An end is one of the decision shown, or a veto.
LEMMA EndStays ==
    ASSUME NEW p \in MultipleProposal, NEW h \in Nat, NEW st, Ends(PM!MC!current_status(p, h), st),
           NEW q, q = [p EXCEPT !.status = st]
    PROVE  Stays(p, h, q, h)
  <1> DEFINE before == PM!MC!current_status(p, h)
  <1>1. st \in {"vetoed", "closed", "executed", "execution_failed"}
    BY DEF Ends
  <1>2. q.status = st /\ q.votes = p.votes
    BY DEF MultipleProposal, MultipleRecord
  <1>3. PM!MC!current_status(q, h) = st
    BY <1>1, <1>2 DEF PM!MC!current_status
  <1>4. PM!MC!calculate_vote_result(q) = PM!MC!calculate_vote_result(p)
    BY <1>2 DEF PM!MC!calculate_vote_result
  <1> HIDE DEF before
  <1>5. Ends(before, st)
    BY DEF before
  <1>6. \/ before = "open"
        \/ Verdict(st) = Verdict(before)
        \/ st = "vetoed" /\ before = "veto_timelock"
    BY <1>5 DEF Ends, Verdict
  <1> QED BY <1>3, <1>4, <1>6 DEF Stays, before

\* A saved status is the one shown.
LEMMA SavedShown ==
    ASSUME NEW p \in MultipleProposal, NEW h \in Nat, NEW q, q = PM!MC!update_status(p, h)
    PROVE  /\ PM!MC!current_status(q, h) = PM!MC!current_status(p, h)
           /\ PM!MC!calculate_vote_result(q) = PM!MC!calculate_vote_result(p)
  <1> DEFINE st == PM!MC!current_status(p, h)
  <1>1. q = [p EXCEPT !.status = st]
    BY DEF PM!MC!update_status
  <1>2. st = "open" => p.status = "open"
    BY DEF PM!MC!current_status, MultipleProposal, MultipleRecord, PM!MC!V!Status
  <1>3. st = "veto_timelock" => ~PM!MC!V!is_expired(PM!MC!V!timelock_expiration(p), h)
    BY DEF PM!MC!current_status, MultipleProposal, MultipleRecord, PM!MC!V!Status
  <1>4. st \in PM!MC!V!Status
    BY DEF PM!MC!current_status, MultipleProposal, MultipleRecord, PM!MC!V!Status
  <1>5. st = "open" => q = p
    BY <1>1, <1>2 DEF MultipleProposal, MultipleRecord
  <1>6. CASE st # "open"
    <2> HIDE DEF st
    <2>1. q.status = st /\ q.expiration = p.expiration /\ q.veto = p.veto
      BY <1>1 DEF MultipleProposal, MultipleRecord
    <2>2. PM!MC!V!timelock_expiration(q) = PM!MC!V!timelock_expiration(p)
      BY <2>1 DEF PM!MC!V!timelock_expiration
    <2>3. PM!MC!current_status(q, h) = st
      BY <1>3, <1>4, <1>6, <2>1, <2>2 DEF PM!MC!current_status
    <2> QED BY <1>1, <2>3 DEF st, PM!MC!calculate_vote_result, MultipleProposal, MultipleRecord
  <1> QED BY <1>5, <1>6

\* A vote leaves an early rejection what it is.
LEMMA VoteRejects ==
    ASSUME NEW p \in MultipleProposal, NEW q \in MultipleProposal, NEW h \in Nat, h < p.expiration,
           PM!MC!is_rejected(p, h), NEW vote, NEW n, n # 0, Gains(p, q, vote, n)
    PROVE  PM!MC!is_rejected(q, h)
  <1> DEFINE D == DOMAIN p.votes
             v == p.votes
             u == q.votes
             rest == p.total_power - PM!MC!total(v)
             left == p.total_power - PM!MC!total(u)
             before == PM!MC!calculate_vote_result(p)
             after == PM!MC!calculate_vote_result(q)
  <1>1. \A c \in D : v[c] \in Nat /\ u[c] \in Nat
    BY VotesType DEF Gains
  <1>2. rest \in Nat /\ left \in Nat /\ rest = left + n /\ n \in Nat
    BY DEF Gains
  <1>3. u[vote] = v[vote] + n /\ vote \in D /\ \A c \in D \ {vote} : u[c] = v[c]
    BY DEF Gains
  <1>4. /\ DOMAIN u = D /\ q.choices = p.choices /\ q.total_power = p.total_power
        /\ q.expiration = p.expiration /\ q.allow_revoting = p.allow_revoting
    BY DEF Gains
  <1>5. ~PM!MC!V!is_expired(p.expiration, h)
    BY DEF PM!MC!V!is_expired, MultipleProposal, MultipleRecord
  <1>6. /\ before = {i \in D : \A j \in D : v[j] <= v[i]}
        /\ after = {i \in D : \A j \in D : u[j] <= u[i]}
    BY <1>4 DEF PM!MC!calculate_vote_result
  <1>7. p.total_power # PM!MC!total(v)
    BY <1>2 DEF Gains
  <1>8. ~p.allow_revoting
    BY <1>5 DEF PM!MC!is_rejected
  <1>9. PICK w \in before : p.choices[w].option_type = "none" /\ PM!MC!is_choice_unbeatable(p, w)
    BY <1>5, <1>7 DEF PM!MC!is_rejected
  <1>10. w \in D
    BY <1>6
  <1>11. \A c \in D \ {w} : v[w] >= v[c] + rest
    <2>1. SUFFICES ASSUME NEW c \in D \ {w} PROVE v[w] >= v[c] + rest
      OBVIOUS
    <2>2. v[w] > v[c] + rest \/ v[w] = v[c] + rest
      BY <1>9 DEF PM!MC!is_choice_unbeatable
    <2> HIDE DEF v, rest, D
    <2> QED BY <1>1, <1>2, <1>10, <2>2
  <1> HIDE DEF D, v, u, rest, left
  <1>12. ASSUME NEW c \in D \ {w} PROVE u[w] >= u[c] + left
    <2>1. v[w] >= v[c] + rest /\ v[w] \in Nat /\ v[c] \in Nat
      BY <1>1, <1>10, <1>11
    <2>2. u[w] = v[w] \/ u[w] = v[w] + n
      BY <1>3, <1>10
    <2>3. CASE c = vote
      <3>1. u[c] = v[c] + n /\ u[w] = v[w]
        BY <1>3, <1>10, <2>3
      <3> QED BY <1>2, <2>1, <3>1
    <2>4. CASE c # vote
      <3>1. u[c] = v[c]
        BY <1>3, <2>4
      <3> QED BY <1>2, <2>1, <2>2, <3>1
    <2> QED BY <2>3, <2>4
  <1>13. w \in after
    <2>1. \A c \in D : u[c] <= u[w]
      BY <1>1, <1>2, <1>10, <1>12
    <2> QED BY <1>6, <1>10, <2>1
  <1>14. PM!MC!is_choice_unbeatable(q, w)
    <2>1. SUFFICES ASSUME NEW c \in D \ {w} PROVE u[w] > u[c] + left \/ u[w] = u[c] + left
      BY <1>4, <1>9 DEF PM!MC!is_choice_unbeatable, u, left
    <2> QED BY <1>1, <1>2, <1>10, <1>12
  <1>15. Cardinality(after) > 1 => left = 0
    <2>1. SUFFICES ASSUME after # {w} PROVE left = 0
      BY FS_Singleton
    <2>2. PICK c \in after : c # w
      BY <1>13, <2>1
    <2>3. c \in D \ {w} /\ u[w] <= u[c]
      BY <1>6, <1>10, <2>2
    <2> QED BY <1>1, <1>2, <1>10, <1>12, <2>3
  <1>16. left = 0 => q.total_power = PM!MC!total(q.votes)
    BY <1>4 DEF left, u, Gains
  <1>17. ~PM!MC!V!is_expired(q.expiration, h) /\ ~q.allow_revoting /\ q.choices[w].option_type = "none"
    BY <1>4, <1>5, <1>8, <1>9
  <1> HIDE DEF before
  <1> QED BY <1>13, <1>14, <1>15, <1>16, <1>17, SameCardinality DEF PM!MC!is_rejected

\* A vote leaves a passage what it is.
LEMMA VotePasses ==
    ASSUME NEW p \in MultipleProposal, NEW q \in MultipleProposal, NEW h \in Nat, h < p.expiration,
           PM!MC!is_passed(p, h), NEW vote, NEW n, Gains(p, q, vote, n), q = [p EXCEPT !.votes = q.votes]
    PROVE  PM!MC!is_passed(q, h)
  <1>1. PICK w \in DOMAIN p.votes : Settled(p, w, h)
    BY PassedSettled
  <1>2. Settled(q, w, h)
    BY <1>1, VoteSettled
  <1>3. /\ DOMAIN q.votes = DOMAIN p.votes /\ q.choices = p.choices /\ q.total_power = p.total_power
        /\ q.expiration = p.expiration /\ q.allow_revoting = p.allow_revoting
        /\ q.quorum = p.quorum /\ q.min_voting_period = p.min_voting_period
    BY DEF Gains, MultipleProposal, MultipleRecord
  <1>4. PM!MC!calculate_vote_result(q) = {w}
    BY <1>1, <1>2, <1>3, LeaderAlone DEF Settled
  <1>5. PM!MC!quorum_met(q)
    <2>1. /\ PM!MC!total(p.votes) \in Nat /\ PM!MC!total(q.votes) \in Nat
          /\ PM!MC!total(p.votes) <= PM!MC!total(q.votes) /\ p.total_power \in Nat
      BY DEF Gains
    <2>2. p.quorum \in PM!MC!V!PercentageThreshold /\ PM!MC!quorum_met(p)
      BY DEF PM!MC!is_passed, MultipleProposal, MultipleRecord
    <2> QED BY <1>3, <2>1, <2>2, QuorumGrows DEF PM!MC!quorum_met
  <1>6. PM!MC!is_choice_unbeatable(q, w)
    BY <1>2, <1>3 DEF Settled, PM!MC!is_choice_unbeatable
  <1>7. q.choices[w].option_type # "none" /\ ~q.allow_revoting
    BY <1>2, <1>3 DEF Settled
  <1>8. PM!MC!V!is_expired(q.min_voting_period, h)
    BY <1>3 DEF PM!MC!is_passed
  <1> QED BY <1>4, <1>5, <1>6, <1>7, <1>8 DEF PM!MC!is_passed

\* A vote changes no decision.
LEMMA VoteStays ==
    ASSUME NEW p \in MultipleProposal, NEW ballots, NEW ran, NEW h \in Nat, MultipleOK(p, ballots, ran, h),
           h < p.expiration, NEW q, Voted(p, q)
    PROVE  Stays(p, h, q, h)
  <1> DEFINE before == PM!MC!current_status(p, h)
             after == PM!MC!current_status(q, h)
  <1>1. p.status \in PM!MC!V!Status /\ p.expiration \in Nat
    BY DEF MultipleProposal, MultipleRecord
  <1>2. /\ q \in MultipleProposal /\ q.status = p.status /\ q.veto = p.veto
        /\ q.expiration = p.expiration
    BY DEF Voted, MultipleProposal, MultipleRecord
  <1>3. ~PM!MC!V!is_expired(p.expiration, h)
    BY <1>1 DEF PM!MC!V!is_expired
  <1>4. ~p.allow_revoting => \E vote, n : n # 0 /\ Gains(p, q, vote, n)
    BY DEF Voted
  <1>5. PM!MC!V!timelock_expiration(q) = PM!MC!V!timelock_expiration(p)
    BY <1>2 DEF PM!MC!V!timelock_expiration
  <1>6. CASE p.status = "open"
    <2>1. CASE PM!MC!is_passed(p, h)
      <3>1. ~p.allow_revoting
        BY <1>3, <2>1 DEF PM!MC!is_passed
      <3>2. PICK vote, n : n # 0 /\ Gains(p, q, vote, n)
        BY <1>4, <3>1
      <3>3. PM!MC!is_passed(q, h)
        BY <1>2, <2>1, <3>2, VotePasses DEF Voted
      <3>4. PM!MC!calculate_vote_result(q) = PM!MC!calculate_vote_result(p)
        <4>1. PICK w \in DOMAIN p.votes : Settled(p, w, h)
          BY <2>1, PassedSettled
        <4>2. Settled(q, w, h) /\ DOMAIN q.votes = DOMAIN p.votes
          BY <1>2, <3>2, <4>1, VoteSettled DEF Gains
        <4> QED BY <1>2, <4>1, <4>2, LeaderAlone DEF Settled
      <3>5. before \in {"passed", "veto_timelock"} /\ after \in {"passed", "veto_timelock"}
        BY <1>2, <1>6, <2>1, <3>3 DEF PM!MC!current_status
      <3> QED BY <3>4, <3>5 DEF Stays, Verdict
    <2>2. CASE ~PM!MC!is_passed(p, h) /\ PM!MC!is_rejected(p, h)
      <3>1. ~p.allow_revoting
        BY <1>3, <2>2 DEF PM!MC!is_rejected
      <3>2. PICK vote, n : n # 0 /\ Gains(p, q, vote, n)
        BY <1>4, <3>1
      <3>3. PM!MC!is_rejected(q, h)
        BY <1>2, <2>2, <3>2, VoteRejects
      <3>4. ~PM!MC!is_passed(q, h)
        BY <1>2, <3>3, RejectedFails
      <3>5. before = "rejected" /\ after = "rejected"
        BY <1>2, <1>6, <2>2, <3>3, <3>4 DEF PM!MC!current_status
      <3> QED BY <3>5 DEF Stays, Verdict
    <2>3. CASE ~PM!MC!is_passed(p, h) /\ ~PM!MC!is_rejected(p, h)
      <3>1. before = "open"
        BY <1>3, <1>6, <2>3 DEF PM!MC!current_status
      <3> QED BY <3>1 DEF Stays
    <2> QED BY <2>1, <2>2, <2>3
  <1>7. CASE p.status # "open"
    <2>1. after = before
      BY <1>2, <1>5, <1>7 DEF PM!MC!current_status
    <2>2. CASE p.status \in Passed
      <3>1. PICK w \in DOMAIN p.votes : Settled(p, w, h)
        BY <2>2 DEF MultipleOK
      <3>2. ~p.allow_revoting
        BY <3>1 DEF Settled
      <3>3. PICK vote, n : n # 0 /\ Gains(p, q, vote, n)
        BY <1>4, <3>2
      <3>4. Settled(q, w, h) /\ DOMAIN q.votes = DOMAIN p.votes
        BY <1>2, <3>1, <3>3, VoteSettled DEF Gains
      <3>5. PM!MC!calculate_vote_result(q) = PM!MC!calculate_vote_result(p)
        BY <1>2, <3>1, <3>4, LeaderAlone DEF Settled
      <3> QED BY <2>1, <3>5 DEF Stays
    <2>3. CASE p.status \in {"rejected", "closed", "vetoed"}
      <3>1. before = p.status
        BY <2>3 DEF PM!MC!current_status
      <3> QED BY <2>1, <2>3, <3>1 DEF Stays, Verdict
    <2> QED BY <1>1, <1>7, <2>2, <2>3 DEF PM!MC!V!Status, Passed
  <1> QED BY <1>6, <1>7

\* No call changes a decision.
LEMMA MoveStays ==
    ASSUME NEW p \in MultipleProposal, NEW ballots, NEW ran, NEW h \in Nat, MultipleOK(p, ballots, ran, h),
           NEW q, Moves(p, q, h)
    PROVE  Stays(p, h, q, h)
  <1>1. CASE q = p
    BY <1>1, Zenon DEF Stays
  <1>2. CASE \E st : q = [p EXCEPT !.status = st] /\ Ends(PM!MC!current_status(p, h), st)
    BY <1>2, EndStays
  <1>3. CASE h < p.expiration /\ \E g : Voted(p, g) /\ q = PM!MC!update_status(g, h)
    <2>1. PICK g : Voted(p, g) /\ q = PM!MC!update_status(g, h)
      BY <1>3
    <2>2. g \in MultipleProposal
      BY <2>1 DEF Voted
    <2>3. Stays(p, h, g, h)
      BY <1>3, <2>1, VoteStays
    <2>4. /\ PM!MC!current_status(q, h) = PM!MC!current_status(g, h)
          /\ PM!MC!calculate_vote_result(q) = PM!MC!calculate_vote_result(g)
      BY <2>1, <2>2, SavedShown
    <2> QED BY <2>3, <2>4, Zenon DEF Stays
  <1> QED BY <1>1, <1>2, <1>3 DEF Moves

\* The decisions of dao-proposal-multiple through a step.
LEMMA MultipleFinal ==
    ASSUME IInv, Next, kind = "multiple", NEW id \in Ids
    PROVE  LET before == Outcome(store, id, height)
               after == Outcome(store', id, height')
           IN  \/ before[1] = "open"
               \/ after = before
               \/ after[1] = "vetoed" /\ ShownStatus(store, id, height) = "veto_timelock"
  <1> DEFINE p == store.proposals[id]
             q == store'.proposals[id]
             before == PM!MC!current_status(p, height)
             after == PM!MC!current_status(q, height')
  <1>1. /\ MultipleInv(store, height) /\ id \in DOMAIN store.proposals
        /\ height \in 0 .. MaxHeight["multiple"] /\ height \in Nat
    BY DEF IInv, Ids
  <1>2. /\ p \in MultipleProposal
        /\ MultipleOK(p, store.ballots[id], store.ran[id], height)
    BY <1>1, StoreAt DEF MultipleInv
  <1>3. \/ height' = height /\ Moved(store, store', height)
        \/ height' = height + 1 /\ store' = store
    BY MultipleStep
  <1>4. MultipleInv(store', height') /\ store.kind = "multiple" /\ store'.kind = "multiple"
    BY <1>1, MultipleStep, KindOfStore
  <1>5. Stays(p, height, q, height')
    <2>1. CASE height' = height /\ Moved(store, store', height)
      <3>1. Moves(p, q, height)
        BY <1>1, <2>1 DEF Moved
      <3> HIDE DEF p, q
      <3>2. Stays(p, height, q, height)
        BY <1>1, <1>2, <3>1, MoveStays
      <3> QED BY <2>1, <3>2, Zenon
    <2>2. CASE height' = height + 1 /\ store' = store
      <3>1. q = p
        BY <2>2
      <3> HIDE DEF p, q
      <3>2. Stays(p, height, p, height + 1)
        BY <1>1, <1>2, BlockStays
      <3> QED BY <2>2, <3>1, <3>2, Zenon
    <2> QED BY <1>3, <2>1, <2>2
  <1>6. /\ ShownStatus(store, id, height) = before
        /\ ShownStatus(store', id, height') = after
    BY <1>4 DEF ShownStatus
  <1>7. PM!MC!calculate_vote_result(q) = PM!MC!calculate_vote_result(p)
            => Elected(store', id) = Elected(store, id)
    BY <1>4, Zenon DEF Elected
  <1>8. \/ before = "open"
        \/ /\ Verdict(after) = Verdict(before)
           /\ Verdict(before) = "passed" => Elected(store', id) = Elected(store, id)
        \/ after = "vetoed" /\ before = "veto_timelock"
    BY <1>5, <1>7, Zenon DEF Stays
  <1> HIDE DEF before, after, p, q
  <1>10. /\ Outcome(store, id, height)
               = <<Verdict(before), IF Verdict(before) = "passed" THEN Elected(store, id) ELSE {}>>
         /\ Outcome(store', id, height')
               = <<Verdict(after), IF Verdict(after) = "passed" THEN Elected(store', id) ELSE {}>>
    BY <1>6, OutcomeOf, Zenon
  <1>11. Verdict("open") = "open" /\ Verdict("vetoed") = "vetoed"
    BY DEF Verdict
  <1> QED BY <1>6, <1>8, <1>10, <1>11

----------------------------------------------------------------------------
(* Decisions: dao-proposal-condorcet *)

\* The decision shown of p and t in block h is the one shown of q and u in block k.
RankedStays(p, t, h, q, u, k) ==
    LET before == PC!CD!status(p, t, h).kind
        after == PC!CD!status(q, u, k).kind
    IN  \/ before = "open"
        \/ /\ Verdict(after) = Verdict(before)
           /\ Verdict(before) = "passed" =>
                  PC!CD!PositiveColumns(u.m) = PC!CD!PositiveColumns(t.m)

\* What a column lacks, cell by cell.
LEMMA ColumnDistance ==
    ASSUME NEW m \in Matrix, NEW col \in PC!CD!Candidates(m),
           NEW L, L = PC!CD!Lacks(m, col), NEW D, D = PC!CD!Candidates(m) \ {col}
    PROVE  /\ IsFiniteSet(D) /\ Cardinality(D) = m.n - 1
           /\ PC!CD!distance_from_positivity(m, col) = SumOver(L, D)
           /\ \A x \in D : /\ L[x] \in Nat
                           /\ L[x] = IF Lead(m, col, x) > 0 THEN 0 ELSE 1 - Lead(m, col, x)
  <1>1. m.n \in Nat /\ PC!CD!Candidates(m) = 0 .. m.n - 1
    BY MatrixType, SizeType DEF PC!CD!Candidates
  <1>2. IsFiniteSet(0 .. m.n - 1) /\ Cardinality(0 .. m.n - 1) = m.n
    <2>1. PICK k \in Int : k = m.n - 1
      BY <1>1
    <2>2. IsFiniteSet(0 .. k) /\ Cardinality(0 .. k) = IF 0 > k THEN 0 ELSE k - 0 + 1
      BY FS_Interval
    <2> QED BY <1>1, <2>1, <2>2
  <1>3. IsFiniteSet(D) /\ Cardinality(D) = m.n - 1
    <2>1. IsFiniteSet(PC!CD!Candidates(m)) /\ Cardinality(PC!CD!Candidates(m)) = m.n
      BY <1>1, <1>2, Zenon
    <2>2. IsFiniteSet(D) /\ Cardinality(D) = Cardinality(PC!CD!Candidates(m)) - 1
      <3>1. IsFiniteSet(PC!CD!Candidates(m) \ {col})
            /\ Cardinality(PC!CD!Candidates(m) \ {col})
                   = IF col \in PC!CD!Candidates(m) THEN Cardinality(PC!CD!Candidates(m)) - 1
                     ELSE Cardinality(PC!CD!Candidates(m))
        BY <2>1, FS_RemoveElement, Zenon
      <3> QED BY <3>1
    <2> QED BY <2>1, <2>2
  <1>4. DOMAIN L = D
    BY DEF PC!CD!Lacks
  <1>5. ASSUME NEW x \in D
        PROVE  L[x] \in Nat /\ L[x] = IF Lead(m, col, x) > 0 THEN 0 ELSE 1 - Lead(m, col, x)
    <2> DEFINE c == PC!CD!get(m, col, x)
    <2>1. c \in Cell /\ Lead(m, col, x) = Value(c)
      BY LeadType DEF Lead
    <2>2. L[x] = IF c.sign = "positive" THEN 0 ELSE c.n + 1
      BY DEF PC!CD!Lacks
    <2> HIDE DEF c
    <2>3. CASE c = PC!CD!Zero
      BY <2>1, <2>2, <2>3 DEF Value, PC!CD!Zero
    <2>4. CASE c \in [sign : {"positive", "negative"}, n : Nat \ {0}]
      BY <2>1, <2>2, <2>4 DEF Value
    <2> QED BY <2>1, <2>3, <2>4 DEF Cell
  <1>6. PC!CD!distance_from_positivity(m, col) = SumOver(L, D)
    BY <1>4 DEF PC!CD!distance_from_positivity, SumOver, MapThenSumSet, MapThenFoldSet,
                PC!CD!MapThenSumSet, PC!CD!MapThenFoldSet
  <1> QED BY <1>3, <1>5, <1>6

\* A column that cannot win is still one after a vote, and has not become positive.
LEMMA LosesAfterVote ==
    ASSUME NEW t \in Tally, NEW u, Swings(t, u), NEW col \in PC!CD!Candidates(t.m),
           ~PC!CD!winnable(t.m, col, t.power_outstanding)
    PROVE  /\ ~PC!CD!winnable(u.m, col, u.power_outstanding)
           /\ col \notin PC!CD!PositiveColumns(u.m)
  <1>1. PICK power \in Nat \ {0} :
            /\ power <= t.power_outstanding /\ u.power_outstanding = t.power_outstanding - power
            /\ \A x, y \in PC!CD!Candidates(t.m) : x # y =>
                   /\ Lead(t.m, x, y) - power <= Lead(u.m, x, y)
                   /\ Lead(u.m, x, y) <= Lead(t.m, x, y) + power
    BY DEF Swings
  <1> DEFINE D == PC!CD!Candidates(t.m) \ {col}
             out == t.power_outstanding
             left == u.power_outstanding
             n == t.m.n - 1
             f == PC!CD!Lacks(t.m, col)
             g == PC!CD!Lacks(u.m, col)
  <1>2. t.m \in Matrix /\ u.m \in Matrix /\ out \in Nat /\ left \in Nat /\ n \in Nat \ {0}
    BY MatrixType, SizeType DEF Tally, Swings
  <1>3. u.m.n - 1 = n /\ PC!CD!Candidates(u.m) = PC!CD!Candidates(t.m)
    BY DEF Swings, PC!CD!Candidates
  <1>4. left = out - power /\ power <= out
    BY <1>1
  <1>5. /\ IsFiniteSet(D) /\ Cardinality(D) = n
        /\ PC!CD!distance_from_positivity(t.m, col) = SumOver(f, D)
        /\ \A x \in D : /\ f[x] \in Nat
                        /\ f[x] = IF Lead(t.m, col, x) > 0 THEN 0 ELSE 1 - Lead(t.m, col, x)
    BY <1>2, ColumnDistance
  <1>6. /\ PC!CD!distance_from_positivity(u.m, col) = SumOver(g, D)
        /\ \A x \in D : /\ g[x] \in Nat
                        /\ g[x] = IF Lead(u.m, col, x) > 0 THEN 0 ELSE 1 - Lead(u.m, col, x)
    BY <1>2, <1>3, ColumnDistance
  <1>7. ASSUME NEW x \in D
        PROVE  Lead(t.m, col, x) \in Int /\ Lead(u.m, col, x) \in Int
               /\ Lead(u.m, col, x) <= Lead(t.m, col, x) + power
    BY <1>1, <1>2, <1>3, LeadType
  <1>8. \/ SumOver(f, D) > out * n
        \/ \E x \in D : Lead(t.m, col, x) < 0 /\ -Lead(t.m, col, x) >= out
    <2>1. SUFFICES ASSUME SumOver(f, D) <= out * n
                   PROVE  \E x \in D : Lead(t.m, col, x) < 0 /\ -Lead(t.m, col, x) >= out
      <3>1. SumOver(f, D) \in Nat /\ out * n \in Nat
        BY <1>2, <1>5, SumNat
      <3> QED BY <2>1, <3>1
    <2>2. 0 < out
      BY <1>1, <1>2
    <2>3. PICK v \in PC!CD!Magnitudes(PC!CD!Column(t.m, col), "negative") : ~(v < out)
      BY <1>5, <2>1, <2>2 DEF PC!CD!winnable
    <2>4. PICK x \in D : PC!CD!get(t.m, col, x).sign = "negative" /\ v = PC!CD!get(t.m, col, x).n
      BY DEF PC!CD!Magnitudes, PC!CD!Column
    <2>5. PC!CD!get(t.m, col, x) \in Cell
      BY <1>2, LeadType
    <2>6. Lead(t.m, col, x) = -v /\ v \in Nat \ {0}
      BY <2>4, <2>5 DEF Lead, Value, Cell, PC!CD!Zero
    <2> QED BY <1>2, <2>3, <2>6
  <1> HIDE DEF D, out, left, n, f, g
  <1>9. SumOver(f, D) \in Nat /\ SumOver(g, D) \in Nat
    BY <1>5, <1>6, SumNat
  <1>10. col \notin PC!CD!PositiveColumns(u.m) <=> SumOver(g, D) # 0
    BY <1>3, <1>6 DEF PC!CD!PositiveColumns
  <1>11. CASE SumOver(f, D) > out * n
    <2>1. \A x \in D : f[x] <= g[x] + power
      <3>1. SUFFICES ASSUME NEW x \in D PROVE f[x] <= g[x] + power
        OBVIOUS
      <3> QED BY <1>5, <1>6, <1>7
    <2>2. SumOver(f, D) <= SumOver(g, D) + power * n
      <3>1. \A x \in D : f[x] \in Int /\ g[x] \in Int
        BY <1>5, <1>6
      <3>2. power \in Int
        OBVIOUS
      <3>3. SumOver(f, D) <= SumOver(g, D) + power * Cardinality(D)
        BY <1>5, <2>1, <3>1, <3>2, SumShift
      <3> QED BY <1>5, <3>3
    <2>3. left * n = out * n - power * n /\ left * n \in Nat /\ out * n \in Nat /\ power * n \in Nat
      <3>1. out = left + power
        BY <1>2, <1>4
      <3>2. out * n = left * n + power * n /\ left * n \in Nat /\ power * n \in Nat
        BY <1>2, <3>1
      <3> QED BY <3>2
    <2>4. SumOver(g, D) > left * n
      BY <1>9, <1>11, <2>2, <2>3
    <2>5. SumOver(g, D) # 0
      BY <1>9, <2>3, <2>4
    <2>6. ~PC!CD!winnable(u.m, col, left)
      <3>1. ~(SumOver(g, D) <= left * n)
        BY <1>9, <2>3, <2>4
      <3>2. n = u.m.n - 1
        BY <1>3
      <3> QED BY <1>6, <3>1, <3>2 DEF PC!CD!winnable
    <2> QED BY <1>10, <2>5, <2>6 DEF left
  <1>12. CASE \E x \in D : Lead(t.m, col, x) < 0 /\ -Lead(t.m, col, x) >= out
    <2>1. PICK x \in D : Lead(t.m, col, x) < 0 /\ -Lead(t.m, col, x) >= out
      BY <1>12
    <2> DEFINE l == Lead(u.m, col, x)
    <2>2. l \in Int /\ l <= 0 /\ -l >= left
      BY <1>2, <1>4, <1>7, <2>1
    <2>3. SumOver(g, D) # 0
      <3>1. g[x] = 1 - l /\ g[x] \in Nat
        BY <1>6, <2>2
      <3>2. g[x] <= SumOver(g, D)
        BY <1>5, <1>6, SumPart
      <3> QED BY <1>9, <2>2, <3>1, <3>2
    <2>4. ~PC!CD!winnable(u.m, col, left)
      <3>1. CASE left = 0
        BY <3>1 DEF PC!CD!winnable
      <3>2. CASE left # 0
        <4> DEFINE c == PC!CD!get(u.m, col, x)
        <4>1. c \in Cell /\ Value(c) = l /\ l < 0
          BY <1>2, <1>3, <2>2, <3>2, LeadType DEF Lead, D
        <4>2. c \in PC!CD!Column(u.m, col)
          BY <1>3 DEF PC!CD!Column, D
        <4> HIDE DEF c, l
        <4>3. c.sign = "negative" /\ c.n = -l
          BY <4>1 DEF Value, Cell, PC!CD!Zero
        <4>4. -l \in PC!CD!Magnitudes(PC!CD!Column(u.m, col), "negative")
          BY <4>2, <4>3 DEF PC!CD!Magnitudes
        <4>5. ~(-l < left)
          BY <1>2, <2>2
        <4> QED BY <4>4, <4>5 DEF PC!CD!winnable
      <3> QED BY <3>1, <3>2
    <2> QED BY <1>10, <2>3, <2>4 DEF left
  <1> QED BY <1>8, <1>11, <1>12

\* When no candidate can win any more, a vote changes nothing of that.
LEMMA NeverStays ==
    ASSUME NEW t \in Tally, t.winner = PC!CD!winner(t), t.winner.kind = "never", NEW u, Swings(t, u)
    PROVE  u.winner.kind = "never"
  <1>1. PC!CD!PositiveColumns(t.m) = {}
    <2>1. SUFFICES ASSUME PC!CD!PositiveColumns(t.m) # {} PROVE t.winner.kind # "never"
      OBVIOUS
    <2>2. PICK k, c : k \in {"undisputed", "some"} /\ PC!CD!winner(t) = [kind |-> k, candidate |-> c]
      BY <2>1 DEF PC!CD!winner
    <2> QED BY <2>2
  <1>2. \A col \in PC!CD!Candidates(t.m) : ~PC!CD!winnable(t.m, col, t.power_outstanding)
    BY <1>1 DEF PC!CD!winner
  <1>3. PC!CD!Candidates(u.m) = PC!CD!Candidates(t.m)
    BY DEF Swings, PC!CD!Candidates
  <1>4. ASSUME NEW col \in PC!CD!Candidates(u.m)
        PROVE  ~PC!CD!winnable(u.m, col, u.power_outstanding) /\ col \notin PC!CD!PositiveColumns(u.m)
    BY <1>2, <1>3, LosesAfterVote
  <1>5. PC!CD!PositiveColumns(u.m) = {}
    BY <1>4 DEF PC!CD!PositiveColumns
  <1>6. PC!CD!winner(u) = [kind |-> "never"]
    BY <1>4, <1>5 DEF PC!CD!winner
  <1> QED BY <1>6 DEF Swings

\* A candidate that leads every other by more than what is outstanding.
LEMMA Undisputed ==
    ASSUME NEW t, t.m \in Matrix, t.power_outstanding \in Nat, NEW w \in PC!CD!Candidates(t.m),
           \A x \in PC!CD!Candidates(t.m) \ {w} : Lead(t.m, w, x) > t.power_outstanding
    PROVE  /\ PC!CD!PositiveColumns(t.m) = {w}
           /\ PC!CD!winner(t) = [kind |-> "undisputed", candidate |-> w]
  <1> DEFINE positive == PC!CD!PositiveColumns(t.m)
             first == CHOOSE col \in positive : \A other \in positive : col <= other
             margins == PC!CD!Magnitudes(PC!CD!Column(t.m, w), "positive")
  <1>1. Beats(t, w)
    <2>1. \A x \in PC!CD!Candidates(t.m) \ {w} : Lead(t.m, w, x) \in Int
      BY LeadType
    <2> QED BY <2>1 DEF Beats
  <1>2. positive = {w}
    BY <1>1, ColumnsBeat
  <1>3. first = w
    <2>1. w \in Nat
      BY MatrixType, SizeType DEF PC!CD!Candidates
    <2> HIDE DEF positive
    <2>2. \E col \in positive : \A other \in positive : col <= other
      BY <1>2, <2>1
    <2>3. first \in positive
      BY <2>2
    <2> QED BY <1>2, <2>3
  <1>4. ASSUME NEW margin \in margins PROVE margin > t.power_outstanding
    <2>1. PICK x \in PC!CD!Candidates(t.m) \ {w} :
              PC!CD!get(t.m, w, x).sign = "positive" /\ margin = PC!CD!get(t.m, w, x).n
      BY DEF PC!CD!Magnitudes, PC!CD!Column
    <2>2. Lead(t.m, w, x) = margin
      BY <2>1 DEF Lead, Value
    <2> QED BY <2>2
  <1>5. PC!CD!winner(t)
            = [kind |-> IF \A margin \in PC!CD!Magnitudes(PC!CD!Column(t.m, first), "positive") :
                              margin > t.power_outstanding
                        THEN "undisputed" ELSE "some", candidate |-> first]
    BY <1>2, Zenon DEF PC!CD!winner
  <1> HIDE DEF first, margins
  <1>6. PC!CD!winner(t) = [kind |-> IF \A margin \in margins : margin > t.power_outstanding
                                    THEN "undisputed" ELSE "some", candidate |-> w]
    BY <1>3, <1>5, Zenon DEF margins
  <1> QED BY <1>2, <1>4, <1>6

\* Whoever leads every other by more than what is outstanding still does after a vote.
LEMMA LeadKept ==
    ASSUME NEW t \in Tally, NEW u, Swings(t, u), NEW w \in PC!CD!Candidates(t.m),
           \A x \in PC!CD!Candidates(t.m) \ {w} : Lead(t.m, w, x) > t.power_outstanding
    PROVE  /\ PC!CD!PositiveColumns(t.m) = {w} /\ PC!CD!PositiveColumns(u.m) = {w}
           /\ PC!CD!winner(u) = [kind |-> "undisputed", candidate |-> w]
  <1>1. t.m \in Matrix /\ u.m \in Matrix /\ t.power_outstanding \in Nat /\ u.power_outstanding \in Nat
    BY DEF Tally, Swings
  <1>2. PC!CD!Candidates(u.m) = PC!CD!Candidates(t.m)
    BY DEF Swings, PC!CD!Candidates
  <1>3. ASSUME NEW x \in PC!CD!Candidates(t.m) \ {w} PROVE Lead(u.m, w, x) > u.power_outstanding
    <2>1. PICK power \in Nat \ {0} :
              /\ u.power_outstanding = t.power_outstanding - power
              /\ \A y, z \in PC!CD!Candidates(t.m) : y # z => Lead(t.m, y, z) - power <= Lead(u.m, y, z)
      BY DEF Swings
    <2>2. Lead(t.m, w, x) \in Int /\ Lead(u.m, w, x) \in Int
      BY <1>1, <1>2, LeadType
    <2>3. Lead(t.m, w, x) - power <= Lead(u.m, w, x) /\ Lead(t.m, w, x) > t.power_outstanding
      BY <2>1
    <2> QED BY <1>1, <2>1, <2>2, <2>3
  <1>4. PC!CD!PositiveColumns(t.m) = {w}
    BY <1>1, Undisputed
  <1>5. PC!CD!PositiveColumns(u.m) = {w}
        /\ PC!CD!winner(u) = [kind |-> "undisputed", candidate |-> w]
    BY <1>1, <1>2, <1>3, Undisputed
  <1> QED BY <1>4, <1>5

\* An undisputed winner stays one after a vote.
LEMMA UndisputedStays ==
    ASSUME NEW t \in Tally, t.winner = PC!CD!winner(t), t.winner.kind = "undisputed",
           NEW u, Swings(t, u)
    PROVE  /\ u.winner.kind = "undisputed"
           /\ PC!CD!PositiveColumns(u.m) = PC!CD!PositiveColumns(t.m)
  <1> DEFINE w == t.winner.candidate
  <1>1. /\ w \in PC!CD!Candidates(t.m)
        /\ \A x \in PC!CD!Candidates(t.m) \ {w} : Lead(t.m, w, x) > t.power_outstanding
    BY WinnerFound DEF Tally
  <1> HIDE DEF w
  <1>2. /\ PC!CD!PositiveColumns(t.m) = {w} /\ PC!CD!PositiveColumns(u.m) = {w}
        /\ PC!CD!winner(u) = [kind |-> "undisputed", candidate |-> w]
    BY <1>1, LeadKept
  <1> QED BY <1>2 DEF Swings

\* status asks for a quorum of the power that has voted.
Quorate(p, t) ==
    PC!CD!V!does_vote_count_pass(p.total_power - t.power_outstanding, p.total_power, p.quorum)

\* What the status shown is.
LEMMA RankedShown ==
    ASSUME NEW p \in RankedProposal, NEW t \in Tally, NEW h \in Nat
    PROVE  LET k == PC!CD!status(p, t, h).kind
               w == t.winner.kind
               expired == h >= t.expiration
           IN  /\ p.last_status.kind # "open" => k = p.last_status.kind
               /\ p.last_status.kind = "open" /\ h < p.min_voting_period => k = "open"
               /\ p.last_status.kind = "open" /\ h >= p.min_voting_period =>
                      k = IF (expired /\ ~Quorate(p, t)) \/ w = "never" THEN "rejected"
                          ELSE IF w = "none" THEN IF expired THEN "rejected" ELSE "open"
                          ELSE IF w = "some" THEN IF expired THEN "passed" ELSE "open"
                          ELSE IF Quorate(p, t) THEN "passed" ELSE "open"
  <1> DEFINE now == PC!CD!status(p, t, h)
             w == t.winner
  <1>1. p.last_status \in RankedStatus /\ p.min_voting_period \in Nat /\ t.expiration \in Nat
        /\ w.kind \in {"none", "never", "some", "undisputed"}
    BY DEF RankedProposal, Tally, WinnerType
  <1>2. p.last_status.kind # "open" <=> p.last_status # PC!CD!Open
    BY <1>1 DEF RankedStatus, PC!CD!Open
  <1>3. /\ PC!CD!V!is_expired(p.min_voting_period, h) <=> h >= p.min_voting_period
        /\ PC!CD!V!is_expired(t.expiration, h) <=> h >= t.expiration
    BY <1>1 DEF PC!CD!V!is_expired
  <1>4. CASE p.last_status.kind # "open" \/ h < p.min_voting_period
    <2>1. now = p.last_status
      BY <1>1, <1>2, <1>3, <1>4 DEF PC!CD!status
    <2> HIDE DEF now
    <2> QED BY <1>1, <1>4, <2>1 DEF now
  <1>5. CASE p.last_status.kind = "open" /\ h >= p.min_voting_period
    <2> DEFINE expired == h >= t.expiration
    <2>1. now = IF (expired /\ ~Quorate(p, t)) \/ w.kind = "never" THEN PC!CD!Rejected
                ELSE IF w.kind = "none" THEN IF expired THEN PC!CD!Rejected ELSE PC!CD!Open
                ELSE IF w.kind = "some" THEN IF expired THEN PC!CD!Passed(w.candidate) ELSE PC!CD!Open
                ELSE IF Quorate(p, t) THEN PC!CD!Passed(w.candidate) ELSE PC!CD!Open
      <3>1. w.kind = "none" \/ w.kind = "never" \/ w.kind = "some" \/ w.kind = "undisputed"
        BY <1>1
      <3> HIDE DEF w
      <3> QED BY <1>2, <1>3, <1>5, <3>1 DEF PC!CD!status, Quorate, w
    <2>2. /\ PC!CD!Rejected.kind = "rejected" /\ PC!CD!Open.kind = "open"
          /\ \A c : PC!CD!Passed(c).kind = "passed"
      BY DEF PC!CD!Rejected, PC!CD!Open, PC!CD!Passed
    <2> HIDE DEF now
    <2> QED BY <1>1, <1>5, <2>1, <2>2 DEF now
  <1> QED BY <1>1, <1>4, <1>5

\* A block changes no decision.
LEMMA RankedBlockStays ==
    ASSUME NEW p \in RankedProposal, NEW t \in Tally, NEW h \in Nat
    PROVE  RankedStays(p, t, h, p, t, h + 1)
  <1> DEFINE k == PC!CD!status(p, t, h).kind
             n == PC!CD!status(p, t, h + 1).kind
             w == t.winner.kind
  <1>1. p.min_voting_period \in Nat /\ t.expiration \in Nat /\ h + 1 \in Nat
    BY DEF RankedProposal, Tally
  <1>2. CASE p.last_status.kind # "open"
    <2>1. k = p.last_status.kind /\ n = p.last_status.kind
      BY <1>1, <1>2, RankedShown
    <2> QED BY <2>1, Zenon DEF RankedStays
  <1>3. CASE p.last_status.kind = "open" /\ h < p.min_voting_period
    <2>1. k = "open"
      BY <1>3, RankedShown
    <2> QED BY <2>1, Zenon DEF RankedStays
  <1>4. CASE p.last_status.kind = "open" /\ h >= p.min_voting_period
    <2>1. k = IF (h >= t.expiration /\ ~Quorate(p, t)) \/ w = "never" THEN "rejected"
              ELSE IF w = "none" THEN IF h >= t.expiration THEN "rejected" ELSE "open"
              ELSE IF w = "some" THEN IF h >= t.expiration THEN "passed" ELSE "open"
              ELSE IF Quorate(p, t) THEN "passed" ELSE "open"
      BY <1>4, RankedShown
    <2>2. n = IF (h + 1 >= t.expiration /\ ~Quorate(p, t)) \/ w = "never" THEN "rejected"
              ELSE IF w = "none" THEN IF h + 1 >= t.expiration THEN "rejected" ELSE "open"
              ELSE IF w = "some" THEN IF h + 1 >= t.expiration THEN "passed" ELSE "open"
              ELSE IF Quorate(p, t) THEN "passed" ELSE "open"
      <3>1. h + 1 >= p.min_voting_period
        BY <1>1, <1>4
      <3> QED BY <1>1, <1>4, <3>1, RankedShown
    <2>3. h >= t.expiration => h + 1 >= t.expiration
      BY <1>1
    <2> HIDE DEF k, n, w
    <2>4. k = "open" \/ n = k
      BY <2>1, <2>2, <2>3
    <2> QED BY <2>4, Zenon DEF RankedStays, k, n
  <1> QED BY <1>1, <1>2, <1>3, <1>4

\* An end is one of the decision shown.
LEMMA RankedEndStays ==
    ASSUME NEW p \in RankedProposal, NEW t \in Tally, NEW h \in Nat, NEW k,
           RankedEnds(PC!CD!status(p, t, h).kind, k),
           NEW q, q = [p EXCEPT !.last_status = [kind |-> k]]
    PROVE  RankedStays(p, t, h, q, t, h)
  <1> DEFINE before == PC!CD!status(p, t, h).kind
  <1>1. k \in {"closed", "executed", "execution_failed"}
    BY DEF RankedEnds
  <1>2. q.last_status = [kind |-> k]
    BY DEF RankedProposal
  <1>3. PC!CD!status(q, t, h).kind = k
    <2>1. q.last_status # PC!CD!Open
      BY <1>1, <1>2 DEF PC!CD!Open
    <2>2. PC!CD!status(q, t, h) = q.last_status
      BY <2>1 DEF PC!CD!status
    <2> QED BY <1>2, <2>2
  <1>4. Verdict(k) = Verdict(before)
    <2>1. \/ before = "rejected" /\ k = "closed"
          \/ before = "passed" /\ k \in {"executed", "execution_failed"}
      BY DEF RankedEnds
    <2> HIDE DEF before
    <2> QED BY <2>1 DEF Verdict
  <1> QED BY <1>3, <1>4, Zenon DEF RankedStays

\* A vote changes no decision.
LEMMA RankedVoteStays ==
    ASSUME NEW p \in RankedProposal, NEW t \in Tally, NEW votes, NEW ran, NEW h \in Nat,
           RankedOK(p, t, votes, ran, h), h < t.expiration, NEW u, Swings(t, u)
    PROVE  RankedStays(p, t, h, p, u, h)
  <1> DEFINE before == PC!CD!status(p, t, h).kind
             after == PC!CD!status(p, u, h).kind
  <1>1. /\ u \in Tally /\ u.expiration = t.expiration /\ t.expiration \in Nat
        /\ p.last_status \in RankedStatus /\ t.winner = PC!CD!winner(t)
    BY DEF Swings, RankedOK, Tallied, RankedProposal, Tally
  <1>2. CASE p.last_status.kind # "open"
    <2>1. before = p.last_status.kind /\ after = p.last_status.kind
      BY <1>1, <1>2, RankedShown
    <2>2. Verdict(p.last_status.kind) = "passed" =>
              PC!CD!PositiveColumns(u.m) = PC!CD!PositiveColumns(t.m)
      <3>1. CASE p.last_status.kind \in Passed
        <4>1. PICK w \in PC!CD!Candidates(t.m) : RankSettled(t, w, h)
          BY <3>1 DEF RankedOK
        <4>2. \A x \in PC!CD!Candidates(t.m) \ {w} : Lead(t.m, w, x) > t.power_outstanding
          BY <4>1 DEF RankSettled
        <4> QED BY <4>2, LeadKept
      <3>2. CASE p.last_status.kind \notin Passed
        <4>1. p.last_status.kind \in {"rejected", "closed"}
          BY <1>1, <1>2, <3>2 DEF RankedStatus, Passed
        <4> QED BY <4>1 DEF Verdict
      <3> QED BY <3>1, <3>2
    <2> QED BY <2>1, <2>2, Zenon DEF RankedStays
  <1>3. CASE p.last_status.kind = "open" /\ h < p.min_voting_period
    <2>1. before = "open"
      BY <1>3, RankedShown
    <2> QED BY <2>1, Zenon DEF RankedStays
  <1>4. CASE p.last_status.kind = "open" /\ h >= p.min_voting_period
    <2>1. before = IF t.winner.kind = "never" THEN "rejected"
                   ELSE IF t.winner.kind = "none" \/ t.winner.kind = "some" THEN "open"
                   ELSE IF Quorate(p, t) THEN "passed" ELSE "open"
      BY <1>1, <1>4, RankedShown
    <2>2. after = IF u.winner.kind = "never" THEN "rejected"
                  ELSE IF u.winner.kind = "none" \/ u.winner.kind = "some" THEN "open"
                  ELSE IF Quorate(p, u) THEN "passed" ELSE "open"
      BY <1>1, <1>4, RankedShown
    <2>3. CASE t.winner.kind = "never"
      <3>1. u.winner.kind = "never"
        BY <1>1, <2>3, NeverStays
      <3>2. before = "rejected" /\ after = "rejected"
        BY <2>1, <2>2, <2>3, <3>1
      <3> QED BY <3>2 DEF RankedStays, Verdict
    <2>4. CASE t.winner.kind = "undisputed" /\ Quorate(p, t)
      <3>1. u.winner.kind = "undisputed" /\ PC!CD!PositiveColumns(u.m) = PC!CD!PositiveColumns(t.m)
        BY <1>1, <2>4, UndisputedStays
      <3>2. Quorate(p, u)
        <4>1. PICK power \in Nat \ {0} : u.power_outstanding = t.power_outstanding - power
          BY DEF Swings
        <4>2. /\ t.power_outstanding \in Nat /\ u.power_outstanding \in Nat /\ p.total_power \in Nat
              /\ p.quorum \in PC!CD!V!PercentageThreshold
          BY <1>1 DEF Tally, RankedProposal
        <4>3. /\ p.total_power - t.power_outstanding \in Int /\ p.total_power - u.power_outstanding \in Int
              /\ p.total_power - t.power_outstanding <= p.total_power - u.power_outstanding
          BY <4>1, <4>2
        <4>4. p.quorum \in PM!MC!V!PercentageThreshold
          BY <4>2 DEF PM!MC!V!PercentageThreshold, PC!CD!V!PercentageThreshold
        <4> QED BY <2>4, <4>2, <4>3, <4>4, QuorumGrows DEF Quorate
      <3>3. before = "passed" /\ after = "passed"
        BY <2>1, <2>2, <2>4, <3>1, <3>2
      <3> QED BY <3>1, <3>3, Zenon DEF RankedStays
    <2>5. CASE t.winner.kind # "never" /\ ~(t.winner.kind = "undisputed" /\ Quorate(p, t))
      <3>1. t.winner.kind \in {"none", "never", "some", "undisputed"}
        BY DEF Tally, WinnerType
      <3>2. before = "open"
        BY <2>1, <2>5, <3>1
      <3> QED BY <3>2, Zenon DEF RankedStays
    <2> QED BY <2>3, <2>4, <2>5
  <1>5. h < p.min_voting_period \/ h >= p.min_voting_period
    BY DEF RankedProposal
  <1> QED BY <1>2, <1>3, <1>4, <1>5

\* No call changes a decision.
LEMMA RankedMoveStays ==
    ASSUME NEW p \in RankedProposal, NEW t \in Tally, NEW votes, NEW ran, NEW h \in Nat,
           RankedOK(p, t, votes, ran, h), NEW q, NEW u, RankedMoves(p, t, q, u, h)
    PROVE  RankedStays(p, t, h, q, u, h)
  <1>1. CASE q = p /\ u = t
    BY <1>1, Zenon DEF RankedStays
  <1>2. CASE u = t /\ \E k : /\ q = [p EXCEPT !.last_status = [kind |-> k]]
                             /\ RankedEnds(PC!CD!status(p, t, h).kind, k)
    BY <1>2, RankedEndStays
  <1>3. CASE q = p /\ h < t.expiration /\ Swings(t, u)
    BY <1>3, RankedVoteStays
  <1> QED BY <1>1, <1>2, <1>3 DEF RankedMoves

\* The decisions of dao-proposal-condorcet through a step.
LEMMA RankedFinal ==
    ASSUME IInv, Next, kind = "condorcet", NEW id \in Ids
    PROVE  LET before == Outcome(store, id, height)
               after == Outcome(store', id, height')
           IN  before[1] = "open" \/ after = before
  <1> DEFINE p == store.proposals[id]
             t == store.tallies[id]
             q == store'.proposals[id]
             u == store'.tallies[id]
             before == PC!CD!status(p, t, height).kind
             after == PC!CD!status(q, u, height').kind
  <1>1. /\ RankedInv(store, height) /\ id \in DOMAIN store.proposals
        /\ height \in 0 .. MaxHeight["condorcet"] /\ height \in Nat
    BY DEF IInv, Ids
  <1>2. /\ p \in RankedProposal /\ t \in Tally
        /\ RankedOK(p, t, store.votes[id], store.ran[id], height)
    BY <1>1, RankedAt
  <1>3. \/ height' = height /\ RankedMoved(store, store', height)
        \/ height' = height + 1 /\ store' = store
    BY RankedStep
  <1>4. store.kind = "condorcet" /\ store'.kind = "condorcet"
    BY <1>1, RankedStep, KindOfStore
  <1>5. RankedStays(p, t, height, q, u, height')
    <2>1. CASE height' = height /\ RankedMoved(store, store', height)
      <3>1. RankedMoves(p, t, q, u, height)
        BY <1>1, <2>1 DEF RankedMoved
      <3> HIDE DEF p, q, t, u
      <3>2. RankedStays(p, t, height, q, u, height)
        BY <1>1, <1>2, <3>1, RankedMoveStays
      <3> QED BY <2>1, <3>2, Zenon
    <2>2. CASE height' = height + 1 /\ store' = store
      <3>1. q = p /\ u = t
        BY <2>2
      <3> HIDE DEF p, q, t, u
      <3>2. RankedStays(p, t, height, p, t, height + 1)
        BY <1>1, <1>2, RankedBlockStays
      <3> QED BY <2>2, <3>1, <3>2, Zenon
    <2> QED BY <1>3, <2>1, <2>2
  <1>6. /\ ShownStatus(store, id, height) = before
        /\ ShownStatus(store', id, height') = after
    BY <1>4 DEF ShownStatus
  <1>7. Elected(store, id) = PC!CD!PositiveColumns(t.m)
        /\ Elected(store', id) = PC!CD!PositiveColumns(u.m)
    BY <1>4 DEF Elected
  <1>8. \/ before = "open"
        \/ /\ Verdict(after) = Verdict(before)
           /\ Verdict(before) = "passed" => Elected(store', id) = Elected(store, id)
    BY <1>5, <1>7, Zenon DEF RankedStays
  <1> HIDE DEF before, after, p, q, t, u
  <1>9. /\ Outcome(store, id, height)
               = <<Verdict(before), IF Verdict(before) = "passed" THEN Elected(store, id) ELSE {}>>
        /\ Outcome(store', id, height')
               = <<Verdict(after), IF Verdict(after) = "passed" THEN Elected(store', id) ELSE {}>>
    BY <1>6, OutcomeOf, Zenon
  <1>10. Verdict("open") = "open"
    BY DEF Verdict
  <1> QED BY <1>8, <1>9, <1>10

----------------------------------------------------------------------------
(* Decisions: both modules *)

\* A step leaves every decision what it was, except for a veto in time.
LEMMA FinalStep ==
    ASSUME IInv, [Next]_vars
    PROVE  [\A id \in Ids :
               LET before == Outcome(store, id, height)
                   after == Outcome(store', id, height')
               IN  \/ before[1] = "open"
                   \/ after = before
                   \/ after[1] = "vetoed" /\ ShownStatus(store, id, height) = "veto_timelock"]_vars
  <1>1. CASE UNCHANGED vars
    BY <1>1
  <1>2. CASE Next
    <2>1. SUFFICES ASSUME NEW id \in Ids
                   PROVE  LET before == Outcome(store, id, height)
                              after == Outcome(store', id, height')
                          IN  \/ before[1] = "open"
                              \/ after = before
                              \/ after[1] = "vetoed" /\ ShownStatus(store, id, height) = "veto_timelock"
      BY Zenon
    <2>2. kind = "multiple" \/ kind = "condorcet"
      BY DEF IInv, Kinds
    <2>3. CASE kind = "multiple"
      BY <1>2, <2>3, MultipleFinal
    <2>4. CASE kind = "condorcet"
      BY <1>2, <2>4, RankedFinal
    <2> QED BY <2>2, <2>3, <2>4
  <1> QED BY <1>1, <1>2

----------------------------------------------------------------------------
(* The theorems *)

\* The invariant: storages have their types, tallies agree with votes, and what
\* passed is settled, through every call, vote, failed execution and block.
THEOREM Invariant == Spec => []IInv
  BY InitInv, StepInv, PTL DEF Spec

\* The tallies of both modules are exactly what the ballots say: votes of
\* dao-proposal-multiple, also changed ones, are counted once, with the power of
\* execute_vote; add_vote keeps the half matrix of dao-proposal-condorcet the
\* difference of those who prefer one candidate to the other.
THEOREM TalliesAlwaysMatch == Spec => []TalliesMatchBallots
  BY Invariant, TalliesMatch, PTL

\* execute_execute runs the messages of the choice that the votes elect, once, and
\* the votes that may still come afterwards elect no other.
THEOREM RunsTheElected == Spec => []RunsElected
  BY Invariant, ElectedRun, PTL

\* No vote, call or block changes a decision that a query has shown: what passes
\* early cannot be turned by the power that has not voted, what stats rejects early
\* no candidate can win any more, and what the end of the votes decides is decided.
\* Only the vetoer undoes a passage, while the timelock lasts.
THEOREM DecisionsAreFinal == Spec => OutcomeFinal
  <1>1. IInv /\ [Next]_vars =>
            [\A id \in Ids :
               LET before == Outcome(store, id, height)
                   after == Outcome(store', id, height')
               IN  \/ before[1] = "open"
                   \/ after = before
                   \/ after[1] = "vetoed" /\ ShownStatus(store, id, height) = "veto_timelock"]_vars
    BY FinalStep
  <1> QED BY <1>1, Invariant, PTL DEF Spec, OutcomeFinal
=============================================================================
