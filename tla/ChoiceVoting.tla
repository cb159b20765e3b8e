---------------------------- MODULE ChoiceVoting -----------------------------
(***************************************************************************)
(* A proposal module that lets members choose between more than two        *)
(* options, used by members, a vetoer and the DAO as blocks go by: either  *)
(* dao-proposal-multiple or dao-proposal-condorcet.                        *)
(***************************************************************************)
EXTENDS Integers, Sequences, FiniteSetsExt

CONSTANTS
    PrecisionFactor, DecimalOne,
    Addr,           \* members, the vetoer, receivers, pre-propose modules
    Dao,            \* the DAO's core contract
    Faulty,         \* contracts that may return an error when called
    Configs,        \* by kind: configurations to start from
    Modules,        \* pre-propose modules that may be installed from the start
    Options,        \* by kind: lists of options, each with its messages
    Rationales,     \* rationales given with votes
    DaoCalls,       \* by kind: calls the DAO makes on its own
    PowerAt,        \* voting power of an address at a height
    MaxHeight,      \* bound, by kind: the last block
    LastStart,      \* bound, by kind: the last block in which a proposal is made
    MaxProposals    \* bound: number of proposals

VARIABLES store, height

vars == <<store, height>>

PM == INSTANCE ProposalMultiple
PC == INSTANCE ProposalCondorcet

Kinds == {"multiple", "condorcet"}

ASSUME ChoiceAssumption ==
    /\ PrecisionFactor \in Nat \ {0} /\ DecimalOne \in Nat \ {0}
    /\ IsFiniteSet(Addr) /\ Dao \notin Addr /\ Modules \subseteq Addr
    /\ MaxHeight \in [Kinds -> Nat]
    /\ \A k \in Kinds : \A h \in 0 .. MaxHeight[k] : PowerAt[h] \in [Addr -> Nat]
    /\ Configs["multiple"] \subseteq PM!Config /\ Configs["condorcet"] \subseteq PC!Config
    /\ Options["multiple"] \subseteq Seq(Seq(PM!Call))
    /\ Options["condorcet"] \subseteq Seq(Seq(PC!Call))
    /\ DaoCalls["multiple"] \subseteq PM!Call /\ DaoCalls["condorcet"] \subseteq PC!Call

kind == store.kind
Ids == DOMAIN store.proposals

Becomes(results) == store' \in results /\ UNCHANGED height

----------------------------------------------------------------------------
Init ==
    /\ height = 0
    /\ \/ \E c \in Configs["multiple"],
             policy \in {PM!Anyone} \cup {PM!Module(m) : m \in Modules} :
             store \in PM!instantiate(c, policy)
       \/ \E c \in Configs["condorcet"] : store \in PC!instantiate(c)

MayPropose == Len(store.proposals) < MaxProposals /\ height <= LastStart[kind]

Propose(sender, proposer, options, votes) ==
    /\ kind = "multiple"
    /\ Becomes(PM!execute_propose(store, height, sender, proposer, options, votes))

ProposeRanked(sender, choices) ==
    /\ kind = "condorcet"
    /\ Becomes(PC!execute_propose(store, height, sender, choices))

CastVote(sender, id, vote, rationale) ==
    kind = "multiple" /\ Becomes(PM!execute_vote(store, height, sender, id, vote, rationale))

Rank(sender, id, vote) ==
    kind = "condorcet" /\ Becomes(PC!execute_vote(store, height, sender, id, vote))

UpdateRationale(sender, id, rationale) ==
    kind = "multiple" /\ Becomes(PM!execute_update_rationale(store, sender, id, rationale))

Veto(sender, id) == kind = "multiple" /\ Becomes(PM!execute_veto(store, height, sender, id))

Execute(sender, id) ==
    Becomes(IF kind = "multiple" THEN PM!execute_execute(store, height, sender, id)
            ELSE PC!execute_execute(store, height, sender, id))

Close(id) ==
    Becomes(IF kind = "multiple" THEN PM!execute_close(store, height, id)
            ELSE PC!execute_close(store, height, id))

DaoCall(call) ==
    Becomes(IF kind = "multiple" THEN PM!DaoCall(store, call) ELSE PC!DaoCall(store, call))

Tick == height < MaxHeight[kind] /\ height' = height + 1 /\ UNCHANGED store

\* The rankings of n candidates, for the numbers of candidates there may be.
Rankings ==
    [n \in {Len(choices) + 1 : choices \in Options["condorcet"]} |-> {v \in [1 .. n -> 0 .. n - 1] : \A i, j \in 1 .. n : v[i] = v[j] => i = j}]

Next ==
    \/ /\ MayPropose
       /\ \/ \E sender, proposer \in Addr, options \in Options["multiple"],
                votes \in {{}} \cup {{v} : v \in 0 .. 1} : Propose(sender, proposer, options, votes)
          \/ \E sender \in Addr, choices \in Options["condorcet"] : ProposeRanked(sender, choices)
    \/ \E id \in Ids, sender \in Addr :
           \/ /\ kind = "multiple"
              /\ \E vote \in DOMAIN store.proposals[id].choices, r \in Rationales :
                     CastVote(sender, id, vote, r)
           \/ /\ kind = "condorcet" /\ PC!MayVote(store, height, sender, id)
              /\ \E vote \in Rankings[store.tallies[id].m.n] : Rank(sender, id, vote)
           \/ \E r \in Rationales : UpdateRationale(sender, id, r)
           \/ Veto(sender, id)
           \/ Execute(sender, id)
    \/ \E id \in Ids : Close(id)
    \/ \E call \in DaoCalls[kind] : DaoCall(call)
    \/ Tick

Spec == Init /\ [][Next]_vars

----------------------------------------------------------------------------
(* Properties *)

\* The tallies are exactly what the ballots say: in dao-proposal-multiple each
\* option has the power of those who chose it, through changed votes; in
\* dao-proposal-condorcet cell (x, y) of the stored half matrix is the power that
\* prefers x to y less the power that prefers y to x.
TalliesMatchBallots ==
    \A id \in Ids :
        IF kind = "multiple"
        THEN LET p == store.proposals[id] IN
             \A choice \in DOMAIN p.choices :
                 p.votes[choice] = MapThenSumSet(
                     LAMBDA a : PowerAt[p.start_height][a],
                     {a \in Addr : store.ballots[id][a].vote = choice})
        ELSE LET t == store.tallies[id]
                 Voters == {a \in Addr : store.votes[id][a] # <<>>}
                 Prefer(x, y) == {a \in Voters : LET v == store.votes[id][a] IN
                                     \E j \in DOMAIN v : v[j] = y /\ \E i \in 1 .. j - 1 : v[i] = x}
                 Power(S) == MapThenSumSet(LAMBDA a : PowerAt[t.start_height][a], S)
             IN  /\ \A x, y \in PC!CD!Candidates(t.m) : x > y =>
                        LET margin == Power(Prefer(x, y)) - Power(Prefer(y, x))
                        IN  PC!CD!get(t.m, x, y) = CASE margin > 0 -> PC!CD!Positive(margin)
                                                     [] margin = 0 -> PC!CD!Zero
                                                     [] margin < 0 -> PC!CD!Negative(-margin)
                 /\ t.power_outstanding =
                        Power(Addr \ Voters)

\* The status a query would show.
ShownStatus(s, id, h) ==
    IF s.kind = "multiple" THEN PM!MC!current_status(s.proposals[id], h)
    ELSE PC!CD!status(s.proposals[id], s.tallies[id], h).kind

\* The choice the votes elect, in a set of at most one.
Elected(s, id) ==
    IF s.kind = "multiple"
    THEN LET leaders == PM!MC!calculate_vote_result(s.proposals[id]) IN
         IF Cardinality(leaders) = 1 THEN leaders ELSE {}
    ELSE PC!CD!PositiveColumns(s.tallies[id].m)

\* A decision as a reader of the module sees it: undecided, rejected, or the
\* choice that is elected.
Outcome(s, id, h) ==
    LET status == ShownStatus(s, id, h) IN
    CASE status = "open" -> <<"open", {}>>
      [] status \in {"rejected", "closed"} -> <<"rejected", {}>>
      [] status = "vetoed" -> <<"vetoed", {}>>
      [] OTHER -> <<"passed", Elected(s, id)>>

\* Once a query has shown a decision, no later vote, block or call changes it:
\* execute_vote's comment that "no possible sequence of votes may cause a different
\* one", and the claims of stats on early rejection.  Only a veto in time does.
OutcomeFinal ==
    [][\A id \in Ids :
           LET before == Outcome(store, id, height)
               after == Outcome(store', id, height')
           IN  \/ before[1] = "open"
               \/ after = before
               \/ after[1] = "vetoed" /\ ShownStatus(store, id, height) = "veto_timelock"]_vars

\* The messages that take effect are those of the choice the votes elect, once, and
\* only if the proposal was executed: not when the execution failed, and not when
\* "none of the above", which has none, was elected in dao-proposal-multiple.
RunsElected ==
    \A id \in Ids :
        LET status == IF kind = "multiple" THEN store.proposals[id].status
                      ELSE store.proposals[id].last_status.kind
            empty == kind = "multiple" /\ \A w \in Elected(store, id) :
                                              store.proposals[id].choices[w].msgs = <<>>
        IN  IF status = "executed" /\ ~empty
            THEN Elected(store, id) # {} /\ store.ran[id] = <<CHOOSE w \in Elected(store, id) : TRUE>>
            ELSE store.ran[id] = <<>>
=============================================================================
