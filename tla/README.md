# TLA+ models of the DAO DAO contracts

The repository is a set of CosmWasm contracts for DAOs.  This directory keeps
the TLA+ models of its core, the TLC configurations that check them and the
proofs that TLAPS checks.  `PROJECT.json` maps every definition to the source
lines it stands for and lists the runs, mutants, hazards and theorems.

Contents: [inventory](#inventory), [how the chain is modelled](#the-chain),
[the modules](#modules), [the runs](#runs), [the proofs](#proofs),
[divergences](#divergences-between-code-and-documentation),
[what is left out](#what-is-not-modelled), [the plan](#plan).

## Inventory

| Part | State | Operations | Talks to |
|---|---|---|---|
| core contract (`dao-dao-core`) | admin, nominated admin, config, pause, voting module, proposal modules with status and prefix, active and total counts, items, token lists, sub-DAOs | run messages of proposal modules or the admin, pause, admin handover, replace modules, settings, receive tokens | instantiates modules and runs their callbacks; executes the messages of passed proposals |
| single choice proposals (`dao-proposal-single`) | config, proposals with tallies, ballots, creation policy, hook lists | propose, vote, veto, execute, close, rationale, settings, hooks | queries the voting module; calls the DAO; sends hooks to receivers and to its pre-propose module |
| multiple choice, Condorcet | like single, with choices or rankings and a margin matrix | like single | like single |
| pre-propose modules (base, approval, approver) | deposit of each proposal, submission policy, pending and completed approvals | propose with deposit, completion hook with refund, withdraw, approve, reject | proposal module, token contracts, each other |
| voting modules (cw4, staked tokens, staked NFTs) | snapshots of stake per height, claims, active threshold, hooks | stake, unstake, claim, settings | answer power queries, send stake hooks |
| cw20-stake and its reward distributors | shares, total, claims; reward indices | stake, fund, unstake, claim, distribute | token contracts, stake hooks |
| dao-rewards-distributor, cw-fund-distributor | distributions, user reward states, funding | create, fund, claim, withdraw, hooks | voting modules, token contracts |
| cw-vesting, cw-payroll-factory, cw-token-swap, cw-tokenfactory-issuer, cw-admin-factory, dao-migrator | escrowed funds, schedules, allowances | create, claim, cancel, swap, migrate | token contracts, the staking module of the chain |
| packages | vote counting and thresholds, status, veto, deposits, hooks, reply identifiers, pagination | pure functions and storage helpers | used by the contracts |

What makes each part correct:

* *core*: some proposal module is always enabled; the counts match the map; a
  nomination does not outlive its admin; a pause freezes the DAO and ends; only
  the admin and enabled modules change settings.
* *proposals*: a tally is the power of its ballots; a decided outcome stands
  whatever is voted later; messages run at most once; a veto timelock is
  respected; a status only moves forward and is announced only when reached;
  every proposal is completed in the end.
* *pre-propose*: a deposit is refunded or forfeited once, according to the
  outcome, and the contract holds what it owes.
* *voting and staking*: powers add up to the total at every height and the past
  does not change, so that a tally is meaningful; everybody can leave and be
  paid; what a share is worth does not fall; hook receivers know every power; the
  active threshold can be reached.
* *rewards and escrow*: what is owed never exceeds what is held; nobody's share
  is lost by somebody else's operation; bringing rewards up to date never fails,
  since the stake hooks, and with them staking itself, would fail with it.

What is hard here is not concurrency inside a contract (a contract runs one
handler at a time) but the order of things around it: a handler returns
messages that run after it; the contracts they reach may call back before the
outer call has ended; a failing message undoes everything it did, and a
`reply` that catches the failure goes on with the sender's state; hook
receivers are foreign code; time passes between any two transactions, so
expirations, timelocks and minimum voting periods race with votes and
executions.

## The chain

`CosmWasm` and the actions `Dispatch...`, `Return`, `Raise`, `Abort`/`Unwind`
of the contract modules model the chain, from how the contracts use it.  The
running calls are a stack of frames.  A frame has the message being run, the
storage from before it, and the messages still to be run for it.  They run
depth first: a message, everything it spawns, its reply, and only then the next
one.  A foreign contract may return an error (`Faulty`) and may call back into
the modelled contract before it returns (`Reentrant`); a foreign contract that
absorbs the error of its own nested call behaves as if it had not called.  An
error goes down the stack to the first frame that asked for a reply on error
and whose reply accepts it, restoring the storage saved there, or undoes the
whole transaction.  The clock moves only between transactions (a transaction is
one block's), in one unit for heights and times.

## Modules

| Module | Models | State and actions |
|---|---|---|
| `Threshold` | `packages/dao-voting` `voting.rs`, `threshold.rs` | operators: tallies, scaled comparisons, validation |
| `SingleChoiceProposal` | `proposal.rs`, `status.rs`, `veto.rs` | operators: `is_passed`, `is_rejected`, `current_status` |
| `ReplyId`, `Hooks` | `reply.rs`, `cw-hooks` | masked reply identifiers, hook lists |
| `ProposalLifecycle` | abstract specification of one proposal's status | `status`; a step moves to a later status |
| `ProposalSingle` | `dao-proposal-single` `contract.rs`, `state.rs`, hooks | `store` (all of the storage), `height`, `stack`; one action per execute handler, replies in `Return` and `Unwind` |
| `ProposalSingle_proofs` | theorems about it: types and tallies; executions and statuses; outcomes | |
| `Core` | `dao-dao-core` `contract.rs`, `state.rs` | `store`, `height`, `stack`; every handler is an operator that yields the storages it may leave, `Call` and `DispatchSelf` run it, `Return` runs `reply` |
| `Core_proofs` | theorems about it | |
| `Deposit`, `SubmissionPolicy` | `dao-voting` `deposit.rs`, `pre_propose.rs` | operators: checks of a deposit, messages that take and return it, who may submit |
| `PreProposeBase` | `dao-pre-propose-base` `execute.rs` (also `dao-pre-propose-single` and `-multiple`) | operators: one per handler, yielding the storage it leaves and the messages it returns |
| `PrePropose` | the above composed with `dao-pre-propose-approval-single`, `dao-pre-propose-approver`, two proposal modules and the token ledgers | `store` (of all these contracts), `stack`; `Call` starts a transaction or a nested call, `Dispatch` runs the handler a message is for, `Return` and `Raise` end the call of a foreign contract |
| `StakingBase` | what the staking contracts share: `cw_storage_plus` snapshots, claims, stake hooks, active thresholds | operators |
| `TokenStaked`, `Cw20Stake`, `Cw721Staked`, `OnftStaked` | `dao-voting-token-staked`; `cw20-stake` with `dao-voting-cw20-staked`; `dao-voting-cw721-staked` with `cw721-controllers`; `dao-voting-onft-staked` | one operator per handler, yielding the storages it may leave |
| `StakedVoting` | one of the four, in use | `store`, `height`; one action per operation |
| `SumTheorems` | lemmas about sums over finite sets, folds over lists, and induction up to a number | |
| `StakedVoting_proofs`, `Withdrawal_proofs` | theorems about `StakedVoting`: snapshots, hooks and shares; NFTs, claims, balances and active thresholds | |
| `MultipleChoice`, `Condorcet` | the pure parts of `dao-proposal-multiple` and `dao-proposal-condorcet`: counting, early decisions, the margin matrix | operators |
| `ProposalMultiple`, `ProposalCondorcet` | their contracts | one operator per handler, yielding the storages its transaction may leave |
| `ChoiceVoting` | one of the two, in use | `store` (with a ghost of what ran), `height`; one action per operation |
| `ChoiceVoting_proofs` | theorems about it: tallies, the margin matrix, decisions | |
| `RewardsDistributor`, `ExternalRewards`, `FundDistributor` | `dao-rewards-distributor`, `cw20-stake-external-rewards`, `cw-fund-distributor` | one operator per handler, yielding the storages it may leave |
| `Rewards` | one of the three, with the voting power contracts it asks | `store`, `voting`, `height`, `even`, `calls`; one action per operation, changes of voting power with their hooks |
| `Rewards_proofs` | theorems about it: handlers of the three contracts, then the steps | |
| `MCProposalSingle`, `MCCore`, `MCPrePropose`, `MCStakedVoting`, `MCChoiceVoting`, `MCRewards` | small instances for TLC | |

Decisions that a reader comparing model and code should know:

*ProposalSingle.*  `PROPOSAL_COUNT` is the length of the sequence of proposals.
A ballot with vote `"none"` is a missing entry.  `min_voting_period: None` is 0.
The expiration of a `VetoTimelock` status is derived from the proposal's
expiration and the veto configuration, as the code computes it.  The voting
module is the constant function `PowerAt`, a power for every height and every
set of addresses, assumed additive with the total at least the sum
(`PowerAssumption`); what a voting module must do to satisfy this belongs to
the voting modules.  `IsActive` and the size limit only make `Propose` fail and
are part of its nondeterminism; title, description and proposer's name are left
out.  `PRECISION_FACTOR` (10^9) and `Decimal`'s unit (10^18) are constants, 10
and 100 in the small instances, so that rounding happens with small powers.
`ran` counts executions of a proposal's messages; it is not part of the storage
but is rolled back with it, which is what makes it count effects that stay.

*Core.*  `to_add` of `UpdateProposalModules` is a number; the chain gives new
modules addresses that were never used.  The values of items and the charters
of sub-DAOs, names and URLs are left out.  `PAUSED` that is not set is 0.
`nominator` is a ghost: who made the pending nomination.  If the instantiation
of the DAO fails there is no DAO, so `Abort` is disabled there.  `Letters` is 26
in the code; with 2 a small instance reaches prefixes of two letters.  What
`ModuleInstantiateInfo` contains does not matter to the DAO; a new module may
return any of `Callbacks` in its instantiation data.  Adding to a token list
succeeds for the addresses that answer the token's query (`Cw20s`, `Cw721s`).

*PrePropose.*  A member of `Flows` is chosen at the start, and with it the
contract at `Pre`: with `"single"` a submission becomes a proposal at once, with `"approval"` it waits for the
approver.  The two proposal modules are reduced to what a pre-propose module
depends on: who may propose, the next identifier, that a proposal is completed
once (`ProposalSingle` checks it), the completion hook, and the reply that
evicts a module whose hook fails; only executions whose failure is caught
(`close_proposal_on_execution_failure`) are distinguished from failing
transactions.  Tokens are ledgers that may refuse any call (`Faulty`); an
allowance is assumed.  Allow and deny lists are sets, an optional argument is
`{}` or `{v}`, membership in the DAO is the constant set `Members`.  Ghosts:
`ref` tags a deposit with its submission, `terms` is what the submission was
made on, `paid` lists to whom its deposit was paid out, `withdrawn` the
denominations the DAO has withdrawn.  They are rolled back with the storage.
A call from outside that its target would refuse at once is not started.

*StakedVoting.*  The kind of module is chosen at the start and is part of the
storage.  A handler and the transfers it returns are one step: nothing runs in
between but the hook receivers, and these run when the storage is final, so that
a call they make is one more step; a receiver that fails undoes the step, so that
it shows as a step not taken.  `told` is what a receiver that adds up the hook
messages knows.  Durations are in blocks.  `dao-voting-token-staked` asks for the
current total when it decides whether it is active, the other three for the
total at the start of the block; the model follows each.  With a new NFT
collection from a factory the code does not compare an absolute threshold with
the supply, so the instance uses a percentage there.  In the onft module a list
of NFTs with a repetition raises the power by its length (`MCLists` has such a
list), so that the clause of `PowersAddUp` on the number of NFTs is stated for
cw721 only, where each NFT is received once.

*ChoiceVoting.*  The kind of module is chosen at the start.  A transaction is one
step: the handler's writes, then its messages in order with their replies, where
each message to a faulty receiver may fail or not.  Receivers that call back are
the subject of `ProposalSingle`, whose code these modules share.  The voting
module is `PowerAt`, and a member's power differs by height.  `IsActive` and the
size limit only make `Propose` fail.  `ran` is a ghost.  `Elected` reads the
tallies, which `TalliesMatchBallots` ties to the ballots.

*Rewards.*  The kind of contract is chosen at the start.  `Decimal`'s unit (10^18)
and the scale factor (10^39) are 1000 and 100, so that rounding happens with small
amounts.  Expirations are in blocks or in seconds, with `SecondsPerBlock` seconds
a block.  The owner is fixed: `cw_ownable` transfers are not modelled.  Voting
power contracts answer for the start of a block, as those of `StakedVoting` do,
and send their hooks in the step that changes the power.  A new reward of
`dao-rewards-distributor` is shared out by the total of the *previous* block and
claimed by members' power in *this* block (`helpers.rs`); after power has grown
the two do not belong together, and more may be owed than is held.  Members claim
by their power at the start of the block, and by their power now from the next
block on, so the larger of the two may share (`Peak`).  A total that did not fall
is therefore not enough: where one member leaves and another joins in the same
block, both share in a reward that counts only one of them (`Short`).  The ghost
`even` records whether every share so far was computed with a total that
accounts for the powers that share, and `Covered` is claimed for those histories.
In `cw-fund-distributor` the total is the one at the block of the instantiation,
whatever the distribution height (a comment in its `state.rs` calls it the "total
voting power at the distribution height"); there `even` says that the powers at
the distribution height, which has been reached, do not exceed that total.
`paid` is a ghost.  A change of the rate after the period has ended may be
refused by a `checked_sub`; this is part of `transition_epoch`.  Overflow of
64 bit heights and times is beyond the bounds.  A withdrawal destination is
stored, but the recipients' balances are not kept.  `cw-fund-distributor` is
funded with, and claims name, one denomination at a time, or all with `ClaimAll`.

## Runs

Every run stops by itself: the clock, the number of proposals and the depth of
nested calls are bounded by the constants marked *bound* in the modules.
`CHECK_DEADLOCK FALSE` is set because with the last block the system may stop.

| Run | Shows | Bounds |
|---|---|---|
| `single_lifecycle` | under every kind of threshold, with and without revoting, minimum voting period and veto: tallies match ballots, decided outcomes stand, messages run once, timelocks hold, statuses follow `ProposalLifecycle`, every proposal is completed | enough blocks for voting, expiration and timelock; proposals and voters such that ties, early decisions and revotes occur; percentages the precision factor represents |
| `single_hooks` | failing and reentrant hook receivers and pre-propose modules, proposals that reconfigure the module while they execute | one proposal, four nested calls, a reentrant receiver and two pre-propose modules |
| `single_rounding`, `single_hook_eviction`, `single_module_reply` | counterexamples to a comment or README, see below | smallest instances that show them |
| `core` | replacement of proposal modules with callbacks and failures: counts, prefixes, never locked out, pause freezes and ends, disabled stays disabled; no nomination of a former admin, settings change only in transactions of the admin or an enabled module | three proposal modules of which at most two exist at first, two voting modules, all other messages of the DAO to itself, two letters, three blocks with transactions in the first two, four nested calls |
| `prepropose` | deposits: the entry is the proposal's, a deposit is paid out once and on the terms it was made on, is there until then, none is left behind while the module has its place; the submission policy stays valid; a submission that waits for another DAO is decided once and the decisions of that DAO are carried out | both flows; two proposals (one may be older than the module), a member and a reentrant hook receiver that submits and completes proposals itself, a coin and a token, the approver module and its DAO deciding directly, four nested calls |
| `approver_veto` | counterexample to the approver's README, see below | the approval flow without deposits and failures |
| `staking` | for each staked voting module: powers add up and the past is fixed, whatever happens within a block; everybody can leave and is paid; hook receivers know the powers; shares do not lose value; the threshold can be reached | two stakers, three tokens or two NFTs, two claims each, thresholds within and beyond what can be reached; three blocks, two for onft |
| `choice` | for each module: tallies match ballots, a decision a query has shown stands, exactly the elected choice's messages run, once | one proposal, three members of whom one gains power after the first block, a faulty receiver of everything; multiple: voting for two blocks, five configurations, revoting and veto; Condorcet: up to four candidates (24 rankings), one block of voting |
| `rewards` | for each rewards contract: updates never fail, the balance covers what is owed, nobody's operation takes rewards from a member within a block | two members, a staking contract with hooks and a board without; dao-rewards-distributor: one distribution, four blocks, four fundings, updates or changes of power, and any claims and withdrawals; external rewards: two periods; fund distributor: four blocks, two denominations, redistribution to an earlier or later height |
| `rewards_top_up` | counterexample to a comment of `dao-rewards-distributor`, see below | as `rewards` |

Three blocks are enough for a pause made in the first or second block to be
seen in force and over; two initial modules and one more are the least with
which a module can be replaced, disabled together with another and disabled
twice; a nested call of depth four is a proposal's message to a contract that
calls back into a handler whose own message reaches a contract again.

For pre-propose modules two proposals are the least with which one deposit can
be paid out of another; two denominations let a configuration change strand a
refund in the old one; a nested call of depth four is a submission whose hook
completes the proposal, whose refund is being paid.

For staking, three tokens held unevenly are the least with which shares round,
and three blocks let a claim be made, mature and be paid while another is made.
Three members are the least with which rankings form a cycle; with four
candidates a column has three cells, so that the two bounds by which a proposal
is rejected early differ.  Four blocks let a
distribution be funded, updated, run out, be funded again and run on.  A run
that covers several contracts chooses among them at the start, so that every
property holds of each of them.

Every property has a mutant in `PROJECT.json`: a change to a definition that
models code, of a kind a programmer could make, under which TLC finds the
property violated.  The mutants are defined next to what they replace and are
marked as such.

*Fairness.*  `EventuallyCompleted` and `GovernanceResumes` assume that the
chain finishes a transaction it has started (weak fairness of the transaction
steps: the chain runs them without any outside help) and that blocks keep
coming (strong fairness of `Tick`: a tick is disabled while a transaction runs,
and nothing that users do stops block production).  `EventuallyCompleted` also
assumes that somebody keeps trying to execute or close a proposal that can be:
both are open to anyone (execution unless restricted to members, who are then
the ones assumed to try).  It is stated for configurations with
`close_proposal_on_execution_failure`: without it a proposal whose messages
always fail stays passed for ever.  No fairness is assumed of voters, of the vetoer, of
the admin or of foreign contracts.

## Proofs

TLAPS proves, for every value of the constants that satisfies the named
assumptions:

* `ProposalSingle_proofs!TypeCorrect` and `TalliesCorrect`: the storage, the
  saved storages and the running calls are well typed and tallies are exactly
  the power of the stored ballots.  Neither is inductive alone:
  `Votes::remove_vote` subtracts the old ballot's power, which stays a natural
  number only because the tally is the sum of the ballots, and the sum is right
  only because each ballot records the power at the proposal's start height.
  `IInv` carries both, for the storage and for every storage a running call has
  saved, because an error may restore any of them.
* `ProposalSingle_proofs!MessagesRunOnce`, `ReportsAreReached`,
  `TimelockIsRespected`, `LifecycleRefined`: executions, reports and statuses.
  A status is saved before the messages it stands for run, and an error takes
  the storage back to any of several earlier versions, so nothing can be said of
  the storage alone.  The invariant `VInv` follows the versions a transaction
  keeps: each saved storage is an earlier version of those saved above it and
  of the current one, as the life cycle orders statuses (`History`), and a
  proposal marked executed whose messages have not run is the one whose execution
  is the next message (`DueOK`).
* `ProposalSingle_proofs!PassedIsKept` and `RejectedIsKept`: no vote that is
  counted later turns a decided proposal.  That a rejected proposal does not pass
  is not inductive: it may not pass yet.  `OInv` says that before its expiration
  it still satisfies `is_rejected`, which votes keep as long as power that has
  not voted cannot outweigh the others, and that after it the proposal has not
  passed; and that a proposal keeps the total power of its start height and a
  valid threshold.  It says so of the storage and of every saved one.  The
  theorems are about percentages of at least one unit of `PRECISION_FACTOR`
  (passed) and about percentages without more decimals than it keeps
  (rejected).  Both hypotheses are needed: with less than a unit a proposal
  passes without any vote and stops passing when everybody abstains, and the run
  `single_rounding` shows a rejected proposal that comes to pass with a finer
  percentage.  No other configuration the code accepts is excluded.
* `StakedVoting_proofs!PastIsFixed`, `HooksAreExact`, `ValueIsKept`, for all
  four staked voting modules.  `SInv`: the snapshots hold no block after the
  present one, powers add up to the total, and the receiver of the hooks has
  been told exactly the powers.  Every handler either leaves the stakes alone or
  moves one user's and the total by the same number (`StakeStep`), and a write
  in block `h` only changes what is read above `h`.  `ValueIsKept` rests on the
  monotonicity of rounding down, for shares bought and sold by others.
* `Withdrawal_proofs!StakesAddUp` and `EveryoneCanLeave`.  For NFTs the
  invariant (`NftInv`) is about titles: a stake or a claim is a title to an NFT,
  there is at most one title to an NFT, and none unless the contract holds the
  NFT and nobody has prepared to stake it; a user's power is at least the number
  of NFTs staked, and in the cw721 module equal to it (in the onft module a list
  that names an NFT twice counts it twice).  NFTs the DAO took back are excepted,
  as in the property.  For tokens (`TokenInv`): what the stakers own together
  (the total in `dao-voting-token-staked`, `BALANCE` in `cw20-stake`) and all
  claims together are at most what the contract holds.  Neither property can be
  shown without it: that one user can be paid depends on what the others are
  owed.
* `Withdrawal_proofs!ThresholdReachable`: were everything staked, the module would
  be active.  The invariant `AInv` is that the active threshold asks for no more
  than there is (`Within`); that it stays so is not about the threshold, which is
  only compared when it is set, but about the supply: no stake, payment, funding or
  claim changes what all holders have together (`AsBefore`).  `RequiredWithin` shows
  that rounding the required stake up does not exceed the supply.  The theorem has two
  hypotheses, both about NFTs: the collection is not empty, since no percentage is
  met without a stake, and a collection that a factory makes has as many NFTs as
  an absolute count asks for (`FactoryCounts`), which the code does not compare.
* `Core_proofs!AlwaysGovernable`: between transactions a proposal module is
  enabled.  `execute_update_proposal_modules` may disable all modules if it adds
  some, so in between there is none; the invariant says that then a message that
  instantiates one is pending, or running, somewhere on the stack, and that the
  storage the transaction would go back to has one enabled.
* `Core_proofs!CountsCorrect`: the counts match the map.  This needs that the
  modules being instantiated are new and differ from each other, and that a list
  of modules to disable without repetition removes as many as its length.
* `Core_proofs!NominationsCorrect`, `PauseFreezes`: a nomination is the present
  admin's; a paused DAO without an admin does not change.
* `Core_proofs!DisabledIsForGood` and `ChangesAreGoverned`, about what one
  transaction makes of what the one before it left.  Both compare the committed
  storage with the storage the root of the stack has saved, so their invariants
  do: `LaterInv` (no module enabled or registered at the start is forgotten by
  now, none that was disabled is enabled) and `OthersInv` (a transaction of
  somebody who neither was the admin nor an enabled module has nothing pending
  and has left the settings alone).  A new module can be called while it is
  being instantiated, and a new admin while it accepts; neither matters, because
  the root stays who it was.
* `Core_proofs!PrefixesAreDistinct` and `TypesCorrect`: a module has the prefix
  of the total count when it was registered, the total never falls but in a
  rollback, and different numbers have different prefixes.  The last is a fact
  about `derive_proposal_module_prefix` for every number: its recursion ends and
  its letters can be read back (`Digits`, `PrefixRule`, `PrefixInjective`).  It
  needs an alphabet of at least two letters.

* `PrePropose_proofs!TypesCorrect`, `EntriesMatch`, `DepositsPaidAsPromised`,
  `SubmissionsApprovedOnce`, `PolicyAlwaysValid`, for both flows, every set of
  users, tokens, hook receivers and requests, and calls nested to any depth.
  The invariant `IInv` has four parts.  `StoreInv` is what one storage says:
  entries, submissions and proposals belong to each other, and what is paid is
  what was promised.  It is not inductive: the entry of a submission exists
  before its proposal does, and a completion hook pays although the hook, not
  the storage, says what it pays for.  `HeadInv` says that an announced proposal
  is the very next message, so no other call sees an entry without its proposal
  (it fails if hooks go out first), and that a payment under way is due.
  `HooksInv` says that completion hooks under way are about different, completed
  proposals that are not paid for, in the storage and in every storage that the
  transaction goes back to before the hook is delivered; without it, a call
  nested in the execution of a proposal's messages could pay twice.  `StackInv`
  says that every saved storage satisfies `StoreInv` and has no entry without
  a proposal, and that only proposal modules hear of errors.  Handlers are
  shown to be quiet (nothing the hooks rely on changes) or to send a special
  message first; delivering, returning and unwinding keep the four parts for
  either.
* `PrePropose_proofs!NothingLeftBehind`: no deposit is left behind when a
  transaction ends with the module in its place.  A deposit that is due is paid by
  a message, so the invariant `CarriedInv`, on top of `IInv`, says that for every
  deposit that is due and not paid there is one under way: the completion hook
  or the payment (`Carried`).  It says so of the storage and of every saved one,
  for the messages that were under way when it was saved, because an error that is
  caught goes back there and drops the messages since.  The one exception is
  an error whose reply takes the module out of its place: then its deposits may be
  stranded, which is why the property speaks of a module that has its place
  (`KeepsPlace`).
* `ChoiceVoting_proofs!TalliesAlwaysMatch`, `RunsTheElected`, `DecisionsAreFinal`,
  for `dao-proposal-multiple` and `dao-proposal-condorcet`, any number of members
  and options and every additive voting module.  `IInv` says of each proposal that
  its tally is what its ballots say (`Counted`, and `Tallied` for the matrix, cell
  by cell) and that a winner, once the proposal is shown as passed, stays
  ahead whatever is voted (`Settled`, `RankSettled`).  Both are needed for
  `RunsElected`, because both modules compute the winner again when they
  execute: the power that has not voted cannot reach the lead, and the tally says
  how much that is.  That the matrix is right needs the arithmetic of the half
  matrix, where a pair of candidates has one cell (`RowStart`), and that a ranking
  without repetition adds to each pair once.  `DecisionsAreFinal` compares two
  states: every call moves a proposal in one of few ways (`Moves`) and none of
  them, nor a block, changes a decision that a query has shown.  For the early
  rejection of `dao-proposal-condorcet`, a vote of power `n` moves every lead by at
  most `n` and leaves `n` less power that has not voted (`Swings`), so that a column
  which lacked more than that power, in one cell or summed over its cells, still
  does; and the quorum, once reached, stays reached.
* `Rewards_proofs!UpdatesSucceed`, for `dao-rewards-distributor`,
  `cw20-stake-external-rewards` and `cw-fund-distributor`: nothing that the owner,
  funders, members and hooks do makes bringing rewards up to date fail.  The
  property is about subtractions, so it needs to know what they subtract: `RInv`
  says that no member has more accounted for than the distribution has earned,
  that the times a distribution compares are of one kind, that external rewards
  were updated neither after this block nor after the end of the period, and that a
  member of `cw-fund-distributor` has claimed at most its share of what was
  received, while the powers it shares by are those of a height that has been
  reached.  For this what was earned must never fall: an update, a new epoch, a
  pause, a restart and a withdrawal each lead to a distribution that has earned at
  least as much (`Continues`, `Succeeds`).  Hooks bring many distributions
  and many members up to date in one call; the invariant goes through the lists
  because one update keeps it and succeeds on what the one before it left.

* `Rewards_proofs!BalanceCovers`, for the same three contracts: the balance covers
  what members may claim and what is still to be distributed.  The invariant
  `Covering` is about sums before they are divided: what is due to a member is
  kept times the scale factor, by the power that may share (`Due`), so that a
  reward moves from what a distribution has left to what is due without rounding
  up (`Affords`: power times what is newly earned is paid for by the complete periods
  that pass, or by the funds that are added).  Each handler moves one distribution
  and its token's balance together (`Moves`, `MovesCover`); bringing members up to
  date only rounds down (`Drawn`).  A change of power is covered because the
  contract that reports it has the distribution on its list (`Reported`), so the
  members whose power changes have nothing left to share by the new power
  (`Settled`, `PowerCovers`).  Of external rewards the period brings no more than
  the balance (`ExtCovers`), and stakes that changed in this block were brought up
  to date in it (`ExtSettled`).  Of `cw-fund-distributor` the shares of all members
  are no more than the whole (`SharesFitTheWhole`).  Sums over members and over
  distributions are taken through `SumTheorems`.

The assumptions: `AddrAssumption` (the contract's address is its own, new
modules have finitely many addresses of their own), `BoundAssumption` (bounds
are natural numbers, a prefix is written with at least two letters),
`ConfigAssumption`, `MsgAssumption` and `InputAssumption` (inputs have their
types; requests to the pre-propose modules come from accounts and contracts that
are not themselves modelled), `PowerAssumption` (powers are additive),
`ChoiceAssumption` (finitely many addresses, options, configurations and messages have
their types), `RewardsAssumption` and `RewardInputAssumption` (finitely many
members, amounts are natural numbers, contracts that a message names answer for
voting power), `StakingAssumption` and
`StakedAssumption` (finitely many stakers and NFTs, the contract and the DAO are
not stakers, amounts are natural numbers, lists of NFTs are lists of NFTs,
active thresholds are counts or percentages).  TLC
evaluates all of them in the runs.

Induction.  The library's induction theorems take an operator as a parameter,
which the provers cannot instantiate.  `SumTheorems` gets by with minimal
counterexamples: a set of numbers or of finite sets that is not empty has a
minimal member (`LeastNatural`, `MinimalSet`, from the well-foundedness of the
strict subset order, which has no operator parameter), and `InductionUpTo`
states induction over an interval for a set instead of a predicate.  Sums over
finite sets, the choice of the mature claims from a list, the prefixes of
proposal modules, the pairs of a ranking and the lists that hooks and claims go
through (`FoldStays`, `UnionFolds`, `UnionFoldExists`) are handled this way.

Only model checked: liveness; `Solvent` and `DecisionsCarriedOut` of
`PrePropose`; `RewardsKept` of `Rewards`.  `Solvent` bounds a sum over submissions
by a balance, `DecisionsCarriedOut` follows a decision through two contracts that
hear of it in turn, and `RewardsKept` compares what a member may claim before and
after a step through divisions that round down; each needs an invariant of its
own, which is not worked out.

## Divergences between code and documentation

* `single_hook_eviction`: a receiver that fails on two hooks of one transaction
  is evicted by an index that an earlier eviction has made stale.  The second
  reply fails, or evicts a healthy receiver.
* `single_module_reply`: a proposal that removes its pre-propose module still
  calls the old module's completion hook; when that fails, `reply` reaches the
  error its comment calls unreachable and the execution is undone.
* `single_rounding`: with a percentage that has more decimals than the precision
  factor keeps, a proposal can be rejected early although later votes would pass
  it, against the comment that no later vote changes a decided outcome.

* `approver_veto`: a vetoed approval proposal makes the approver's completion
  hook return an error, which takes the approver out of its proposal module.
  Approval proposals executed or closed afterwards have no effect, against its
  README.

* `rewards_top_up`: adding funds to a distribution with a linear rate that is not
  continuous moves the time of the last update to now without counting what was
  earned until then, against the comment in `state.rs` on `total_earned_puvp`.
  `RewardsKept` leaves these steps out; it also leaves out naming another voting
  power contract, which by design makes other powers share, and the
  redistribution of unclaimed funds.

## What the properties do not claim

* `Covered` is claimed for histories in which every share was computed with a
  total that accounts for the powers that share (`even`), and not in a block
  before which power has grown (`Ahead`).  In the other ones
  `dao-rewards-distributor` can owe more than it holds, because of the two heights
  it asks for (`helpers.rs`); no property speaks of those.
* `NothingStranded` speaks of a pre-propose module that has its place.  Deposits in
  a module that was evicted stay there until the DAO withdraws them; that they are
  there is part of `Solvent`, for denominations the DAO has not withdrawn.
* `Activatable` is about the supply of tokens and the collection of NFTs as they
  are.  An absolute count is compared with the supply only when it is set, so tokens
  burnt later can put it out of reach; minting and burning are not modelled.
* The clause of `PowersAddUp` on the number of NFTs is for `cw721` only.  In
  `dao-voting-onft-staked` the confirmation of a list that names an NFT twice
  raises the power by the list's length.
* The DAO a proposal module belongs to is a constant: the `dao` field of
  `update_config` is left out, and so are the checks on the vetoer's address and
  on the unit of the veto timelock.  In `ChoiceVoting` a DAO that is paused or has
  disabled the module is not a cause of its own for a failing execution; a faulty
  receiver has the same outcomes.  In `cw20-stake` the guard against sums that
  reach the width of `Uint128` is left out.

## What is not modelled

Queries other than those the properties use (they read), `migrate` (one-shot
conversion of version 1 storage; `cw-fund-distributor`'s, which redistributes
funds, is modelled), instantiation messages' contents, attributes and events,
gas, transfers of ownership with `cw_ownable`.  Components that are left out:

* `dao-voting-cw4`, `dao-voting-cw721-roles`, `cw721-roles`: power comes from a
  cw4 group, a dependency; only the queries matter to proposals;
* `cw20-stake-reward-distributor`: pays `cw20-stake` at a fixed rate; what its
  payments do there is `Cw20Stake`'s funding;
* `cw-vesting`, `cw-payroll-factory`, `cw-stake-tracker`, `cw-wormhole`: in the
  plan;
* `cw-token-swap`: in the plan;
* `cw-tokenfactory-issuer`, `btsg-ft-factory`: thin wrappers of a module of the
  chain;
* `cw-admin-factory`, `dao-migrator`: one-shot scripts;
* pagination, denomination checks, derive macros, message types, test doubles.

## Plan

Done: `ProposalSingle`, `Core`, `PrePropose`, `StakedVoting`, `ChoiceVoting`,
`Rewards`.  What could follow: vesting with cancellation and slashing against an
exact ledger, and the escrow of `cw-token-swap`.

Theorems to add: of `PrePropose`, that the module can pay what it owes and that
decisions of the approver's DAO are carried out; of `Rewards`, that no operation
takes rewards from a member.
