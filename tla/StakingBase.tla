---------------------------- MODULE StakingBase ----------------------------
(***************************************************************************)
(* What the staking contracts and the voting modules on top of them share: *)
(* voting power that is remembered by height, claims that mature, hooks    *)
(* that report changes, and the threshold below which a module is not      *)
(* active.                                                                 *)
(*                                                                         *)
(* A handler yields the set of the storages it may leave: none if it       *)
(* returns an error.  The tokens and NFTs it sends are moved within the    *)
(* handler: nothing but the hook receivers runs in between, and those run  *)
(* when the storage is final, so that a call they make is one more step.   *)
(* A receiver that fails undoes the step.                                  *)
(***************************************************************************)
EXTENDS Hooks, FiniteSets

CONSTANTS
    Users,              \* accounts that stake
    Dao,                \* the DAO, owner of every contract here
    Self,               \* the contract that keeps what is staked
    Nfts,               \* the NFTs of the collection
    Tracker,            \* a hook receiver that keeps its own account of the stakes
    MaxClaims,          \* MAX_CLAIMS
    PrecisionFactor,    \* PRECISION_FACTOR
    DecimalOne          \* atomics of Decimal::one()

ASSUME StakingAssumption ==
    /\ IsFiniteSet(Users) /\ IsFiniteSet(Nfts)
    /\ Dao \notin Users /\ Self \notin Users \cup {Dao}
    /\ MaxClaims \in Nat /\ PrecisionFactor \in Nat \ {0} /\ DecimalOne \in Nat \ {0}

Holders == Users \cup {Self, Dao}
NoOne == "no one"

Ok(guard, s) == IF guard THEN {s} ELSE {}

----------------------------------------------------------------------------
(* SnapshotMap and SnapshotItem with Strategy::EveryBlock: the first write *)
(* in a block logs the value from before the block.                        *)

Snapshot(v) == [now |-> v, log |-> <<>>]

Written(snap, height, v) ==
    [now |-> v,
     log |-> [h \in DOMAIN snap.log \cup {height} |->
                 IF h \in DOMAIN snap.log THEN snap.log[h] ELSE snap.now]]

may_load_at_height(snap, height) ==
    LET later == {h \in DOMAIN snap.log : h >= height} IN
    IF later = {} THEN snap.now
    ELSE snap.log[CHOOSE h \in later : \A k \in later : h <= k]

----------------------------------------------------------------------------
(* Stakes *)

\* Mutant: the stakes are saved without their height.
SetPower_no_height(s, height, user, power, total) ==
    [s EXCEPT !.power[user].now = power, !.total.now = total]

\* The new stake of user, in the user's power and in the total.
SetPower(s, height, user, power, total) ==
    [s EXCEPT !.power[user] = Written(@, height, power),
              !.total = Written(@, height, total)]

\* Power moves by delta for the hook receivers, if any is there to be told.
Told(s, user, delta) ==
    IF Tracker \in Range(s.hooks) THEN [s EXCEPT !.told[user] = @ + delta] ELSE s

stake_hook_msgs(s, user, amount) == Told(s, user, amount)

unstake_hook_msgs(s, user, amount) == Told(s, user, -amount)

\* A receiver starts from the stakes as it finds them.
execute_add_hook(s, sender, addr) ==
    Ok(sender = Dao /\ can_add_hook(s.hooks, addr),
       [s EXCEPT !.hooks = add_hook(@, addr),
                 !.told = [u \in Users |-> s.power[u].now]])

execute_remove_hook(s, sender, addr) ==
    Ok(sender = Dao /\ can_remove_hook(s.hooks, addr),
       [s EXCEPT !.hooks = remove_hook(@, addr), !.told = [u \in Users |-> 0]])

----------------------------------------------------------------------------
(* Durations and claims.  An optional duration is a set of at most one. *)

validate_duration(duration) == 0 \notin duration

execute_update_config(s, sender, duration) ==
    Ok(sender = Dao /\ validate_duration(duration), [s EXCEPT !.duration = duration])

Claim(what, release_at) == [what |-> what, release_at |-> release_at]

\* duration.after(block)
ReleaseAt(s, height) == height + CHOOSE d \in s.duration : TRUE

\* The claims at the positions in S, in their order.
Picked(claims, S) ==
    LET picked[i \in 0 .. Len(claims)] ==
            IF i = 0 THEN <<>>
            ELSE IF i \in S THEN Append(picked[i - 1], claims[i]) ELSE picked[i - 1]
    IN  picked[Len(claims)]

Mature(claims, height) == Picked(claims, {i \in DOMAIN claims : claims[i].release_at <= height})
Waiting(claims, height) == Picked(claims, {i \in DOMAIN claims : claims[i].release_at > height})

\* The sum of f[x] over the members x of S.
Sum(f, S) == MapThenSumSet(LAMBDA x : f[x], S)

Amount(claims) == Sum([i \in DOMAIN claims |-> claims[i].what], DOMAIN claims)

----------------------------------------------------------------------------
(* Tokens *)

Pay(bank, from, to, amount) == [bank EXCEPT ![from] = @ - amount, ![to] = @ + amount]

\* Pays amount out to user now, or once the unstaking duration is over.
PaidOut(s, height, user, amount) ==
    IF s.duration = {}
    THEN Ok(s.bank[Self] >= amount, [s EXCEPT !.bank = Pay(@, Self, user, amount)])
    ELSE Ok(Len(s.claims[user]) < MaxClaims,
            [s EXCEPT !.claims[user] = Append(@, Claim(amount, ReleaseAt(s, height)))])

\* Every mature claim is paid.
Claimed(s, height, user) ==
    LET release == Amount(Mature(s.claims[user], height)) IN
    Ok(release # 0 /\ release <= s.bank[Self],
       [s EXCEPT !.claims[user] = Waiting(@, height), !.bank = Pay(@, Self, user, release)])

----------------------------------------------------------------------------
(* The active threshold, a set of at most one *)

ActiveThreshold == [kind : {"absolute_count"}, count : Nat] \cup [kind : {"percentage"}, percent : Nat]

AbsoluteCount(n) == {[kind |-> "absolute_count", count |-> n]}
Percentage(p) == {[kind |-> "percentage", percent |-> p]}

assert_valid_absolute_count_threshold(count, supply) == count # 0 /\ count <= supply

assert_valid_percentage_threshold(percent) == percent # 0 /\ percent <= DecimalOne

ValidThreshold(threshold, supply) ==
    \A t \in threshold :
        IF t.kind = "percentage" THEN assert_valid_percentage_threshold(t.percent)
        ELSE assert_valid_absolute_count_threshold(t.count, supply)

\* The stakes that threshold t asks for, rounded up.
RequiredStake(t, supply) ==
    IF t.kind = "absolute_count" THEN t.count
    ELSE ((supply * PrecisionFactor * t.percent) \div DecimalOne + PrecisionFactor - 1)
             \div PrecisionFactor

IsActive(threshold, staked, supply) == \A t \in threshold : staked >= RequiredStake(t, supply)

execute_update_active_threshold(s, sender, threshold, supply) ==
    Ok(sender = Dao /\ ValidThreshold(threshold, supply), [s EXCEPT !.threshold = threshold])

----------------------------------------------------------------------------
\* The storage of a new contract with its balances and NFTs; ghosts: told is the
\* Tracker's account of the powers, recalled the NFTs the DAO took back.
NewStore(kind, msg, bank, owner) ==
    [kind |-> kind, duration |-> msg.duration, threshold |-> msg.threshold, hooks |-> <<>>,
     power |-> [u \in Users |-> Snapshot(0)], total |-> Snapshot(0),
     claims |-> [u \in Users |-> <<>>], bank |-> bank, balance |-> 0,
     owner |-> owner, staked |-> {}, prepared |-> [n \in Nfts |-> NoOne],
     told |-> [u \in Users |-> 0], recalled |-> {}]
=============================================================================
