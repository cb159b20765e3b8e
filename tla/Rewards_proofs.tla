--------------------------- MODULE Rewards_proofs ---------------------------
(***************************************************************************)
(* Theorems about Rewards, for every set of members, every power they may  *)
(* have and every sequence of amounts, rates and periods: bringing rewards *)
(* up to date never fails, in any of the three contracts.                  *)
(*                                                                         *)
(* The subtractions that could fail are of what a member has accounted for *)
(* from what was earned, so the inductive invariant says that no handler   *)
(* lets what was earned fall: neither a new rate, which ends an epoch, nor *)
(* a funding, which moves the end of one, nor a withdrawal.                *)
(*                                                                         *)
(* And the balance of each contract covers what all members may claim with *)
(* what is still to be distributed: every amount is rounded down, so it is *)
(* enough that the sums before the divisions are covered, in every step.   *)
(***************************************************************************)
EXTENDS Rewards, SumTheorems, SequenceTheorems

----------------------------------------------------------------------------
(* Voting powers and blocks *)

Power == [Users -> Nat]

VotingType == [VpContracts -> [now : Power, start : Power, past : Seq(Power), prev_total : Nat]]

BlockType == [height : Nat \ {0}, voting : VotingType]

\* Rounded division keeps natural numbers, and so do products.
LEMMA Ratio ==
    ASSUME NEW a \in Nat, NEW b \in Nat \ {0}
    PROVE  a \div b \in Nat
  OBVIOUS

LEMMA Product ==
    ASSUME NEW a \in Nat, NEW b \in Nat
    PROVE  a * b \in Nat
  OBVIOUS

LEMMA RatioInt ==
    ASSUME NEW a \in Int, NEW b \in Nat \ {0}
    PROVE  a \div b \in Int
  OBVIOUS

\* The total of a power.
LEMMA TotalNat ==
    ASSUME NEW power \in Power
    PROVE  Total(power) \in Nat
  <1>1. Total(power) = SumOver(power, Users)
    BY Zenon DEF Total, TotalOver, SumOver, MapThenSumSet, MapThenFoldSet
  <1>2. \A u \in Users : power[u] \in Nat
    BY DEF Power
  <1>3. IsFiniteSet(Users)
    BY RewardsAssumption
  <1> QED BY <1>1, <1>2, <1>3, SumNat

----------------------------------------------------------------------------
(* dao-rewards-distributor: one distribution *)

Exp == [unit : {"never", "height", "time"}, at : Nat]

HookCallers == {msg.hook_caller : msg \in Creations} \cup UNION {msg.hook_caller : msg \in Updates}

Destinations == Senders \cup UNION {msg.withdraw_destination : msg \in Creations \cup Updates}

Dist ==
    [denom : Denoms, rate : Rates, started_at : Exp, ends_at : Exp, total_earned : Nat,
     last_updated : Exp, vp_contract : VpContracts, hook_caller : HookCallers, funded : Nat,
     withdraw_destination : Destinations, historical : Nat]

\* A distribution but for the time of its last update: a paused one earns nothing, and
\* the times of a linear one are in the unit of its rate.
Sound(d) ==
    /\ d \in Dist
    /\ d.rate.kind = "paused" => d.total_earned = 0
    /\ IsLinear(d.rate) =>
           /\ d.rate.duration # 0 /\ d.rate.amount # 0
           /\ \/ d.started_at = Never /\ d.ends_at = Never
              \/ d.started_at.unit = d.rate.unit /\ d.ends_at.unit = d.rate.unit

\* So is the time of its last update.
Updatable(d) ==
    /\ Sound(d)
    /\ IsLinear(d.rate) /\ d.ends_at # Never => d.last_updated.unit = d.ends_at.unit

\* The three forms of a rate.
LEMMA RateForms ==
    ASSUME NEW r \in Rates
    PROVE  /\ r.kind = "paused" <=> r = Paused
           /\ r.kind = "immediate" <=> r = Immediate
           /\ ~IsLinear(r) => r = Paused \/ r = Immediate
           /\ IsLinear(r) => /\ r # Paused /\ r # Immediate
                             /\ r.amount \in Nat /\ r.duration \in Nat /\ r.unit \in {"height", "time"}
  BY DEF Rates, Paused, Immediate, IsLinear

\* Times and the clock.
LEMMA Times ==
    ASSUME NEW b \in BlockType, NEW e \in Exp
    PROVE  /\ AtNow(b, e.unit) \in Exp /\ AtNow(b, e.unit).unit = e.unit
           /\ UpTo(b, e) \in Exp /\ UpTo(b, e).unit = e.unit
  <1>1. b.height \in Nat /\ b.height * SecondsPerBlock \in Nat
    BY RewardsAssumption DEF BlockType
  <1>2. AtNow(b, e.unit) \in Exp /\ AtNow(b, e.unit).unit = e.unit
    BY <1>1 DEF AtNow, At, Exp
  <1> QED BY <1>2 DEF UpTo

LEMMA NeverType == Never \in Exp /\ Never.unit = "never"
  BY DEF Never, Exp

LEMMA TimesDiffer ==
    ASSUME NEW e \in Exp, NEW f \in Exp
    PROVE  get_exp_diff(e, f) \in Nat
  BY DEF get_exp_diff, Exp

\* When an epoch starts, and when it ends.
LEMMA EpochTimes ==
    ASSUME NEW b \in BlockType, NEW r \in Rates, validate(r), NEW started \in Exp, NEW funded \in Nat
    PROVE  /\ StartFor(r, b) \in Exp
           /\ IsLinear(r) => StartFor(r, b).unit = r.unit
           /\ EndFor(r, started, funded) \in Exp
           /\ IsLinear(r) => IF started = Never THEN EndFor(r, started, funded) = Never
                             ELSE EndFor(r, started, funded).unit = r.unit
  <1>1. CASE IsLinear(r)
    <2>1. r.amount \in Nat \ {0} /\ r.duration \in Nat /\ r.unit \in {"height", "time"}
      BY <1>1, RateForms DEF validate
    <2>2. PICK e \in Exp : e.unit = r.unit
      <3>1. [unit |-> r.unit, at |-> 0] \in Exp /\ [unit |-> r.unit, at |-> 0].unit = r.unit
        BY <2>1 DEF Exp
      <3> QED BY <3>1
    <2>3. AtNow(b, r.unit) \in Exp /\ AtNow(b, r.unit).unit = r.unit
      BY <2>2, Times
    <2>4. get_funded_period_duration(r, funded) \in Nat
      <3>1. DecimalOne \in Nat \ {0}
        BY RewardsAssumption
      <3>2. funded * DecimalOne \in Nat
        BY <3>1, Product
      <3>3. (funded * DecimalOne) \div r.amount \in Nat
        BY <2>1, <3>2, Ratio
      <3>4. r.duration * ((funded * DecimalOne) \div r.amount) \in Nat
        BY <2>1, <3>3, Product
      <3> QED BY <3>1, <3>4, Ratio DEF get_funded_period_duration
    <2>5. started.at \in Nat
      BY DEF Exp
    <2>6. At(r.unit, started.at + get_funded_period_duration(r, funded)) \in Exp
          /\ At(r.unit, started.at + get_funded_period_duration(r, funded)).unit = r.unit
      BY <2>1, <2>4, <2>5 DEF At, Exp
    <2> QED BY <1>1, <2>3, <2>6, NeverType DEF StartFor, EndFor
  <1>2. CASE ~IsLinear(r)
    BY <1>2, NeverType DEF StartFor, EndFor
  <1> QED BY <1>1, <1>2

\* The rewards of an epoch.
LEMMA RewardsNat ==
    ASSUME NEW d, Sound(d)
    PROVE  get_total_rewards(d) \in Nat
  <1>1. d.rate \in Rates /\ d.funded \in Nat /\ d.ends_at \in Exp /\ d.started_at \in Exp
    BY DEF Sound, Dist
  <1>2. CASE ~IsLinear(d.rate)
    <2>1. d.rate = Paused \/ d.rate = Immediate
      BY <1>1, <1>2, RateForms
    <2>2. Paused # Immediate
      BY DEF Paused, Immediate
    <2> QED BY <1>1, <2>1, <2>2 DEF get_total_rewards
  <1>3. CASE IsLinear(d.rate)
    <2>1. d.rate.amount \in Nat /\ d.rate.duration \in Nat \ {0} /\ d.rate # Paused /\ d.rate # Immediate
      BY <1>1, <1>3, RateForms DEF Sound
    <2>2. d.rate.amount * get_exp_diff(d.ends_at, d.started_at) \in Nat
      BY <1>1, <2>1, TimesDiffer, Product
    <2>3. (d.rate.amount * get_exp_diff(d.ends_at, d.started_at)) \div d.rate.duration \in Nat
      BY <2>1, <2>2, Ratio
    <2> QED BY <2>1, <2>3 DEF get_total_rewards
  <1> QED BY <1>2, <1>3

\* The power that rewards are divided by.
LEMMA PrevTotal ==
    ASSUME NEW b \in BlockType, NEW c \in VpContracts
    PROVE  get_prev_block_total_vp(b, c) \in Nat
  BY DEF BlockType, VotingType, get_prev_block_total_vp

\* What was earned does not fall.
LEMMA Accrues ==
    ASSUME NEW d, Sound(d), NEW b \in BlockType
    PROVE  /\ get_active_total_earned_puvp(d, b) \in Nat
           /\ d.total_earned \in Nat
           /\ d.total_earned <= get_active_total_earned_puvp(d, b)
           /\ d.rate.kind = "paused" => get_active_total_earned_puvp(d, b) = 0
  <1> DEFINE latest == get_latest_reward_distribution_time(d, b)
             elapsed == get_exp_diff(latest, d.last_updated)
             power == get_prev_block_total_vp(b, d.vp_contract)
  <1>1. /\ d.rate \in Rates /\ d.ends_at \in Exp /\ d.last_updated \in Exp /\ d.total_earned \in Nat
        /\ d.vp_contract \in VpContracts
    BY DEF Sound, Dist
  <1>2. latest \in Exp
    BY <1>1, Times DEF get_latest_reward_distribution_time
  <1>3. elapsed \in Nat /\ power \in Nat
    <2> HIDE DEF latest
    <2> QED BY <1>1, <1>2, TimesDiffer, PrevTotal
  <1>4. ScaleFactor \in Nat \ {0}
    BY RewardsAssumption
  <1>5. CASE d.rate = Paused
    <2>1. d.total_earned = 0
      BY <1>5 DEF Sound, Paused
    <2>2. Paused # Immediate
      BY DEF Paused, Immediate
    <2>3. get_active_total_earned_puvp(d, b) = 0
      BY <1>5, <2>1, <2>2 DEF get_active_total_earned_puvp
    <2> QED BY <2>1, <2>3
  <1>6. CASE d.rate # Paused /\ (d.rate = Immediate \/ elapsed = 0 \/ power = 0)
    <2>1. get_active_total_earned_puvp(d, b) = d.total_earned
      BY <1>6 DEF get_active_total_earned_puvp
    <2> QED BY <1>1, <1>6, <2>1, RateForms
  <1>7. CASE d.rate # Paused /\ d.rate # Immediate /\ elapsed # 0 /\ power # 0
    <2> DEFINE gain == (d.rate.amount * (elapsed \div d.rate.duration) * ScaleFactor) \div power
    <2>1. get_active_total_earned_puvp(d, b) = d.total_earned + gain
      BY <1>7 DEF get_active_total_earned_puvp
    <2>2. d.rate.amount \in Nat /\ d.rate.duration \in Nat \ {0}
      BY <1>1, <1>7, RateForms DEF Sound
    <2> HIDE DEF elapsed, power
    <2>3. elapsed \div d.rate.duration \in Nat
      BY <1>3, <2>2, Ratio
    <2>4. d.rate.amount * (elapsed \div d.rate.duration) \in Nat
      BY <2>2, <2>3, Product
    <2>5. d.rate.amount * (elapsed \div d.rate.duration) * ScaleFactor \in Nat
      BY <1>4, <2>4, Product
    <2>6. gain \in Nat
      BY <1>3, <1>7, <2>5, Ratio
    <2> HIDE DEF gain
    <2> QED BY <1>1, <1>7, <2>1, <2>6, RateForms
  <1> QED BY <1>5, <1>6, <1>7

\* A distribution with another total, which the last update is brought up to.
LEMMA Bumped ==
    ASSUME NEW d, Sound(d), NEW b \in BlockType, NEW total \in Nat,
           d.rate.kind = "paused" => total = 0,
           NEW e, e = bump_last_updated([d EXCEPT !.total_earned = total], b)
    PROVE  /\ Updatable(e) /\ e.total_earned = total /\ e.historical = d.historical
           /\ e.vp_contract = d.vp_contract
  <1>1. d \in Dist /\ d.ends_at \in Exp
    BY DEF Sound, Dist
  <1> DEFINE updated == IF d.ends_at = Never THEN Never ELSE UpTo(b, d.ends_at)
  <1>2. updated \in Exp /\ (d.ends_at # Never => updated.unit = d.ends_at.unit)
    BY <1>1, Times, NeverType
  <1>3. e = [d EXCEPT !.total_earned = total, !.last_updated = updated]
    BY <1>1 DEF bump_last_updated, Dist
  <1> HIDE DEF updated
  <1>4. /\ e \in Dist /\ e.rate = d.rate /\ e.started_at = d.started_at /\ e.ends_at = d.ends_at
        /\ e.total_earned = total /\ e.historical = d.historical /\ e.last_updated = updated
        /\ e.vp_contract = d.vp_contract
    BY <1>1, <1>2, <1>3 DEF Dist
  <1> HIDE DEF Dist
  <1> QED BY <1>2, <1>4 DEF Sound, Updatable

\* A distribution can be brought up to date.
LEMMA CanBeUpdated ==
    ASSUME NEW d, Updatable(d), NEW b \in BlockType
    PROVE  CanUpdate(d, b)
  <1>1. d.ends_at \in Exp
    BY DEF Updatable, Sound, Dist
  <1> QED BY <1>1, Times DEF CanUpdate, Comparable, get_latest_reward_distribution_time, Updatable

LEMMA BroughtUpToDate ==
    ASSUME NEW d, Updatable(d), NEW b \in BlockType, NEW e, e = UpToDate(d, b)
    PROVE  Updatable(e) /\ Earned(e) \in Nat /\ Earned(d) \in Nat /\ Earned(d) <= Earned(e)
  <1> DEFINE total == get_active_total_earned_puvp(d, b)
  <1>1. /\ total \in Nat /\ d.total_earned \in Nat /\ d.total_earned <= total
        /\ d.rate.kind = "paused" => total = 0
    BY Accrues DEF Updatable
  <1>2. d.historical \in Nat /\ Sound(d)
    BY DEF Updatable, Sound, Dist
  <1>3. e = bump_last_updated([d EXCEPT !.total_earned = total], b)
    BY DEF UpToDate
  <1> HIDE DEF total
  <1>4. Updatable(e) /\ e.total_earned = total /\ e.historical = d.historical
    BY <1>1, <1>2, <1>3, Bumped
  <1> QED BY <1>1, <1>2, <1>4 DEF Earned

\* e is a distribution that has earned what d has, or more; it can be brought up to date.
Continues(d, e) ==
    Sound(e) /\ Earned(d) \in Nat /\ Earned(e) \in Nat /\ Earned(d) <= Earned(e)

Succeeds(d, e) ==
    Updatable(e) /\ Earned(d) \in Nat /\ Earned(e) \in Nat /\ Earned(d) <= Earned(e)

LEMMA EarnedNat ==
    ASSUME NEW d, Sound(d)
    PROVE  Earned(d) \in Nat /\ d.total_earned \in Nat /\ d.historical \in Nat
  BY DEF Sound, Dist, Earned

\* The last update is brought up to the block.
LEMMA BumpKeeps ==
    ASSUME NEW d, NEW f, Continues(d, f), NEW b \in BlockType
    PROVE  Succeeds(d, bump_last_updated(f, b))
  <1> DEFINE e == bump_last_updated(f, b)
             total == f.total_earned
  <1>1. Sound(f) /\ f \in Dist
    BY DEF Continues, Sound
  <1>2. total \in Nat /\ (f.rate.kind = "paused" => total = 0)
    BY <1>1 DEF Sound, Dist
  <1>3. f = [f EXCEPT !.total_earned = total]
    BY <1>1 DEF Dist
  <1>4. e = bump_last_updated([f EXCEPT !.total_earned = total], b)
    BY <1>3
  <1> HIDE DEF e
  <1>5. Updatable(e) /\ e.total_earned = total /\ e.historical = f.historical
    <2> HIDE DEF total
    <2> QED BY <1>1, <1>2, <1>4, Bumped
  <1>6. Succeeds(d, e)
    BY <1>5 DEF Continues, Succeeds, Earned
  <1> QED BY <1>6 DEF e

\* An amount that is distributed at once.
LEMMA AtOnceKeeps ==
    ASSUME NEW d, Sound(d), d.rate = Immediate, NEW b \in BlockType, NEW delta \in Nat,
           NEW e, e \in update_immediate_emission_total_earned_puvp(d, b, delta)
    PROVE  Continues(d, e) /\ ~IsLinear(e.rate)
  <1> DEFINE power == get_prev_block_total_vp(b, d.vp_contract)
             gain == (delta * ScaleFactor) \div power
  <1>1. d \in Dist /\ d.vp_contract \in VpContracts /\ d.total_earned \in Nat /\ d.historical \in Nat
    BY DEF Sound, Dist
  <1>2. power # 0 /\ e = [d EXCEPT !.total_earned = @ + gain]
    BY DEF update_immediate_emission_total_earned_puvp, Ok
  <1>3. power \in Nat \ {0} /\ ScaleFactor \in Nat
    BY <1>1, <1>2, PrevTotal, RewardsAssumption
  <1>4. gain \in Nat
    <2>1. delta * ScaleFactor \in Nat
      BY <1>3, Product
    <2> HIDE DEF power
    <2> QED BY <1>3, <2>1, Ratio
  <1> HIDE DEF gain, power
  <1>5. /\ e \in Dist /\ e.rate = d.rate /\ e.total_earned = d.total_earned + gain
        /\ e.historical = d.historical
    BY <1>1, <1>2, <1>4 DEF Dist
  <1>6. e.rate.kind = "immediate"
    BY <1>5 DEF Immediate
  <1> HIDE DEF Dist
  <1> QED BY <1>1, <1>4, <1>5, <1>6 DEF Continues, Sound, IsLinear, Earned

\* Funds that are added move the end of an epoch, and leave alone what was earned.
LEMMA ExtendedKeeps ==
    ASSUME NEW d, Sound(d), NEW b \in BlockType, NEW amount \in Nat
    PROVE  LET e == Extended(d, b, amount) IN
           /\ Continues(d, e) /\ e.rate = d.rate /\ e.vp_contract = d.vp_contract
           /\ Earned(e) = Earned(d) /\ e.historical = d.historical /\ e.total_earned = d.total_earned
  <1> DEFINE r == d.rate
             started == IF Restarts(d, b) THEN StartFor(r, b) ELSE d.started_at
             funded == IF Restarts(d, b) THEN amount ELSE d.funded + amount
             ends == EndFor(r, started, funded)
             e == [d EXCEPT !.funded = funded, !.started_at = started, !.ends_at = ends]
  <1>1. d \in Dist /\ r \in Rates /\ d.started_at \in Exp /\ d.funded \in Nat
    BY DEF Sound, Dist
  <1>2. validate(r) /\ (IsLinear(r) => r.unit \in {"height", "time"})
    BY <1>1, RateForms DEF Sound, validate
  <1>3. StartFor(r, b) \in Exp /\ (IsLinear(r) => StartFor(r, b).unit = r.unit)
    <2>1. 0 \in Nat
      OBVIOUS
    <2> QED BY <1>1, <1>2, <2>1, EpochTimes
  <1>4. started \in Exp /\ funded \in Nat
    BY <1>1, <1>3
  <1>5. IsLinear(r) => started = Never \/ started.unit = r.unit
    BY <1>3 DEF Sound
  <1> HIDE DEF started, funded
  <1>6. /\ ends \in Exp
        /\ IsLinear(r) => IF started = Never THEN ends = Never ELSE ends.unit = r.unit
    BY <1>1, <1>2, <1>4, EpochTimes
  <1> HIDE DEF ends, r
  <1>7. /\ e \in Dist /\ e.rate = d.rate /\ e.started_at = started /\ e.ends_at = ends
        /\ e.vp_contract = d.vp_contract /\ e.historical = d.historical
        /\ e.total_earned = d.total_earned
    BY <1>1, <1>4, <1>6 DEF Dist
  <1> HIDE DEF e
  <1>8. Sound(e) /\ Earned(e) = Earned(d)
    BY <1>5, <1>6, <1>7 DEF Sound, Earned, r
  <1>9. Continues(d, e)
    BY <1>8, EarnedNat DEF Continues
  <1>10. Extended(d, b, amount) = e
    BY DEF Extended, e, ends, started, funded, r
  <1> QED BY <1>7, <1>8, <1>9, <1>10

\* The distributions that funding d with amount may leave, but for the last update.
Fundings(d, b, amount) ==
    LET e == Extended(d, b, amount) IN
    CASE d.rate = Immediate -> update_immediate_emission_total_earned_puvp(e, b, amount)
      [] IsContinuous(d) /\ ~Restarts(d, b) ->
             Ok(CanUpdate(e, b), [e EXCEPT !.total_earned = get_active_total_earned_puvp(e, b)])
      [] OTHER -> {e}

LEMMA FundingKeeps ==
    ASSUME NEW d, Sound(d), NEW b \in BlockType, NEW amount \in Nat,
           NEW f, f \in Fundings(d, b, amount)
    PROVE  Succeeds(d, bump_last_updated(f, b))
  <1> DEFINE e == Extended(d, b, amount)
  <1>1. /\ Continues(d, e) /\ e.rate = d.rate /\ Earned(e) = Earned(d) /\ e.historical = d.historical
        /\ e.total_earned = d.total_earned
    BY ExtendedKeeps
  <1>2. Sound(e) /\ e \in Dist
    BY <1>1 DEF Continues, Sound
  <1> DEFINE once == update_immediate_emission_total_earned_puvp(e, b, amount)
             total == get_active_total_earned_puvp(e, b)
             g == [e EXCEPT !.total_earned = total]
  <1>3. \/ d.rate = Immediate /\ f \in once
        \/ f = g
        \/ f = e
    BY DEF Fundings, Ok, IsContinuous, IsLinear, Immediate
  <1>4. total \in Nat /\ e.total_earned <= total /\ (e.rate.kind = "paused" => total = 0)
    BY <1>2, Accrues
  <1> HIDE DEF e, total
  <1>5. CASE d.rate = Immediate /\ f \in once
    <2>1. Continues(e, f)
      BY <1>1, <1>2, <1>5, AtOnceKeeps
    <2>2. Continues(d, f)
      BY <1>1, <2>1 DEF Continues
    <2> QED BY <2>2, BumpKeeps
  <1>6. CASE f = g
    <2>1. /\ g \in Dist /\ g.rate = e.rate /\ g.started_at = e.started_at /\ g.ends_at = e.ends_at
          /\ g.total_earned = total /\ g.historical = e.historical
      BY <1>2, <1>4 DEF Dist
    <2>2. e.total_earned \in Nat /\ e.historical \in Nat
      BY <1>2, EarnedNat
    <2> HIDE DEF g
    <2>3. Sound(g)
      BY <1>2, <1>4, <2>1 DEF Sound
    <2>4. Continues(e, g)
      BY <1>2, <1>4, <2>1, <2>2, <2>3 DEF Continues, Earned
    <2>5. Continues(d, g)
      BY <1>1, <2>4 DEF Continues
    <2> QED BY <1>6, <2>5, BumpKeeps
  <1>7. CASE f = e
    BY <1>1, <1>7, BumpKeeps
  <1> QED BY <1>3, <1>5, <1>6, <1>7

\* An epoch that is stopped.
LEMMA Stops ==
    ASSUME NEW d, Sound(d), NEW b \in BlockType
    PROVE  /\ StoppedAt(d, b) \in Exp
           /\ IsLinear(d.rate) =>
                  \/ d.started_at = Never /\ StoppedAt(d, b) = Never
                  \/ d.started_at.unit = d.rate.unit /\ StoppedAt(d, b).unit = d.rate.unit
  <1>1. d.started_at \in Exp /\ d.rate \in Rates
    BY DEF Sound, Dist
  <1>2. IsLinear(d.rate) => d.rate.unit # "never"
    BY <1>1, RateForms
  <1>3. AtNow(b, d.started_at.unit) \in Exp /\ AtNow(b, d.started_at.unit).unit = d.started_at.unit
    BY <1>1, Times
  <1> QED BY <1>1, <1>2, <1>3, NeverType DEF Sound, StoppedAt

LEMMA FinishedKeeps ==
    ASSUME NEW d, Sound(d), NEW b \in BlockType
    PROVE  Continues(d, Finished(d, b))
  <1> DEFINE total == get_active_total_earned_puvp(d, b)
             stop == StoppedAt(d, b)
             f == [d EXCEPT !.total_earned = total, !.ends_at = stop]
  <1>1. d \in Dist /\ d.historical \in Nat /\ d.total_earned \in Nat
    BY DEF Sound, Dist
  <1>2. total \in Nat /\ d.total_earned <= total /\ (d.rate.kind = "paused" => total = 0)
    BY Accrues
  <1>3. /\ stop \in Exp
        /\ IsLinear(d.rate) => \/ d.started_at = Never /\ stop = Never
                               \/ d.started_at.unit = d.rate.unit /\ stop.unit = d.rate.unit
    BY Stops
  <1>4. Finished(d, b) = f
    BY DEF Finished
  <1> HIDE DEF total, stop
  <1>5. /\ f \in Dist /\ f.rate = d.rate /\ f.started_at = d.started_at /\ f.ends_at = stop
        /\ f.total_earned = total /\ f.historical = d.historical
    BY <1>1, <1>2, <1>3 DEF Dist
  <1> HIDE DEF f
  <1>6. Sound(f)
    BY <1>2, <1>3, <1>5 DEF Sound
  <1>7. Continues(d, f)
    BY <1>1, <1>2, <1>5, <1>6 DEF Continues, Earned
  <1> QED BY <1>4, <1>7

\* The next epoch keeps what the one before earned as history.
LEMMA NewEpochKeeps ==
    ASSUME NEW f, Sound(f), NEW b \in BlockType, NEW r \in Rates, validate(r),
           get_total_rewards(f) <= f.funded
    PROVE  Continues(f, NewEpoch(f, r, b)) /\ Updatable(NewEpoch(f, r, b)) /\ NewEpoch(f, r, b).rate = r
           /\ NewEpoch(f, r, b).funded \in Nat
  <1> DEFINE started == StartFor(r, b)
             left == f.funded - get_total_rewards(f)
             ends == EndFor(r, started, left)
             past == f.historical + f.total_earned
             e == [f EXCEPT !.rate = r, !.started_at = started, !.ends_at = ends,
                            !.last_updated = started, !.total_earned = 0, !.funded = left,
                            !.historical = past]
  <1>1. f \in Dist /\ f.historical \in Nat /\ f.total_earned \in Nat /\ f.funded \in Nat /\ f.started_at \in Exp
    BY DEF Sound, Dist
  <1>2. left \in Nat
    BY <1>1, RewardsNat
  <1>3. started \in Exp /\ (IsLinear(r) => started.unit = r.unit)
    <2>1. 0 \in Nat
      OBVIOUS
    <2> QED BY <1>1, EpochTimes
  <1> HIDE DEF started, left
  <1>4. IsLinear(r) => r.unit # "never" /\ r.amount # 0 /\ r.duration # 0
    BY RateForms DEF validate
  <1>5. ends \in Exp /\ (IsLinear(r) => ends.unit = r.unit)
    BY <1>2, <1>3, <1>4, EpochTimes, NeverType
  <1>6. past \in Nat
    BY <1>1
  <1>7. NewEpoch(f, r, b) = e
    BY DEF NewEpoch, e, started, left
  <1> HIDE DEF ends, past
  <1>8. /\ e \in Dist /\ e.rate = r /\ e.started_at = started /\ e.ends_at = ends
        /\ e.last_updated = started /\ e.total_earned = 0 /\ e.funded = left /\ e.historical = past
    BY <1>1, <1>2, <1>3, <1>5, <1>6 DEF Dist
  <1> HIDE DEF e
  <1>9. Sound(e) /\ Updatable(e)
    BY <1>3, <1>4, <1>5, <1>8 DEF Sound, Updatable
  <1>10. Continues(f, e)
    BY <1>1, <1>8, <1>9 DEF Continues, Earned, past
  <1> QED BY <1>2, <1>7, <1>8, <1>9, <1>10

\* A new rate.
LEMMA TransitionKeeps ==
    ASSUME NEW d, Updatable(d), NEW b \in BlockType, NEW r \in Rates, validate(r),
           NEW e, e \in transition_epoch(d, r, b)
    PROVE  Succeeds(d, e)
  <1> DEFINE f == Finished(d, b)
             g == NewEpoch(f, r, b)
             once == update_immediate_emission_total_earned_puvp(g, b, g.funded)
  <1>1. Sound(d)
    BY DEF Updatable
  <1>2. CASE d.rate = r
    <2>1. e = d
      BY <1>2 DEF transition_epoch
    <2>2. Earned(d) \in Nat
      BY <1>1, EarnedNat
    <2> QED BY <2>1, <2>2 DEF Succeeds
  <1>3. CASE d.rate # r
    <2>1. ~(~CanUpdate(d, b) \/ get_total_rewards(f) > d.funded)
      BY <1>3 DEF transition_epoch
    <2>2. e \in IF r = Immediate THEN once ELSE {g}
      BY <1>3, <2>1 DEF transition_epoch
    <2>3. Continues(d, f) /\ Sound(f) /\ f.funded = d.funded
      <3>1. Continues(d, f)
        BY <1>1, FinishedKeeps
      <3>2. d \in Dist
        BY <1>1 DEF Sound
      <3>3. f.funded = d.funded
        BY <3>2 DEF Finished, Dist
      <3> QED BY <3>1, <3>3 DEF Continues
    <2> HIDE DEF f
    <2>4. get_total_rewards(f) <= f.funded
      <3>1. get_total_rewards(f) \in Nat /\ f.funded \in Nat
        BY <2>3, RewardsNat DEF Sound, Dist
      <3> QED BY <2>1, <2>3, <3>1
    <2>5. Continues(f, g) /\ Updatable(g) /\ g.rate = r /\ g.funded \in Nat
      BY <2>3, <2>4, NewEpochKeeps
    <2> HIDE DEF g
    <2>6. Continues(d, g)
      BY <2>3, <2>5 DEF Continues
    <2>7. CASE r = Immediate
      <3>1. e \in once
        BY <2>2, <2>7
      <3>2. Sound(g) /\ g.rate = Immediate
        BY <2>5, <2>7 DEF Updatable
      <3>3. Continues(g, e) /\ ~IsLinear(e.rate)
        BY <2>5, <3>1, <3>2, AtOnceKeeps
      <3>4. Continues(d, e)
        BY <2>6, <3>3 DEF Continues
      <3> QED BY <3>3, <3>4 DEF Continues, Succeeds, Updatable
    <2>8. CASE r # Immediate
      BY <2>2, <2>5, <2>6, <2>8 DEF Continues, Succeeds
    <2> QED BY <2>7, <2>8
  <1> QED BY <1>2, <1>3

\* A withdrawal stops the epoch and leaves what it distributed.
LEMMA WithdrawnKeeps ==
    ASSUME NEW d, Updatable(d), NEW b \in BlockType, NEW left \in Nat
    PROVE  /\ Succeeds(d, [[d EXCEPT !.ends_at = StoppedAt(d, b)] EXCEPT !.funded = left])
           /\ Sound([d EXCEPT !.ends_at = StoppedAt(d, b)])
  <1> DEFINE stop == StoppedAt(d, b)
             f == [d EXCEPT !.ends_at = stop]
             e == [f EXCEPT !.funded = left]
  <1>1. Sound(d) /\ d \in Dist /\ d.rate \in Rates /\ d.ends_at \in Exp
    BY DEF Updatable, Sound, Dist
  <1>2. /\ stop \in Exp
        /\ IsLinear(d.rate) => \/ d.started_at = Never /\ stop = Never
                               \/ d.started_at.unit = d.rate.unit /\ stop.unit = d.rate.unit
    BY <1>1, Stops
  <1> HIDE DEF stop
  <1>3. /\ f \in Dist /\ f.rate = d.rate /\ f.started_at = d.started_at /\ f.ends_at = stop
        /\ f.total_earned = d.total_earned /\ f.historical = d.historical
        /\ f.last_updated = d.last_updated
    BY <1>1, <1>2 DEF Dist
  <1> HIDE DEF f
  <1>4. /\ e \in Dist /\ e.rate = d.rate /\ e.started_at = d.started_at /\ e.ends_at = stop
        /\ e.total_earned = d.total_earned /\ e.historical = d.historical
        /\ e.last_updated = d.last_updated
    BY <1>3 DEF Dist
  <1> HIDE DEF e
  <1>5. Sound(f) /\ Sound(e)
    BY <1>1, <1>2, <1>3, <1>4 DEF Sound
  <1>6. IsLinear(d.rate) /\ stop # Never => d.last_updated.unit = stop.unit
    <2>1. SUFFICES ASSUME IsLinear(d.rate), stop # Never PROVE d.last_updated.unit = stop.unit
      OBVIOUS
    <2>2. d.started_at.unit = d.rate.unit /\ stop.unit = d.rate.unit /\ d.rate.unit # "never"
      BY <1>1, <1>2, <2>1, RateForms
    <2>3. d.ends_at.unit = d.rate.unit
      BY <1>1, <2>1, <2>2, NeverType DEF Sound
    <2>4. d.ends_at # Never
      BY <2>2, <2>3, NeverType
    <2> QED BY <2>1, <2>2, <2>3, <2>4 DEF Updatable
  <1>7. Updatable(e) /\ Earned(e) = Earned(d)
    BY <1>4, <1>5, <1>6 DEF Updatable, Earned
  <1>8. Earned(d) \in Nat
    BY <1>1, EarnedNat
  <1>9. Succeeds(d, e)
    BY <1>7, <1>8 DEF Succeeds
  <1> QED BY <1>5, <1>9 DEF e, f, stop

\* The contracts that a distribution names do not matter to what it earned.
LEMMA RenamedKeeps ==
    ASSUME NEW d, NEW e, Succeeds(d, e), NEW c \in VpContracts, NEW k \in HookCallers,
           NEW w \in Destinations
    PROVE  Succeeds(d, [e EXCEPT !.vp_contract = c, !.hook_caller = k, !.withdraw_destination = w])
  <1> DEFINE f == [e EXCEPT !.vp_contract = c, !.hook_caller = k, !.withdraw_destination = w]
  <1>1. e \in Dist
    BY DEF Succeeds, Updatable, Sound
  <1>2. /\ f \in Dist /\ f.rate = e.rate /\ f.started_at = e.started_at /\ f.ends_at = e.ends_at
        /\ f.total_earned = e.total_earned /\ f.historical = e.historical
        /\ f.last_updated = e.last_updated
    BY <1>1 DEF Dist
  <1> HIDE DEF f
  <1>3. Updatable(f) /\ Earned(f) = Earned(e)
    BY <1>2 DEF Succeeds, Updatable, Sound, Earned
  <1>4. Succeeds(d, f)
    BY <1>3 DEF Succeeds
  <1> QED BY <1>4 DEF f

----------------------------------------------------------------------------
(* dao-rewards-distributor: the storage *)

DistStores ==
    [kind : {"distributor"}, owner : {Owner}, count : Nat, dist : Seq(Dist),
     hooks : [VpContracts -> Seq(Ids)], balance : [Denoms -> Int], pending : [Users -> [Ids -> Int]],
     accounted : [Users -> [Ids -> Nat]], paid : [Users -> [Ids -> Int]]]

\* What is accounted for was earned, and nothing is accounted for before there is a distribution.
AccountedFor(s) ==
    \A u \in Users, id \in Ids :
        s.accounted[u][id] <= IF id <= s.count THEN Earned(s.dist[id]) ELSE 0

\* Every distribution can be brought up to date, for every member.
DistInv(s) ==
    /\ s \in DistStores
    /\ Len(s.dist) = s.count /\ s.count <= MaxDistributions
    /\ \A id \in 1 .. s.count : Updatable(s.dist[id])
    /\ AccountedFor(s)

\* Only what a member has accounted for of distribution id may change, to no more than e earned.
OnlyAccounts(s, t, id, e) ==
    \A u \in Users : \A i \in Ids :
        t.accounted[u][i] = s.accounted[u][i] \/ (i = id /\ t.accounted[u][i] <= Earned(e))

\* Another distribution takes the place of one, and has earned as much or more.
LEMMA Replaced ==
    ASSUME NEW s, DistInv(s), NEW t \in DistStores, NEW id \in 1 .. s.count,
           NEW e, Succeeds(s.dist[id], e), t.count = s.count, t.dist = [s.dist EXCEPT ![id] = e],
           OnlyAccounts(s, t, id, e)
    PROVE  DistInv(t)
  <1>1. /\ s \in DistStores /\ s.dist \in Seq(Dist) /\ Len(s.dist) = s.count /\ s.count \in Nat
        /\ s.count <= MaxDistributions /\ MaxDistributions \in Nat
    BY RewardsAssumption DEF DistInv, DistStores
  <1>2. e \in Dist /\ Updatable(e)
    BY DEF Succeeds, Updatable, Sound
  <1>3. /\ Len(t.dist) = t.count
        /\ \A i \in 1 .. s.count : t.dist[i] = IF i = id THEN e ELSE s.dist[i]
    <2> HIDE DEF Dist
    <2> QED BY <1>1, <1>2, ExceptSeq
  <1>4. \A i \in 1 .. t.count : Updatable(t.dist[i])
    BY <1>2, <1>3 DEF DistInv
  <1>5. \A i \in 1 .. s.count : Earned(s.dist[i]) \in Nat /\ Earned(t.dist[i]) \in Nat
                                /\ Earned(s.dist[i]) <= Earned(t.dist[i])
    <2>1. SUFFICES ASSUME NEW i \in 1 .. s.count
                   PROVE  /\ Earned(s.dist[i]) \in Nat /\ Earned(t.dist[i]) \in Nat
                          /\ Earned(s.dist[i]) <= Earned(t.dist[i])
      OBVIOUS
    <2>2. CASE i = id
      BY <1>3, <2>2 DEF Succeeds
    <2>3. CASE i # id
      <3>1. Earned(s.dist[i]) \in Nat
        BY EarnedNat DEF DistInv, Updatable
      <3> QED BY <1>3, <2>3, <3>1
    <2> QED BY <2>2, <2>3
  <1>6. AccountedFor(t)
    <2>1. SUFFICES ASSUME NEW u \in Users, NEW i \in Ids
                   PROVE  t.accounted[u][i] <= IF i <= t.count THEN Earned(t.dist[i]) ELSE 0
      BY DEF AccountedFor
    <2>2. s.accounted[u][i] \in Nat /\ t.accounted[u][i] \in Nat
      BY <1>1 DEF DistStores
    <2>3. s.accounted[u][i] <= IF i <= s.count THEN Earned(s.dist[i]) ELSE 0
      BY DEF DistInv, AccountedFor
    <2>4. t.accounted[u][i] = s.accounted[u][i] \/ (i = id /\ t.accounted[u][i] <= Earned(e))
      BY DEF OnlyAccounts
    <2>5. i \in Nat \ {0}
      BY DEF Ids
    <2>6. CASE i <= s.count
      <3>1. i \in 1 .. s.count
        BY <1>1, <2>5, <2>6
      <3> QED BY <1>3, <1>5, <2>2, <2>3, <2>4, <2>6, <3>1
    <2>7. CASE ~(i <= s.count)
      BY <1>1, <2>3, <2>4, <2>7
    <2> QED BY <2>6, <2>7
  <1> QED BY <1>1, <1>3, <1>4, <1>6 DEF DistInv

\* Changes to balances, hooks or what is pending do not matter.
LEMMA SameDistributions ==
    ASSUME NEW s, DistInv(s), NEW t \in DistStores, t.count = s.count, t.dist = s.dist,
           t.accounted = s.accounted
    PROVE  DistInv(t)
  BY DEF DistInv, AccountedFor

LEMMA Changed ==
    ASSUME NEW A, NEW B, NEW f \in [A -> B], NEW x \in A, NEW y \in B
    PROVE  /\ [f EXCEPT ![x] = y] \in [A -> B] /\ [f EXCEPT ![x] = y][x] = y
           /\ \A z \in A : z # x => [f EXCEPT ![x] = y][z] = f[z]
  OBVIOUS

LEMMA ChangedIn ==
    ASSUME NEW A, NEW C, NEW B, NEW f \in [A -> [C -> B]], NEW x \in A, NEW z \in C, NEW y \in B
    PROVE  [f EXCEPT ![x][z] = y] \in [A -> [C -> B]]
  OBVIOUS

LEMMA AccruedInt ==
    ASSUME NEW d, Sound(d), NEW b \in BlockType, NEW u \in Users, NEW total \in Int, NEW accounted \in Int
    PROVE  get_accrued_rewards_not_yet_accounted_for(d, b, u, total, accounted) \in Int
  <1>1. d.vp_contract \in VpContracts /\ ScaleFactor \in Nat \ {0}
    BY RewardsAssumption DEF Sound, Dist
  <1>2. get_voting_power_at_block(b, d.vp_contract, u) \in Nat
    BY <1>1 DEF get_voting_power_at_block, BlockType, VotingType, Power
  <1>3. get_voting_power_at_block(b, d.vp_contract, u) * (total - accounted) \in Int
    BY <1>2
  <1> QED BY <1>1, <1>3, RatioInt DEF get_accrued_rewards_not_yet_accounted_for

\* Rewards that are brought up to date.
LEMMA UpdateRewardsKeeps ==
    ASSUME NEW s, DistInv(s), NEW b \in BlockType, NEW u \in Users, NEW id \in Ids,
           NEW t, t \in update_rewards(s, b, u, id)
    PROVE  DistInv(t)
  <1> DEFINE d == UpToDate(s.dist[id], b)
             accrued == get_accrued_rewards_not_yet_accounted_for(d, b, u, Earned(d), s.accounted[u][id])
             earned == Earned(d)
  <1>1. id \in 1 .. s.count /\ s \in DistStores /\ s.dist \in Seq(Dist) /\ Len(s.dist) = s.count
    BY DEF update_rewards, Ok, Ids, DistInv, DistStores
  <1>2. t = [s EXCEPT !.dist[id] = d, !.pending[u][id] = @ + accrued, !.accounted[u][id] = earned]
    BY DEF update_rewards, Ok
  <1>3. Updatable(s.dist[id])
    BY <1>1 DEF DistInv
  <1>4. Succeeds(s.dist[id], d)
    BY <1>3, BroughtUpToDate DEF Succeeds
  <1> HIDE DEF d
  <1>5. d \in Dist /\ Sound(d) /\ earned \in Nat
    BY <1>4 DEF Succeeds, Updatable, Sound
  <1>6. s.accounted[u][id] \in Int /\ s.pending[u][id] \in Int
    BY <1>1 DEF DistStores
  <1>7. accrued \in Int
    BY <1>5, <1>6, AccruedInt
  <1> HIDE DEF accrued, earned
  <1> DEFINE dist == [s.dist EXCEPT ![id] = d]
             pending == [s.pending EXCEPT ![u][id] = @ + accrued]
             accounted == [s.accounted EXCEPT ![u][id] = earned]
  <1>8. dist \in Seq(Dist)
    BY <1>1, <1>5, ExceptSeq
  <1>9. pending \in [Users -> [Ids -> Int]] /\ accounted \in [Users -> [Ids -> Nat]]
    <2>1. s.pending \in [Users -> [Ids -> Int]] /\ s.accounted \in [Users -> [Ids -> Nat]]
      BY <1>1 DEF DistStores
    <2>2. s.pending[u][id] + accrued \in Int
      BY <1>6, <1>7
    <2> QED BY <1>5, <2>1, <2>2, ChangedIn
  <1>10. t = [s EXCEPT !.dist = dist, !.pending = pending, !.accounted = accounted]
    BY <1>2
  <1>11. OnlyAccounts(s, [accounted |-> accounted], id, d)
    BY <1>1, <1>5 DEF OnlyAccounts, DistStores, earned
  <1>12. dist = [s.dist EXCEPT ![id] = d]
    OBVIOUS
  <1> HIDE DEF dist, pending, accounted
  <1>13. t \in DistStores /\ t.count = s.count /\ t.dist = dist /\ t.accounted = accounted
    BY <1>1, <1>8, <1>9, <1>10 DEF DistStores
  <1>14. OnlyAccounts(s, t, id, d)
    BY <1>11, <1>13 DEF OnlyAccounts
  <1> QED BY <1>1, <1>4, <1>12, <1>13, <1>14, Replaced

\* Bringing rewards up to date does not fail.
LEMMA UpdateRewardsSucceeds ==
    ASSUME NEW s, DistInv(s), NEW b \in BlockType, NEW u \in Users, NEW id \in 1 .. s.count
    PROVE  update_rewards(s, b, u, id) # {}
  <1> DEFINE d == UpToDate(s.dist[id], b)
  <1>1. Updatable(s.dist[id]) /\ s.count \in Nat /\ id \in Ids /\ id <= s.count
    BY RewardsAssumption DEF DistInv, DistStores, Ids
  <1>2. CanUpdate(s.dist[id], b)
    BY <1>1, CanBeUpdated
  <1>3. Earned(d) \in Nat /\ Earned(s.dist[id]) \in Nat /\ Earned(s.dist[id]) <= Earned(d)
    BY <1>1, BroughtUpToDate
  <1>4. s.accounted[u][id] \in Nat
    BY <1>1 DEF DistInv, DistStores
  <1>5. s.accounted[u][id] <= Earned(s.dist[id])
    BY <1>1 DEF DistInv, AccountedFor
  <1> HIDE DEF d
  <1>6. s.accounted[u][id] <= Earned(d)
    BY <1>3, <1>4, <1>5
  <1> QED BY <1>1, <1>2, <1>6 DEF update_rewards, Ok, d

\* A transfer out of the contract.
LEMMA TransferKeeps ==
    ASSUME NEW s, DistInv(s), NEW denom \in Denoms, NEW amount \in Int,
           NEW t, t \in get_transfer_msg(s, denom, amount)
    PROVE  DistInv(t)
  <1>1. s \in DistStores /\ s.balance[denom] \in Int
    BY DEF DistInv, DistStores
  <1>2. t = [s EXCEPT !.balance[denom] = @ - amount]
    BY DEF get_transfer_msg, Ok
  <1> DEFINE balance == [s.balance EXCEPT ![denom] = @ - amount]
  <1>3. balance \in [Denoms -> Int]
    BY <1>1, Changed DEF DistStores
  <1>4. t = [s EXCEPT !.balance = balance]
    BY <1>2
  <1> HIDE DEF balance
  <1>5. t \in DistStores /\ t.count = s.count /\ t.dist = s.dist /\ t.accounted = s.accounted
    BY <1>1, <1>3, <1>4 DEF DistStores
  <1> QED BY <1>5, SameDistributions

LEMMA ClaimKeeps ==
    ASSUME NEW s, DistInv(s), NEW b \in BlockType, NEW u \in Users, NEW id \in Ids,
           NEW t, t \in execute_claim(s, b, u, id)
    PROVE  DistInv(t)
  <1>1. PICK r \in update_rewards(s, b, u, id) :
            t \in IF r.pending[u][id] = 0 THEN {}
                  ELSE get_transfer_msg([r EXCEPT !.pending[u][id] = 0,
                                                  !.paid[u][id] = @ + r.pending[u][id]],
                                        r.dist[id].denom, r.pending[u][id])
    BY DEF execute_claim
  <1> DEFINE q == [r EXCEPT !.pending[u][id] = 0, !.paid[u][id] = @ + r.pending[u][id]]
  <1>2. DistInv(r)
    BY UpdateRewardsKeeps
  <1>3. r \in DistStores /\ r.pending[u][id] \in Int /\ r.paid[u][id] \in Int
    BY <1>2 DEF DistInv, DistStores
  <1>4. q \in DistStores /\ q.count = r.count /\ q.dist = r.dist /\ q.accounted = r.accounted
    <2> DEFINE pending == [r.pending EXCEPT ![u][id] = 0]
               paid == [r.paid EXCEPT ![u][id] = @ + r.pending[u][id]]
    <2>1. pending \in [Users -> [Ids -> Int]] /\ paid \in [Users -> [Ids -> Int]]
      <3>1. r.pending \in [Users -> [Ids -> Int]] /\ r.paid \in [Users -> [Ids -> Int]]
        BY <1>3 DEF DistStores
      <3>2. r.paid[u][id] + r.pending[u][id] \in Int /\ 0 \in Int
        BY <1>3
      <3> QED BY <3>1, <3>2, ChangedIn
    <2>2. q = [r EXCEPT !.pending = pending, !.paid = paid]
      OBVIOUS
    <2> HIDE DEF pending, paid, q
    <2> QED BY <1>3, <2>1, <2>2 DEF DistStores
  <1>5. DistInv(q)
    <2> HIDE DEF q
    <2> QED BY <1>2, <1>4, SameDistributions
  <1>6. r.dist[id].denom \in Denoms
    <2>1. id \in 1 .. r.count
      <3>1. id <= s.count /\ r.count = s.count
        BY DEF update_rewards, Ok, DistInv, DistStores
      <3> QED BY <1>3, <3>1 DEF Ids, DistStores
    <2>2. Updatable(r.dist[id])
      BY <1>2, <2>1 DEF DistInv
    <2> QED BY <2>2 DEF Updatable, Sound, Dist
  <1>7. t \in get_transfer_msg(q, r.dist[id].denom, r.pending[u][id])
    BY <1>1
  <1> HIDE DEF q
  <1> QED BY <1>3, <1>5, <1>6, <1>7, TransferKeeps

----------------------------------------------------------------------------
(* dao-rewards-distributor: hooks, which go through lists *)

\* Storages in which every distribution can be brought up to date.
SafeStores == {s \in DistStores : DistInv(s)}

LEMMA SafeStore ==
    ASSUME NEW s
    PROVE  DistInv(s) <=> s \in SafeStores
  BY DEF SafeStores, DistInv

\* g gives the storages after a member's rewards are brought up to date for some of ids.
StakeUpdates(g, s, b, user, ids) ==
    g = [U \in SUBSET DOMAIN ids |->
            IF U = {} THEN {s}
            ELSE UNION {update_rewards(t, b, user, ids[Latest(U)]) : t \in g[U \ {Latest(U)}]}]

LEMMA StakeUpdatesUnfold ==
    ASSUME NEW s, NEW b, NEW user, NEW ids
    PROVE  update_for_stake(s, b, user, ids) = (CHOOSE g : StakeUpdates(g, s, b, user, ids))[DOMAIN ids]
  BY Zenon DEF update_for_stake, FoldLeft, MapThenFoldSet, Max, StakeUpdates, Latest

LEMMA UpdateRewardsSafe ==
    ASSUME NEW b \in BlockType, NEW user \in Users, NEW t \in SafeStores, NEW i \in Ids
    PROVE  update_rewards(t, b, user, i) \in SUBSET SafeStores
  <1>1. \A q \in update_rewards(t, b, user, i) : q \in SafeStores
    BY SafeStore, UpdateRewardsKeeps
  <1> QED BY <1>1

\* There are such storages.
LEMMA StakeUpdatesExist ==
    ASSUME NEW s, DistInv(s), NEW b \in BlockType, NEW user \in Users, NEW ids \in Seq(Ids)
    PROVE  StakeUpdates(CHOOSE g : StakeUpdates(g, s, b, user, ids), s, b, user, ids)
  <1> DEFINE T == SafeStores
             f == [p \in T \X Ids |-> update_rewards(p[1], b, user, p[2])]
  <1>1. \A t \in T : \A i \in Ids :
            f[<<t, i>>] = update_rewards(t, b, user, i) /\ update_rewards(t, b, user, i) \in SUBSET T
    <2>1. SUFFICES ASSUME NEW t \in T, NEW i \in Ids
                   PROVE  /\ f[<<t, i>>] = update_rewards(t, b, user, i)
                          /\ update_rewards(t, b, user, i) \in SUBSET T
      BY Zenon
    <2>2. update_rewards(t, b, user, i) \in SUBSET T
      BY UpdateRewardsSafe
    <2> QED BY <2>2
  <1> HIDE DEF f
  <1>2. {s} \in SUBSET T
    BY SafeStore
  <1> HIDE DEF T
  <1>3. PICK g : UnionFolds(g, {s}, f, ids) /\ \A U \in SUBSET DOMAIN ids : g[U] \in SUBSET T
    <2>1. \A t \in T : \A i \in Ids : f[<<t, i>>] \in SUBSET T
      BY <1>1
    <2> QED BY <1>2, <2>1, UnionFoldExists
  <1>4. StakeUpdates(g, s, b, user, ids)
    <2>1. ASSUME NEW U \in SUBSET DOMAIN ids, U # {}
          PROVE  UNION {f[<<t, ids[Latest(U)]>>] : t \in g[U \ {Latest(U)}]}
                     = UNION {update_rewards(t, b, user, ids[Latest(U)]) : t \in g[U \ {Latest(U)}]}
      <3> DEFINE i == ids[Latest(U)]
                 R == g[U \ {Latest(U)}]
      <3>1. i \in Ids /\ R \in SUBSET T
        BY <1>3, <2>1, LatestOf
      <3> HIDE DEF i, R
      <3>2. \A t \in R : f[<<t, i>>] = update_rewards(t, b, user, i)
        BY <1>1, <3>1
      <3>3. UNION {f[<<t, i>>] : t \in R} = UNION {update_rewards(t, b, user, i) : t \in R}
        BY <3>2
      <3> QED BY <3>3 DEF i, R
    <2> QED BY <1>3, <2>1 DEF UnionFolds, StakeUpdates
  <1> QED BY <1>4

\* A member's rewards are brought up to date for several distributions.
LEMMA StakeUpdatesKeep ==
    ASSUME NEW s, DistInv(s), NEW b \in BlockType, NEW user \in Users, NEW ids \in Seq(Ids)
    PROVE  update_for_stake(s, b, user, ids) \in SUBSET SafeStores
  <1> DEFINE T == SafeStores
             S == 1 .. Len(ids)
             h == CHOOSE k : StakeUpdates(k, s, b, user, ids)
  <1>1. S = DOMAIN ids /\ Len(ids) \in Nat
    OBVIOUS
  <1>2. StakeUpdates(h, s, b, user, ids)
    BY StakeUpdatesExist
  <1> HIDE DEF h
  <1>3. {s} \in SUBSET T
    BY SafeStore
  <1>4. \A t \in T : \A i \in Ids : update_rewards(t, b, user, i) \in SUBSET T
    BY UpdateRewardsSafe
  <1> HIDE DEF T
  <1>5. h[{}] \in SUBSET T
    BY <1>2, <1>3 DEF StakeUpdates
  <1>6. \A U \in SUBSET S : U # {} /\ h[U \ {Latest(U)}] \in SUBSET T => h[U] \in SUBSET T
    <2>1. SUFFICES ASSUME NEW U \in SUBSET S, U # {}, h[U \ {Latest(U)}] \in SUBSET T
                   PROVE  h[U] \in SUBSET T
      BY Zenon
    <2> DEFINE i == ids[Latest(U)]
               R == h[U \ {Latest(U)}]
    <2>2. i \in Ids
      BY <1>1, <2>1, LatestOf
    <2>3. h[U] = UNION {update_rewards(t, b, user, i) : t \in R}
      BY <1>1, <1>2, <2>1 DEF StakeUpdates
    <2> HIDE DEF i
    <2>4. \A t \in R : update_rewards(t, b, user, i) \in SUBSET T
      BY <1>4, <2>1, <2>2
    <2> QED BY <2>3, <2>4
  <1>7. h[S] \in SUBSET T
    BY <1>1, <1>5, <1>6, FoldStays
  <1> QED BY <1>1, <1>7, StakeUpdatesUnfold DEF h, T

\* g gives the storages after some of the members had their rewards brought up to date.
MemberUpdates(g, s, b, ids, members) ==
    g = [U \in SUBSET DOMAIN members |->
            IF U = {} THEN {s}
            ELSE UNION {update_for_stake(t, b, members[Latest(U)], ids) : t \in g[U \ {Latest(U)}]}]

LEMMA MemberUpdatesUnfold ==
    ASSUME NEW s, NEW b, NEW c, NEW members, s.hooks[c] # <<>>
    PROVE  execute_membership_changed(s, b, c, members) =
               (CHOOSE g : MemberUpdates(g, s, b, s.hooks[c], members))[DOMAIN members]
  <1> DEFINE ids == s.hooks[c]
  <1>1. execute_membership_changed(s, b, c, members) =
            FoldLeft(LAMBDA results, user : UNION {update_for_stake(t, b, user, ids) : t \in results},
                     {s}, members)
    BY Zenon DEF execute_membership_changed, get_hook_caller_registered_distribution_ids
  <1> QED BY Zenon, <1>1 DEF FoldLeft, MapThenFoldSet, Max, MemberUpdates, Latest

\* There are such storages.
LEMMA MemberUpdatesExist ==
    ASSUME NEW s, DistInv(s), NEW b \in BlockType, NEW ids \in Seq(Ids), NEW members \in Seq(Users)
    PROVE  MemberUpdates(CHOOSE g : MemberUpdates(g, s, b, ids, members), s, b, ids, members)
  <1> DEFINE T == SafeStores
             f == [p \in T \X Users |-> update_for_stake(p[1], b, p[2], ids)]
  <1>1. \A t \in T : \A u \in Users :
            f[<<t, u>>] = update_for_stake(t, b, u, ids) /\ update_for_stake(t, b, u, ids) \in SUBSET T
    <2>1. SUFFICES ASSUME NEW t \in T, NEW u \in Users
                   PROVE  /\ f[<<t, u>>] = update_for_stake(t, b, u, ids)
                          /\ update_for_stake(t, b, u, ids) \in SUBSET T
      BY Zenon
    <2>2. update_for_stake(t, b, u, ids) \in SUBSET T
      BY SafeStore, StakeUpdatesKeep
    <2> QED BY <2>2
  <1> HIDE DEF f
  <1>2. {s} \in SUBSET T
    BY SafeStore
  <1> HIDE DEF T
  <1>3. PICK g : UnionFolds(g, {s}, f, members) /\ \A U \in SUBSET DOMAIN members : g[U] \in SUBSET T
    <2>1. \A t \in T : \A u \in Users : f[<<t, u>>] \in SUBSET T
      BY <1>1
    <2> QED BY <1>2, <2>1, UnionFoldExists
  <1>4. MemberUpdates(g, s, b, ids, members)
    <2>1. ASSUME NEW U \in SUBSET DOMAIN members, U # {}
          PROVE  UNION {f[<<t, members[Latest(U)]>>] : t \in g[U \ {Latest(U)}]}
                     = UNION {update_for_stake(t, b, members[Latest(U)], ids) : t \in g[U \ {Latest(U)}]}
      <3> DEFINE u == members[Latest(U)]
                 R == g[U \ {Latest(U)}]
      <3>1. u \in Users /\ R \in SUBSET T
        BY <1>3, <2>1, LatestOf
      <3> HIDE DEF u, R
      <3>2. \A t \in R : f[<<t, u>>] = update_for_stake(t, b, u, ids)
        BY <1>1, <3>1
      <3>3. UNION {f[<<t, u>>] : t \in R} = UNION {update_for_stake(t, b, u, ids) : t \in R}
        BY <3>2
      <3> QED BY <3>3 DEF u, R
    <2> QED BY <1>3, <2>1 DEF UnionFolds, MemberUpdates
  <1> QED BY <1>4

\* The weights of several members change.
LEMMA MembershipKeeps ==
    ASSUME NEW s, DistInv(s), NEW b \in BlockType, NEW c \in VpContracts, NEW members \in Seq(Users)
    PROVE  execute_membership_changed(s, b, c, members) \in SUBSET SafeStores
  <1> DEFINE T == SafeStores
             ids == s.hooks[c]
             S == 1 .. Len(members)
             h == CHOOSE k : MemberUpdates(k, s, b, ids, members)
  <1>1. S = DOMAIN members /\ Len(members) \in Nat /\ ids \in Seq(Ids)
    BY DEF DistInv, DistStores
  <1>2. SUFFICES ASSUME ids # <<>> PROVE execute_membership_changed(s, b, c, members) \in SUBSET T
    BY DEF execute_membership_changed, get_hook_caller_registered_distribution_ids
  <1>3. execute_membership_changed(s, b, c, members) = h[DOMAIN members]
    BY <1>2, MemberUpdatesUnfold
  <1> HIDE DEF ids
  <1>4. MemberUpdates(h, s, b, ids, members)
    BY <1>1, MemberUpdatesExist
  <1> HIDE DEF h
  <1>5. {s} \in SUBSET T
    BY SafeStore
  <1>6. \A t \in T : \A u \in Users : update_for_stake(t, b, u, ids) \in SUBSET T
    BY <1>1, SafeStore, StakeUpdatesKeep
  <1> HIDE DEF T
  <1>7. h[{}] \in SUBSET T
    BY <1>4, <1>5 DEF MemberUpdates
  <1>8. \A U \in SUBSET S : U # {} /\ h[U \ {Latest(U)}] \in SUBSET T => h[U] \in SUBSET T
    <2>1. SUFFICES ASSUME NEW U \in SUBSET S, U # {}, h[U \ {Latest(U)}] \in SUBSET T
                   PROVE  h[U] \in SUBSET T
      BY Zenon
    <2> DEFINE u == members[Latest(U)]
               R == h[U \ {Latest(U)}]
    <2>2. u \in Users
      BY <1>1, <2>1, LatestOf
    <2>3. h[U] = UNION {update_for_stake(t, b, u, ids) : t \in R}
      BY <1>1, <1>4, <2>1 DEF MemberUpdates
    <2> HIDE DEF u
    <2>4. \A t \in R : update_for_stake(t, b, u, ids) \in SUBSET T
      BY <1>6, <2>1, <2>2
    <2> QED BY <2>3, <2>4
  <1>9. h[S] \in SUBSET T
    BY <1>1, <1>7, <1>8, FoldStays
  <1> QED BY <1>1, <1>3, <1>9 DEF T

\* g gives, for some of ids, those that are kept.
Keeping(g, id, ids) ==
    g = [U \in SUBSET DOMAIN ids |->
            IF U = {} THEN <<>>
            ELSE IF ids[Latest(U)] = id THEN g[U \ {Latest(U)}]
                 ELSE Append(g[U \ {Latest(U)}], ids[Latest(U)])]

Kept(id, ids) == FoldLeft(LAMBDA kept, i : IF i = id THEN kept ELSE Append(kept, i), <<>>, ids)

LEMMA KeptUnfold ==
    ASSUME NEW id, NEW ids
    PROVE  Kept(id, ids) = (CHOOSE g : Keeping(g, id, ids))[DOMAIN ids]
  BY Zenon DEF Kept, FoldLeft, MapThenFoldSet, Max, Keeping, Latest

\* There are such lists.
LEMMA KeepingExists ==
    ASSUME NEW id, NEW ids \in Seq(Ids)
    PROVE  Keeping(CHOOSE g : Keeping(g, id, ids), id, ids)
  <1> DEFINE T == Seq(Ids)
             S == 1 .. Len(ids)
             pick == PickLatest(S)
             after(p) == IF ids[p[1]] = id THEN p[2] ELSE Append(p[2], ids[p[1]])
             step == [p \in S \X T |-> after(p)]
             g == Folding(<<>>, step, pick, S)
  <1>1. S = DOMAIN ids /\ Len(ids) \in Nat /\ IsFiniteSet(S) /\ <<>> \in T
    BY FS_Interval
  <1>2. \A U \in SUBSET S : U # {} => pick[U] \in U /\ pick[U] = Latest(U)
    BY PicksLatest
  <1>3. \A x \in S : \A t \in T : step[<<x, t>>] = after(<<x, t>>) /\ after(<<x, t>>) \in T
    <2>1. SUFFICES ASSUME NEW x \in S, NEW t \in T
                   PROVE  step[<<x, t>>] = after(<<x, t>>) /\ after(<<x, t>>) \in T
      BY Zenon
    <2>2. ids[x] \in Ids
      BY <1>1
    <2>3. Append(t, ids[x]) \in T
      BY <2>2, AppendProperties
    <2>4. after(<<x, t>>) \in T
      BY <2>3
    <2>5. step[<<x, t>>] = after(<<x, t>>)
      OBVIOUS
    <2> QED BY Zenon, <2>4, <2>5
  <1> HIDE DEF T, S, pick, step, g
  <1>4. FoldsTo(g, <<>>, step, pick, S)
    BY <1>1, <1>2, FoldExists DEF g
  <1>5. \A U \in SUBSET S : g[U] \in T
    <2> HIDE DEF after
    <2>1. \A x \in S : \A t \in T : step[<<x, t>>] \in T
      BY Zenon, <1>3
    <2> QED BY <1>1, <1>2, <1>4, <2>1, FoldType
  <1>6. Keeping(g, id, ids)
    <2>1. ASSUME NEW U \in SUBSET S, U # {}
          PROVE  step[<<pick[U], g[U \ {pick[U]}]>>]
                     = IF ids[Latest(U)] = id THEN g[U \ {Latest(U)}]
                       ELSE Append(g[U \ {Latest(U)}], ids[Latest(U)])
      <3>1. pick[U] \in S /\ pick[U] = Latest(U) /\ U \ {Latest(U)} \in SUBSET S
        BY <1>2, <2>1
      <3>2. step[<<pick[U], g[U \ {pick[U]}]>>] = after(<<pick[U], g[U \ {pick[U]}]>>)
        BY <1>3, <1>5, <3>1
      <3> QED BY <3>1, <3>2
    <2>2. g = [U \in SUBSET S |-> IF U = {} THEN <<>> ELSE step[<<pick[U], g[U \ {pick[U]}]>>]]
      BY <1>4 DEF FoldsTo
    <2>3. g = [U \in SUBSET S |-> IF U = {} THEN <<>>
                  ELSE IF ids[Latest(U)] = id THEN g[U \ {Latest(U)}]
                       ELSE Append(g[U \ {Latest(U)}], ids[Latest(U)])]
      BY <2>1, <2>2
    <2> QED BY <1>1, <2>3 DEF Keeping
  <1> QED BY <1>6

\* What is left of a list of distributions is a list of distributions.
LEMMA KeptType ==
    ASSUME NEW id, NEW ids \in Seq(Ids)
    PROVE  Kept(id, ids) \in Seq(Ids)
  <1> DEFINE T == Seq(Ids)
             S == 1 .. Len(ids)
             h == CHOOSE k : Keeping(k, id, ids)
  <1>1. S = DOMAIN ids /\ Len(ids) \in Nat /\ <<>> \in T
    OBVIOUS
  <1>2. Keeping(h, id, ids)
    BY KeepingExists
  <1> HIDE DEF h, T
  <1>3. h[{}] \in T
    BY <1>1, <1>2 DEF Keeping
  <1>4. \A U \in SUBSET S : U # {} /\ h[U \ {Latest(U)}] \in T => h[U] \in T
    <2>1. SUFFICES ASSUME NEW U \in SUBSET S, U # {}, h[U \ {Latest(U)}] \in T
                   PROVE  h[U] \in T
      BY Zenon
    <2> DEFINE i == ids[Latest(U)]
               R == h[U \ {Latest(U)}]
    <2>2. i \in Ids
      BY <1>1, <2>1, LatestOf
    <2>3. h[U] = IF i = id THEN R ELSE Append(R, i)
      BY <1>1, <1>2, <2>1 DEF Keeping
    <2> HIDE DEF i, R
    <2>4. Append(R, i) \in T
      BY <2>1, <2>2, AppendProperties DEF R, T
    <2> QED BY <2>1, <2>3, <2>4 DEF R
  <1>5. h[1 .. Len(ids)] \in T
    BY <1>1, <1>3, <1>4, FoldStays DEF S
  <1>6. (CHOOSE k : Keeping(k, id, ids))[DOMAIN ids] \in Seq(Ids)
    BY <1>1, <1>5 DEF h, T, S
  <1> QED BY Zenon, <1>6, KeptUnfold

Listed(ids, id) == \E n \in DOMAIN ids : ids[n] = id

LEMMA AppendLists ==
    ASSUME NEW ids \in Seq(Ids), NEW id \in Ids
    PROVE  /\ Append(ids, id) \in Seq(Ids) /\ Listed(Append(ids, id), id)
           /\ \A i : Listed(ids, i) => Listed(Append(ids, id), i)
  <1> DEFINE more == Append(ids, id)
             n == Len(ids)
  <1>1. /\ more \in Seq(Ids) /\ Len(more) = n + 1 /\ more[n + 1] = id /\ n \in Nat
        /\ \A i \in 1 .. n : more[i] = ids[i]
    BY AppendProperties
  <1>2. DOMAIN more = 1 .. n + 1 /\ DOMAIN ids = 1 .. n
    BY <1>1
  <1> HIDE DEF more, n
  <1>3. Listed(more, id)
    BY <1>1, <1>2 DEF Listed
  <1>4. ASSUME NEW i, Listed(ids, i) PROVE Listed(more, i)
    <2>1. PICK k \in 1 .. n : ids[k] = i
      BY <1>2, <1>4 DEF Listed
    <2>2. k \in 1 .. n + 1 /\ more[k] = i
      BY <1>1, <2>1
    <2> QED BY <1>2, <2>2 DEF Listed
  <1> QED BY <1>1, <1>3, <1>4 DEF more

\* The list keeps all others.
LEMMA KeptOthers ==
    ASSUME NEW id, NEW ids \in Seq(Ids), NEW i, i # id, Listed(ids, i)
    PROVE  Listed(Kept(id, ids), i)
  <1> DEFINE S == 1 .. Len(ids)
             D(U) == {q \in Seq(Ids) : \A n \in U : ids[n] = i => Listed(q, i)}
             R == [U \in SUBSET S |-> D(U)]
             h == CHOOSE k : Keeping(k, id, ids)
  <1>1. S = DOMAIN ids /\ Len(ids) \in Nat /\ {} \in SUBSET S /\ S \in SUBSET S
    OBVIOUS
  <1>2. Keeping(h, id, ids)
    BY KeepingExists
  <1> HIDE DEF h
  <1>3. h[{}] \in R[{}]
    <2>1. h[{}] = <<>> /\ <<>> \in D({})
      BY <1>1, <1>2 DEF Keeping
    <2> HIDE DEF D
    <2> QED BY <1>1, <2>1
  <1>4. ASSUME NEW U \in SUBSET S, U # {}, h[U \ {Latest(U)}] \in D(U \ {Latest(U)})
        PROVE  h[U] \in D(U)
    <2> DEFINE k == ids[Latest(U)]
               V == U \ {Latest(U)}
               Q == h[V]
    <2>1. k \in Ids /\ \A n \in U : n \in V \/ n = Latest(U)
      BY <1>1, <1>4, LatestOf
    <2>2. h[U] = IF k = id THEN Q ELSE Append(Q, k)
      BY <1>1, <1>2, <1>4 DEF Keeping
    <2>3. Q \in Seq(Ids) /\ \A n \in V : ids[n] = i => Listed(Q, i)
      BY <1>4
    <2>4. /\ Append(Q, k) \in Seq(Ids) /\ Listed(Append(Q, k), k)
          /\ Listed(Q, i) => Listed(Append(Q, k), i)
      <3> HIDE DEF k, Q
      <3> QED BY <2>1, <2>3, AppendLists
    <2>5. h[U] \in Seq(Ids)
      BY <2>2, <2>3, <2>4
    <2>6. ASSUME NEW n \in U, ids[n] = i PROVE Listed(h[U], i)
      <3>1. CASE n \in V
        BY <2>2, <2>3, <2>4, <2>6, <3>1
      <3>2. CASE n = Latest(U)
        <4>1. k = i
          BY <2>6, <3>2
        <4> HIDE DEF k
        <4> QED BY <2>2, <2>4, <4>1
      <3> QED BY <2>1, <3>1, <3>2
    <2> QED BY <2>5, <2>6
  <1> HIDE DEF D
  <1>5. \A U \in SUBSET S : U # {} /\ h[U \ {Latest(U)}] \in R[U \ {Latest(U)}] => h[U] \in R[U]
    BY <1>4
  <1> HIDE DEF R
  <1>6. h[S] \in R[S]
    BY <1>1, <1>3, <1>5, FoldReaches
  <1>7. h[S] \in D(S)
    BY <1>1, <1>6 DEF R
  <1>8. Listed(h[S], i)
    BY <1>1, <1>7 DEF D, Listed
  <1>9. Kept(id, ids) = h[S]
    BY <1>1, KeptUnfold DEF h
  <1> QED BY <1>8, <1>9

----------------------------------------------------------------------------
(* dao-rewards-distributor: the other handlers *)

HookLists == [VpContracts -> Seq(Ids)]

\* A list of hooks of a contract that may not be asked for voting power.
LEMMA HooksChanged ==
    ASSUME NEW hooks \in HookLists, NEW hook, NEW ids, hook \in VpContracts => ids \in Seq(Ids)
    PROVE  [hooks EXCEPT ![hook] = ids] \in HookLists
  <1>1. CASE hook \in VpContracts
    <2>1. ids \in Seq(Ids)
      BY <1>1
    <2> QED BY <1>1, <2>1, Changed DEF HookLists
  <1>2. CASE hook \notin VpContracts
    <2> DEFINE T == Seq(Ids)
    <2> HIDE DEF T
    <2>1. hooks \in [VpContracts -> T]
      BY DEF HookLists, T
    <2>2. [hooks EXCEPT ![hook] = ids] \in [VpContracts -> T]
      BY <1>2, <2>1
    <2> QED BY <2>2 DEF HookLists, T
  <1> QED BY <1>1, <1>2

LEMMA Subscribes ==
    ASSUME NEW s \in DistStores, NEW id \in Ids, NEW hook,
           NEW t, t = subscribe_distribution_to_hook(s, id, hook)
    PROVE  t \in DistStores /\ t.count = s.count /\ t.dist = s.dist /\ t.accounted = s.accounted
  <1> DEFINE ids == Append(s.hooks[hook], id)
             hooks == [s.hooks EXCEPT ![hook] = ids]
  <1>1. s.hooks \in HookLists
    BY DEF DistStores, HookLists
  <1>2. hook \in VpContracts => ids \in Seq(Ids)
    BY <1>1, AppendProperties DEF HookLists
  <1>3. t = [s EXCEPT !.hooks = hooks]
    BY DEF subscribe_distribution_to_hook
  <1> HIDE DEF ids
  <1>4. hooks \in HookLists
    BY <1>1, <1>2, HooksChanged
  <1> HIDE DEF hooks
  <1> QED BY <1>3, <1>4 DEF DistStores, HookLists

LEMMA Unsubscribes ==
    ASSUME NEW s \in DistStores, NEW id \in Ids, NEW hook,
           NEW t, t = unsubscribe_distribution_from_hook(s, id, hook)
    PROVE  t \in DistStores /\ t.count = s.count /\ t.dist = s.dist /\ t.accounted = s.accounted
  <1> DEFINE ids == Kept(id, s.hooks[hook])
             hooks == [s.hooks EXCEPT ![hook] = ids]
  <1>1. s.hooks \in HookLists
    BY DEF DistStores, HookLists
  <1>2. hook \in VpContracts => ids \in Seq(Ids)
    <2>1. SUFFICES ASSUME hook \in VpContracts PROVE ids \in Seq(Ids)
      BY Zenon
    <2>2. s.hooks[hook] \in Seq(Ids)
      BY <1>1, <2>1 DEF HookLists
    <2> QED BY Zenon, <2>2, KeptType
  <1>3. t = [s EXCEPT !.hooks = hooks]
    BY DEF unsubscribe_distribution_from_hook, Kept
  <1> HIDE DEF ids
  <1>4. hooks \in HookLists
    BY <1>1, <1>2, HooksChanged
  <1> HIDE DEF hooks
  <1> QED BY <1>3, <1>4 DEF DistStores, HookLists

\* One distribution is replaced, and its hook may be.
LEMMA DistReplaced ==
    ASSUME NEW s, DistInv(s), NEW id \in 1 .. s.count, NEW e, Succeeds(s.dist[id], e)
    PROVE  DistInv([s EXCEPT !.dist[id] = e])
  <1> DEFINE dist == [s.dist EXCEPT ![id] = e]
             t == [s EXCEPT !.dist = dist]
  <1>1. s \in DistStores /\ s.dist \in Seq(Dist) /\ Len(s.dist) = s.count
    BY DEF DistInv, DistStores
  <1>2. e \in Dist
    BY DEF Succeeds, Updatable, Sound
  <1>3. dist \in Seq(Dist)
    <2> HIDE DEF Dist
    <2> QED BY <1>1, <1>2, ExceptSeq
  <1>4. dist = [s.dist EXCEPT ![id] = e]
    OBVIOUS
  <1> HIDE DEF dist
  <1>5. t \in DistStores /\ t.count = s.count /\ t.dist = dist /\ t.accounted = s.accounted
    BY <1>1, <1>3 DEF DistStores
  <1>6. t = [s EXCEPT !.dist[id] = e]
    BY <1>4
  <1> HIDE DEF t
  <1>7. OnlyAccounts(s, t, id, e)
    BY <1>5 DEF OnlyAccounts
  <1>8. DistInv(t)
    BY <1>4, <1>5, <1>7, Replaced
  <1> QED BY <1>6, <1>8

LEMMA ReceivesKeeps ==
    ASSUME NEW s, DistInv(s), NEW denom \in Denoms, NEW amount \in Int
    PROVE  /\ DistInv(Receives(s, denom, amount))
           /\ Receives(s, denom, amount).count = s.count /\ Receives(s, denom, amount).dist = s.dist
  <1> DEFINE balance == [s.balance EXCEPT ![denom] = @ + amount]
             t == Receives(s, denom, amount)
  <1>1. s \in DistStores /\ s.balance \in [Denoms -> Int]
    BY DEF DistInv, DistStores
  <1>2. balance \in [Denoms -> Int]
    BY <1>1, Changed
  <1>3. t = [s EXCEPT !.balance = balance]
    BY DEF Receives
  <1> HIDE DEF balance, t
  <1>4. t \in DistStores /\ t.count = s.count /\ t.dist = s.dist /\ t.accounted = s.accounted
    BY <1>1, <1>2, <1>3 DEF DistStores
  <1>5. DistInv(t)
    BY <1>4, SameDistributions
  <1> QED BY <1>4, <1>5 DEF t

\* Funding.
LEMMA FundKeeps ==
    ASSUME NEW s, DistInv(s), NEW b \in BlockType, NEW id \in Ids, id <= s.count, NEW amount \in Nat
    PROVE  execute_fund(s, b, id, amount) \in SUBSET SafeStores
  <1>1. SUFFICES ASSUME NEW t \in execute_fund(s, b, id, amount) PROVE t \in SafeStores
    BY Zenon
  <1>2. id \in 1 .. s.count
    BY DEF DistInv, DistStores, Ids
  <1>3. PICK f \in Fundings(s.dist[id], b, amount) : t = [s EXCEPT !.dist[id] = bump_last_updated(f, b)]
    BY Zenon DEF execute_fund, Fundings
  <1>4. Sound(s.dist[id])
    BY <1>2 DEF DistInv, Updatable
  <1>5. Succeeds(s.dist[id], bump_last_updated(f, b))
    BY <1>3, <1>4, FundingKeeps
  <1>6. DistInv([s EXCEPT !.dist[id] = bump_last_updated(f, b)])
    BY <1>2, <1>5, DistReplaced
  <1> QED BY <1>3, <1>6, SafeStore

LEMMA FundNativeKeeps ==
    ASSUME NEW s, DistInv(s), NEW b \in BlockType, NEW id \in Ids, NEW amount \in Nat
    PROVE  execute_fund_native(s, b, id, amount) \in SUBSET SafeStores
  <1>1. SUFFICES ASSUME id <= s.count /\ s.dist[id].denom.kind = "native" /\ amount > 0
                 PROVE  execute_fund(Receives(s, s.dist[id].denom, amount), b, id, amount) \in SUBSET SafeStores
    BY Zenon DEF execute_fund_native
  <1>2. s.dist[id].denom \in Denoms
    <2>1. id \in 1 .. s.count
      BY <1>1 DEF DistInv, DistStores, Ids
    <2>2. Sound(s.dist[id])
      BY <2>1 DEF DistInv, Updatable
    <2> QED BY <2>2 DEF Sound, Dist
  <1>3. amount \in Int
    OBVIOUS
  <1> DEFINE r == Receives(s, s.dist[id].denom, amount)
  <1>4. DistInv(r) /\ r.count = s.count
    BY <1>2, <1>3, ReceivesKeeps
  <1> HIDE DEF r
  <1>5. execute_fund(r, b, id, amount) \in SUBSET SafeStores
    BY <1>1, <1>4, FundKeeps
  <1> QED BY <1>5 DEF r

LEMMA FundCw20Keeps ==
    ASSUME NEW s, DistInv(s), NEW b \in BlockType, NEW denom \in Denoms, NEW id \in Ids, NEW amount \in Nat
    PROVE  execute_receive_cw20(s, b, denom, id, amount) \in SUBSET SafeStores
  <1>1. SUFFICES ASSUME id <= s.count
                 PROVE  execute_fund(Receives(s, denom, amount), b, id, amount) \in SUBSET SafeStores
    BY Zenon DEF execute_receive_cw20
  <1>2. amount \in Int
    OBVIOUS
  <1> DEFINE r == Receives(s, denom, amount)
  <1>3. DistInv(r) /\ r.count = s.count
    BY <1>2, ReceivesKeeps
  <1> HIDE DEF r
  <1>4. execute_fund(r, b, id, amount) \in SUBSET SafeStores
    BY <1>1, <1>3, FundKeeps
  <1> QED BY <1>4 DEF r

\* A new distribution has earned nothing, and nobody has accounted for more.
LEMMA Created ==
    ASSUME NEW s, DistInv(s), s.count < MaxDistributions, NEW d, Updatable(d), Earned(d) = 0,
           NEW t, t = [s EXCEPT !.count = s.count + 1, !.dist = Append(@, d)]
    PROVE  DistInv(t) /\ t.count = s.count + 1
  <1> DEFINE dist == Append(s.dist, d)
  <1>1. /\ s \in DistStores /\ s.dist \in Seq(Dist) /\ Len(s.dist) = s.count /\ s.count \in Nat
        /\ MaxDistributions \in Nat /\ d \in Dist
    BY RewardsAssumption DEF DistInv, DistStores, Updatable, Sound
  <1>2. /\ dist \in Seq(Dist) /\ Len(dist) = s.count + 1 /\ dist[s.count + 1] = d
        /\ \A i \in 1 .. s.count : dist[i] = s.dist[i]
    <2> HIDE DEF Dist
    <2> QED BY <1>1, AppendProperties
  <1> DEFINE n == s.count + 1
  <1>3. t = [s EXCEPT !.count = n, !.dist = dist] /\ n \in Nat
    BY <1>1
  <1> HIDE DEF dist
  <1>4. t \in DistStores /\ t.count = s.count + 1 /\ t.dist = dist /\ t.accounted = s.accounted
    <2>1. dist \in Seq(Dist)
      BY <1>2
    <2> HIDE DEF n
    <2>2. t \in DistStores /\ t.count = n /\ t.dist = dist /\ t.accounted = s.accounted
      BY <1>1, <1>3, <2>1 DEF DistStores
    <2> QED BY <2>2 DEF n
  <1>5. \A i \in 1 .. t.count : Updatable(t.dist[i])
    <2>1. SUFFICES ASSUME NEW i \in 1 .. s.count + 1 PROVE Updatable(dist[i])
      BY <1>4
    <2>2. i \in 1 .. s.count \/ i = s.count + 1
      BY <1>1
    <2> QED BY <1>2, <2>2 DEF DistInv
  <1>6. AccountedFor(t)
    <2>1. SUFFICES ASSUME NEW u \in Users, NEW i \in Ids
                   PROVE  t.accounted[u][i] <= IF i <= t.count THEN Earned(t.dist[i]) ELSE 0
      BY DEF AccountedFor
    <2>2. s.accounted[u][i] \in Nat /\ s.accounted[u][i] <= IF i <= s.count THEN Earned(s.dist[i]) ELSE 0
      BY <1>1 DEF DistInv, AccountedFor, DistStores
    <2>3. i \in Nat \ {0}
      BY DEF Ids
    <2>4. CASE i \in 1 .. s.count
      <3>1. i <= s.count /\ i <= s.count + 1
        BY <1>1, <2>4
      <3> QED BY <1>2, <1>4, <2>2, <2>4, <3>1
    <2>5. CASE i = s.count + 1
      <3>1. ~(i <= s.count) /\ i <= s.count + 1
        BY <1>1, <2>5
      <3> QED BY <1>2, <1>4, <2>2, <2>5, <3>1
    <2>6. CASE i > s.count + 1
      <3>1. ~(i <= s.count) /\ ~(i <= s.count + 1)
        BY <1>1, <2>3, <2>6
      <3> QED BY <1>4, <2>2, <3>1
    <2> QED BY <1>1, <2>3, <2>4, <2>5, <2>6
  <1>7. Len(t.dist) = t.count /\ t.count <= MaxDistributions
    BY <1>1, <1>2, <1>4
  <1> QED BY <1>4, <1>5, <1>6, <1>7 DEF DistInv

LEMMA CreateKeeps ==
    ASSUME NEW s, DistInv(s), s.count < MaxDistributions, NEW b \in BlockType, NEW sender \in Senders,
           NEW msg \in Creations, NEW amount \in Nat
    PROVE  execute_create(s, b, sender, msg, amount) \in SUBSET SafeStores
  <1> DEFINE id == s.count + 1
             d == [denom |-> msg.denom, rate |-> msg.emission_rate, started_at |-> Never, ends_at |-> Never,
                   total_earned |-> 0, last_updated |-> Never, vp_contract |-> msg.vp_contract,
                   hook_caller |-> msg.hook_caller, funded |-> 0,
                   withdraw_destination |-> Given(msg.withdraw_destination, sender), historical |-> 0]
             r == [s EXCEPT !.count = id, !.dist = Append(@, d)]
             created == subscribe_distribution_to_hook(r, id, msg.hook_caller)
  <1>1. SUFFICES ASSUME validate(msg.emission_rate)
                 PROVE  {created} \in SUBSET SafeStores
                        /\ execute_fund_native(created, b, id, amount) \in SUBSET SafeStores
    BY DEF execute_create
  <1>2. /\ msg.denom \in Denoms /\ msg.emission_rate \in Rates /\ msg.vp_contract \in VpContracts
        /\ msg.hook_caller \in HookCallers
    BY RewardInputAssumption DEF HookCallers
  <1>3. Given(msg.withdraw_destination, sender) \in Destinations
    BY DEF Given, Destinations
  <1>4. d \in Dist
    BY <1>2, <1>3, NeverType DEF Dist
  <1>5. /\ d.rate = msg.emission_rate /\ d.started_at = Never /\ d.ends_at = Never
        /\ d.total_earned = 0 /\ d.historical = 0
    OBVIOUS
  <1> HIDE DEF d
  <1>6. Updatable(d) /\ Earned(d) = 0
    BY <1>1, <1>4, <1>5 DEF Updatable, Sound, Earned, validate
  <1>7. DistInv(r) /\ r.count = id
    BY <1>6, Created
  <1>8. id \in Ids
    BY RewardsAssumption DEF DistInv, DistStores, Ids
  <1> HIDE DEF r, id
  <1>9. DistInv(created)
    <2>1. r \in DistStores
      BY <1>7 DEF DistInv
    <2>2. /\ created \in DistStores /\ created.count = r.count /\ created.dist = r.dist
          /\ created.accounted = r.accounted
      BY <1>8, <2>1, Subscribes
    <2> HIDE DEF created
    <2> QED BY <1>7, <2>2, SameDistributions
  <1> HIDE DEF created
  <1>10. execute_fund_native(created, b, id, amount) \in SUBSET SafeStores
    BY <1>8, <1>9, FundNativeKeeps
  <1> QED BY <1>9, <1>10, SafeStore

LEMMA WithdrawKeeps ==
    ASSUME NEW s, DistInv(s), NEW b \in BlockType, NEW sender, NEW id \in Ids
    PROVE  execute_withdraw(s, b, sender, id) \in SUBSET SafeStores
  <1> DEFINE d == s.dist[id]
             e == [d EXCEPT !.ends_at = StoppedAt(d, b)]
             distributed == get_total_rewards(e)
             f == [e EXCEPT !.funded = distributed]
             r == [s EXCEPT !.dist[id] = f]
  <1>1. SUFFICES ASSUME ~(id > s.count)
                 PROVE  get_transfer_msg(r, d.denom, d.funded - distributed) \in SUBSET SafeStores
    BY Zenon DEF execute_withdraw
  <1>2. id \in 1 .. s.count
    BY <1>1 DEF DistInv, DistStores, Ids
  <1>3. Updatable(d) /\ Sound(d) /\ d.denom \in Denoms /\ d.funded \in Nat
    BY <1>2 DEF DistInv, Updatable, Sound, Dist
  <1> HIDE DEF d
  <1>4. Sound(e)
    <2>1. 0 \in Nat
      OBVIOUS
    <2> QED BY <1>3, <2>1, WithdrawnKeeps
  <1>5. distributed \in Nat
    <2> HIDE DEF e
    <2> QED BY <1>4, RewardsNat
  <1> HIDE DEF distributed
  <1>6. Succeeds(d, f)
    BY <1>3, <1>5, WithdrawnKeeps
  <1> HIDE DEF f
  <1>7. DistInv(r)
    BY <1>2, <1>6, DistReplaced DEF d
  <1>8. d.funded - distributed \in Int
    BY <1>3, <1>5
  <1> HIDE DEF r
  <1>9. \A t \in get_transfer_msg(r, d.denom, d.funded - distributed) : DistInv(t)
    BY <1>3, <1>7, <1>8, TransferKeeps
  <1> QED BY <1>9, SafeStore

LEMMA GivenIn ==
    ASSUME NEW option, NEW otherwise, NEW T, option \subseteq T, otherwise \in T
    PROVE  Given(option, otherwise) \in T
  BY DEF Given

LEMMA UpdateKeeps ==
    ASSUME NEW s, DistInv(s), NEW b \in BlockType, NEW sender, NEW id \in Ids, NEW msg \in Updates
    PROVE  execute_update(s, b, sender, id, msg) \in SUBSET SafeStores
  <1> DEFINE Updated(d) ==
                 [d EXCEPT !.vp_contract = Given(msg.vp_contract, @),
                           !.hook_caller = Given(msg.hook_caller, @),
                           !.withdraw_destination = Given(msg.withdraw_destination, @)]
             Unhooked(t) == unsubscribe_distribution_from_hook(t, id, s.dist[id].hook_caller)
             Subscribed(t, d) ==
                 IF msg.hook_caller = {} THEN t
                 ELSE subscribe_distribution_to_hook(Unhooked(t), id, d.hook_caller)
             Transitioned ==
                 IF msg.emission_rate = {} THEN {s.dist[id]}
                 ELSE UNION {transition_epoch(s.dist[id], r, b) : r \in {q \in msg.emission_rate : validate(q)}}
  <1>0. execute_update(s, b, sender, id, msg) =
            IF sender # s.owner \/ id > s.count THEN {}
            ELSE {Subscribed([s EXCEPT !.dist[id] = d], d) : d \in {Updated(e) : e \in Transitioned}}
    BY Zenon DEF execute_update
  <1>1. SUFFICES ASSUME ~(id > s.count), NEW e \in Transitioned
                 PROVE  Subscribed([s EXCEPT !.dist[id] = Updated(e)], Updated(e)) \in SafeStores
    <2> DEFINE Result(d) == Subscribed([s EXCEPT !.dist[id] = d], d)
    <2>1. execute_update(s, b, sender, id, msg) =
              IF sender # s.owner \/ id > s.count THEN {}
              ELSE {Result(d) : d \in {Updated(e) : e \in Transitioned}}
      BY Zenon, <1>0
    <2>2. ASSUME ~(id > s.count) => \A e \in Transitioned : Result(Updated(e)) \in SafeStores
          PROVE  execute_update(s, b, sender, id, msg) \in SUBSET SafeStores
      <3> HIDE DEF Result, Updated, Transitioned
      <3> QED BY <2>1, <2>2
    <2> QED BY Zenon, <2>2
  <1>2. id \in 1 .. s.count
    BY <1>1 DEF DistInv, DistStores, Ids
  <1>3. Updatable(s.dist[id])
    BY <1>2 DEF DistInv
  <1>4. Succeeds(s.dist[id], e)
    <2>1. CASE e = s.dist[id]
      BY <1>3, <2>1, EarnedNat DEF Succeeds, Updatable
    <2>2. CASE e # s.dist[id]
      <3>1. PICK r \in msg.emission_rate : validate(r) /\ e \in transition_epoch(s.dist[id], r, b)
        BY <1>1, <2>2
      <3>2. r \in Rates
        BY RewardInputAssumption
      <3> QED BY <1>3, <3>1, <3>2, TransitionKeeps
    <2> QED BY <2>1, <2>2
  <1> DEFINE c == Given(msg.vp_contract, e.vp_contract)
             k == Given(msg.hook_caller, e.hook_caller)
             w == Given(msg.withdraw_destination, e.withdraw_destination)
             f == Updated(e)
             t == [s EXCEPT !.dist[id] = f]
  <1>5. c \in VpContracts /\ k \in HookCallers /\ w \in Destinations
    <2>1. e.vp_contract \in VpContracts /\ e.hook_caller \in HookCallers /\ e.withdraw_destination \in Destinations
      BY <1>4 DEF Succeeds, Updatable, Sound, Dist
    <2>2. msg.vp_contract \subseteq VpContracts
      BY RewardInputAssumption
    <2>3. msg.hook_caller \subseteq HookCallers
      BY DEF HookCallers
    <2>4. msg.withdraw_destination \subseteq Destinations
      BY DEF Destinations
    <2> QED BY <2>1, <2>2, <2>3, <2>4, GivenIn
  <1>6. f = [e EXCEPT !.vp_contract = c, !.hook_caller = k, !.withdraw_destination = w]
    OBVIOUS
  <1> HIDE DEF c, k, w, f
  <1>7. Succeeds(s.dist[id], f)
    BY <1>4, <1>5, <1>6, RenamedKeeps
  <1>8. DistInv(t)
    BY <1>2, <1>7, DistReplaced
  <1> HIDE DEF t
  <1>9. DistInv(subscribe_distribution_to_hook(Unhooked(t), id, f.hook_caller))
    <2> DEFINE q == Unhooked(t)
               r == subscribe_distribution_to_hook(q, id, f.hook_caller)
    <2>1. t \in DistStores
      BY <1>8 DEF DistInv
    <2>2. q \in DistStores /\ q.count = t.count /\ q.dist = t.dist /\ q.accounted = t.accounted
      BY <2>1, Unsubscribes
    <2> HIDE DEF q
    <2>3. r \in DistStores /\ r.count = q.count /\ r.dist = q.dist /\ r.accounted = q.accounted
      BY <2>2, Subscribes
    <2> HIDE DEF r
    <2>4. DistInv(r)
      BY <1>8, <2>2, <2>3, SameDistributions
    <2> QED BY <2>4 DEF r, q
  <1>10. DistInv(Subscribed(t, f))
    <2> HIDE DEF Unhooked
    <2> QED BY <1>8, <1>9
  <1>11. Subscribed(t, f) \in SafeStores
    <2> HIDE DEF Subscribed
    <2> QED BY <1>10, SafeStore
  <1> QED BY <1>11 DEF t, f

\* A stake grows or shrinks.
LEMMA StakeKeeps ==
    ASSUME NEW s, DistInv(s), NEW b \in BlockType, NEW c \in VpContracts, NEW user \in Users, NEW grew
    PROVE  /\ execute_stake_changed(s, b, c, user, grew) \in SUBSET SafeStores
           /\ execute_nft_stake_changed(s, b, c, user, grew) \in SUBSET SafeStores
  <1>1. s.hooks[c] \in Seq(Ids)
    BY DEF DistInv, DistStores
  <1>2. update_for_stake(s, b, user, s.hooks[c]) \in SUBSET SafeStores
    BY <1>1, StakeUpdatesKeep
  <1>3. execute_stake_changed(s, b, c, user, grew) \in SUBSET SafeStores
    BY <1>2 DEF execute_stake_changed, execute_unstake, get_hook_caller_registered_distribution_ids
  <1> QED BY <1>3 DEF execute_nft_stake_changed

LEMMA InstantiateSafe == DistInv(instantiate)
  <1> DEFINE none == <<>>
  <1>1. 0 \in Nat /\ 0 \in Int /\ MaxDistributions \in Nat
    BY RewardsAssumption
  <1>2. none \in Seq(Dist) /\ none \in Seq(Ids) /\ Len(none) = 0
    BY EmptySeq
  <1> HIDE DEF none
  <1>3. instantiate =
            [kind |-> "distributor", owner |-> Owner, count |-> 0, dist |-> none,
             hooks |-> [c \in VpContracts |-> none], balance |-> [d \in Denoms |-> 0],
             pending |-> [u \in Users |-> [i \in Ids |-> 0]],
             accounted |-> [u \in Users |-> [i \in Ids |-> 0]],
             paid |-> [u \in Users |-> [i \in Ids |-> 0]]]
    BY DEF instantiate, Empty, none
  <1>4. instantiate \in DistStores
    BY <1>1, <1>2, <1>3 DEF DistStores
  <1>5. instantiate.count = 0 /\ instantiate.dist = none
    BY <1>3
  <1>6. AccountedFor(instantiate)
    <2>1. SUFFICES ASSUME NEW u \in Users, NEW id \in Ids
                   PROVE  /\ instantiate.accounted[u][id] = 0 /\ ~(id <= 0)
      BY <1>5 DEF AccountedFor
    <2> QED BY <1>3 DEF Ids
  <1>7. \A id \in 1 .. instantiate.count : Updatable(instantiate.dist[id])
    BY <1>5
  <1> QED BY <1>1, <1>2, <1>4, <1>5, <1>6, <1>7 DEF DistInv

----------------------------------------------------------------------------
(* cw20-stake-external-rewards *)

ExtStores ==
    [kind : {"external"}, owner : {Owner}, staking_contract : VpContracts,
     reward_token : {msg.reward_token : msg \in Externals}, period_finish : Nat, reward_rate : Nat,
     reward_duration : Nat \ {0}, reward_per_token : Nat, last_update_block : Nat,
     pending : [ER!Accounts -> Nat], user_reward_per_token : [ER!Accounts -> Nat], balance : Int,
     paid : [ER!Accounts -> Int]]

\* The last update is neither ahead of the block nor of the end of the period, and no account
\* has more accounted for than was earned.
ExtInv(s, h) ==
    /\ s \in ExtStores
    /\ s.last_update_block <= s.period_finish /\ s.last_update_block <= h
    /\ \A a \in ER!Accounts : s.user_reward_per_token[a] <= s.reward_per_token

\* What was earned does not fall.
LEMMA ExtAccrues ==
    ASSUME NEW b \in BlockType, NEW s, ExtInv(s, b.height)
    PROVE  /\ ER!get_last_time_reward_applicable(s, b) \in Nat
           /\ s.last_update_block <= ER!get_last_time_reward_applicable(s, b)
           /\ ER!get_last_time_reward_applicable(s, b) <= s.period_finish
           /\ ER!get_last_time_reward_applicable(s, b) <= b.height
           /\ ER!get_total_staked(s, b) \in Nat
           /\ ER!get_reward_per_token(s, b) \in Nat
           /\ s.reward_per_token <= ER!get_reward_per_token(s, b)
  <1> DEFINE last == ER!get_last_time_reward_applicable(s, b)
             total == ER!get_total_staked(s, b)
             blocks == last - s.last_update_block
             gain == (s.reward_rate * blocks * ScaleFactor) \div total
  <1>1. /\ s.period_finish \in Nat /\ s.reward_rate \in Nat /\ s.reward_per_token \in Nat
        /\ s.last_update_block \in Nat /\ s.staking_contract \in VpContracts
    BY DEF ExtInv, ExtStores
  <1>2. b.height \in Nat
    BY DEF BlockType
  <1>3. /\ last \in Nat /\ s.last_update_block <= last /\ last <= s.period_finish /\ last <= b.height
    BY <1>1, <1>2 DEF ExtInv, ER!get_last_time_reward_applicable
  <1>4. total \in Nat
    <2> DEFINE power == b.voting[s.staking_contract].start
    <2>1. power \in Power
      BY <1>1 DEF BlockType, VotingType
    <2>2. total = SumOver(power, Users)
      BY Zenon DEF ER!get_total_staked, ER!MapThenSumSet, ER!MapThenFoldSet, SumOver, MapThenSumSet,
                   MapThenFoldSet
    <2> HIDE DEF power, total
    <2>3. \A u \in Users : power[u] \in Nat
      BY <2>1 DEF Power
    <2>4. IsFiniteSet(Users)
      BY RewardsAssumption
    <2> QED BY <2>2, <2>3, <2>4, SumNat
  <1>5. ER!get_reward_per_token(s, b) = s.reward_per_token + (IF total = 0 THEN 0 ELSE gain)
    BY Zenon DEF ER!get_reward_per_token
  <1> HIDE DEF last, total
  <1>6. blocks \in Nat /\ ScaleFactor \in Nat
    BY <1>1, <1>3, RewardsAssumption
  <1> HIDE DEF blocks
  <1>7. total # 0 => gain \in Nat
    <2>1. s.reward_rate * blocks \in Nat
      BY <1>1, <1>6, Product
    <2>2. s.reward_rate * blocks * ScaleFactor \in Nat
      BY <1>6, <2>1, Product
    <2> QED BY <1>4, <2>2, Ratio
  <1> HIDE DEF gain
  <1>8. /\ ER!get_reward_per_token(s, b) \in Nat
        /\ s.reward_per_token <= ER!get_reward_per_token(s, b)
    BY <1>1, <1>5, <1>7
  <1> QED BY <1>3, <1>4, <1>8 DEF last, total

\* Bringing an account's rewards up to date does not fail.
LEMMA ExtUpdateSucceeds ==
    ASSUME NEW b \in BlockType, NEW s, ExtInv(s, b.height), NEW a \in ER!Accounts
    PROVE  ER!update_rewards(s, b, a) # {}
  <1>1. s.user_reward_per_token[a] \in Nat /\ s.user_reward_per_token[a] <= s.reward_per_token
        /\ s.reward_per_token \in Nat
    BY DEF ExtInv, ExtStores
  <1>2. ER!CanUpdate(s, b, a)
    <2>1. /\ ER!get_reward_per_token(s, b) \in Nat
          /\ s.reward_per_token <= ER!get_reward_per_token(s, b)
          /\ s.last_update_block <= ER!get_last_time_reward_applicable(s, b)
      BY ExtAccrues
    <2>2. s.user_reward_per_token[a] <= ER!get_reward_per_token(s, b)
      BY <1>1, <2>1
    <2> QED BY <2>1, <2>2 DEF ER!CanUpdate
  <1> QED BY <1>2 DEF ER!update_rewards, ER!Ok

\* Storages after an account's rewards were brought up to date.
LEMMA ExtUpdateKeeps ==
    ASSUME NEW b \in BlockType, NEW s, ExtInv(s, b.height), NEW a \in ER!Accounts,
           NEW t, t \in ER!update_rewards(s, b, a)
    PROVE  /\ ExtInv(t, b.height) /\ t.owner = s.owner /\ t.reward_duration = s.reward_duration
           /\ t.period_finish = s.period_finish
  <1> DEFINE per_token == ER!get_reward_per_token(s, b)
             last == ER!get_last_time_reward_applicable(s, b)
             earned == ER!get_rewards_earned(s, b, a, per_token)
             pending == [s.pending EXCEPT ![a] = @ + earned]
             accounted == [s.user_reward_per_token EXCEPT ![a] = per_token]
  <1>1. /\ s \in ExtStores /\ s.staking_contract \in VpContracts /\ s.reward_per_token \in Nat
        /\ s.pending \in [ER!Accounts -> Nat] /\ s.user_reward_per_token \in [ER!Accounts -> Nat]
    BY DEF ExtInv, ExtStores
  <1>2. /\ last \in Nat /\ last <= s.period_finish /\ last <= b.height
        /\ per_token \in Nat /\ s.reward_per_token <= per_token
    BY ExtAccrues
  <1>3. t = [s EXCEPT !.reward_per_token = per_token, !.pending = pending,
                      !.user_reward_per_token = accounted, !.last_update_block = last]
    BY DEF ER!update_rewards, ER!Ok
  <1> HIDE DEF last, per_token
  <1>4. earned \in Nat
    <2>1. ER!get_staked_balance(s, b, a) \in Nat
      BY <1>1 DEF ER!get_staked_balance, BlockType, VotingType, Power
    <2>2. per_token - s.user_reward_per_token[a] \in Nat
      <3>1. s.user_reward_per_token[a] \in Nat /\ s.user_reward_per_token[a] <= s.reward_per_token
        BY <1>1 DEF ExtInv
      <3> QED BY <1>1, <1>2, <3>1
    <2>3. ER!get_staked_balance(s, b, a) * (per_token - s.user_reward_per_token[a]) \in Nat
      BY <2>1, <2>2, Product
    <2>4. ScaleFactor \in Nat \ {0}
      BY RewardsAssumption
    <2> QED BY <2>3, <2>4, Ratio DEF ER!get_rewards_earned
  <1> HIDE DEF earned
  <1>5. pending \in [ER!Accounts -> Nat]
    BY <1>1, <1>4, Changed
  <1>6. /\ accounted \in [ER!Accounts -> Nat] /\ accounted[a] = per_token
        /\ \A z \in ER!Accounts : z # a => accounted[z] = s.user_reward_per_token[z]
    BY <1>1, <1>2, Changed
  <1> HIDE DEF pending, accounted
  <1>7. /\ t \in ExtStores /\ t.owner = s.owner /\ t.reward_duration = s.reward_duration
        /\ t.period_finish = s.period_finish /\ t.last_update_block = last
        /\ t.user_reward_per_token = accounted /\ t.reward_per_token = per_token
    BY <1>1, <1>2, <1>3, <1>5, <1>6 DEF ExtStores
  <1>8. \A z \in ER!Accounts : accounted[z] <= per_token
    <2>1. SUFFICES ASSUME NEW z \in ER!Accounts PROVE accounted[z] <= per_token
      OBVIOUS
    <2>2. s.user_reward_per_token[z] \in Nat /\ s.user_reward_per_token[z] <= s.reward_per_token
      BY <1>1 DEF ExtInv
    <2> QED BY <1>1, <1>2, <1>6, <2>2
  <1> QED BY <1>2, <1>7, <1>8 DEF ExtInv

\* The storages of cw20-stake-external-rewards that may be left in a block.
ExtSafe(h) == {s \in ExtStores : ExtInv(s, h)}

LEMMA ExtSafeStore ==
    ASSUME NEW s, NEW h
    PROVE  ExtInv(s, h) <=> s \in ExtSafe(h)
  BY DEF ExtSafe, ExtInv

LEMMA ExtFundKeeps ==
    ASSUME NEW b \in BlockType, NEW s, ExtInv(s, b.height), NEW sender \in ER!Accounts, NEW amount \in Nat
    PROVE  ER!execute_fund(s, b, sender, amount) \in SUBSET ExtSafe(b.height)
  <1> DEFINE rate == amount \div s.reward_duration
             finish == b.height + s.reward_duration
             Funded(q) == [q EXCEPT !.period_finish = finish, !.reward_rate = rate,
                                    !.last_update_block = b.height, !.balance = @ + amount]
  <1>1. SUFFICES ASSUME NEW q \in ER!update_rewards(s, b, sender) PROVE Funded(q) \in ExtSafe(b.height)
    BY DEF ER!execute_fund
  <1>2. s.reward_duration \in Nat \ {0} /\ b.height \in Nat
    BY DEF ExtInv, ExtStores, BlockType
  <1>3. rate \in Nat
    BY <1>2, Ratio
  <1>4. finish \in Nat /\ b.height <= finish /\ b.height <= b.height
    BY <1>2
  <1> HIDE DEF rate, finish
  <1>5. ExtInv(q, b.height)
    BY ExtUpdateKeeps
  <1> DEFINE balance == q.balance + amount
             t == [q EXCEPT !.period_finish = finish, !.reward_rate = rate,
                            !.last_update_block = b.height, !.balance = balance]
  <1>6. q \in ExtStores /\ balance \in Int
    BY <1>5 DEF ExtInv, ExtStores
  <1>7. t = Funded(q)
    OBVIOUS
  <1> HIDE DEF balance, Funded
  <1>8. /\ t \in ExtStores /\ t.period_finish = finish /\ t.last_update_block = b.height
        /\ t.user_reward_per_token = q.user_reward_per_token /\ t.reward_per_token = q.reward_per_token
    BY <1>2, <1>3, <1>4, <1>6 DEF ExtStores
  <1> HIDE DEF t
  <1>9. ExtInv(t, b.height)
    BY <1>4, <1>5, <1>8 DEF ExtInv
  <1> QED BY <1>7, <1>9, ExtSafeStore

LEMMA ExtClaimKeeps ==
    ASSUME NEW b \in BlockType, NEW s, ExtInv(s, b.height), NEW a \in ER!Accounts
    PROVE  ER!execute_claim(s, b, a) \in SUBSET ExtSafe(b.height)
  <1> DEFINE Claimed(q) == [q EXCEPT !.pending[a] = 0, !.balance = @ - q.pending[a],
                                     !.paid[a] = @ + q.pending[a]]
  <1>1. SUFFICES ASSUME NEW q \in ER!update_rewards(s, b, a) PROVE Claimed(q) \in ExtSafe(b.height)
    BY DEF ER!execute_claim
  <1>2. ExtInv(q, b.height)
    BY ExtUpdateKeeps
  <1> DEFINE pending == [q.pending EXCEPT ![a] = 0]
             balance == q.balance - q.pending[a]
             paid == [q.paid EXCEPT ![a] = @ + q.pending[a]]
             t == [q EXCEPT !.pending = pending, !.balance = balance, !.paid = paid]
  <1>3. /\ q \in ExtStores /\ q.pending \in [ER!Accounts -> Nat] /\ q.paid \in [ER!Accounts -> Int]
        /\ q.balance \in Int
    BY <1>2 DEF ExtInv, ExtStores
  <1>4. balance \in Int /\ q.paid[a] + q.pending[a] \in Int /\ 0 \in Nat
    BY <1>3
  <1>5. pending \in [ER!Accounts -> Nat] /\ paid \in [ER!Accounts -> Int]
    BY <1>3, <1>4, Changed
  <1>6. t = Claimed(q)
    OBVIOUS
  <1> HIDE DEF pending, balance, paid, Claimed
  <1>7. /\ t \in ExtStores /\ t.period_finish = q.period_finish
        /\ t.last_update_block = q.last_update_block
        /\ t.user_reward_per_token = q.user_reward_per_token /\ t.reward_per_token = q.reward_per_token
    BY <1>3, <1>4, <1>5 DEF ExtStores
  <1> HIDE DEF t
  <1>8. ExtInv(t, b.height)
    BY <1>2, <1>7 DEF ExtInv
  <1> QED BY <1>6, <1>8, ExtSafeStore

LEMMA ExtDurationKeeps ==
    ASSUME NEW b \in BlockType, NEW s, ExtInv(s, b.height), NEW sender, NEW duration \in Nat
    PROVE  ER!execute_update_reward_duration(s, b, sender, duration) \in SUBSET ExtSafe(b.height)
  <1> DEFINE t == [s EXCEPT !.reward_duration = duration]
  <1>1. SUFFICES ASSUME duration # 0 PROVE t \in ExtSafe(b.height)
    BY DEF ER!execute_update_reward_duration, ER!Ok
  <1>2. s \in ExtStores
    BY DEF ExtInv
  <1>3. /\ t \in ExtStores /\ t.period_finish = s.period_finish
        /\ t.last_update_block = s.last_update_block
        /\ t.user_reward_per_token = s.user_reward_per_token /\ t.reward_per_token = s.reward_per_token
    BY <1>1, <1>2 DEF ExtStores
  <1> HIDE DEF t
  <1>4. ExtInv(t, b.height)
    BY <1>3 DEF ExtInv
  <1> QED BY <1>4, ExtSafeStore

LEMMA ExtStakeKeeps ==
    ASSUME NEW b \in BlockType, NEW s, ExtInv(s, b.height), NEW c, NEW a \in ER!Accounts, NEW grew
    PROVE  ER!execute_stake_changed(s, b, c, a, grew) \in SUBSET ExtSafe(b.height)
  <1>1. \A t \in ER!update_rewards(s, b, a) : t \in ExtSafe(b.height)
    BY ExtUpdateKeeps, ExtSafeStore
  <1> QED BY <1>1 DEF ER!execute_stake_changed, ER!execute_stake, ER!execute_unstake

LEMMA ExtInstantiateSafe ==
    ASSUME NEW msg \in Externals, NEW s, s \in ER!instantiate(msg), NEW h \in Nat
    PROVE  ExtInv(s, h)
  <1>1. msg.staking_contract \in VpContracts /\ msg.reward_duration \in Nat
    BY RewardInputAssumption
  <1>2. /\ msg.reward_duration # 0
        /\ s = [kind |-> "external", owner |-> Owner, staking_contract |-> msg.staking_contract,
                reward_token |-> msg.reward_token, period_finish |-> 0, reward_rate |-> 0,
                reward_duration |-> msg.reward_duration, reward_per_token |-> 0, last_update_block |-> 0,
                pending |-> [a \in ER!Accounts |-> 0], user_reward_per_token |-> [a \in ER!Accounts |-> 0],
                balance |-> 0, paid |-> [a \in ER!Accounts |-> 0]]
    BY DEF ER!instantiate, ER!Ok
  <1>3. /\ s \in ExtStores /\ s.period_finish = 0 /\ s.last_update_block = 0
        /\ s.user_reward_per_token = [a \in ER!Accounts |-> 0] /\ s.reward_per_token = 0
    BY <1>1, <1>2 DEF ExtStores
  <1> QED BY <1>3 DEF ExtInv

----------------------------------------------------------------------------
(* cw-fund-distributor: entitlements *)

FundStores ==
    [kind : {"fund"}, distribution_height : Nat \ {0}, expiration : Nat, voting_contract : VpContracts,
     total_power : Nat \ {0}, received : SUBSET Denoms, balances : [Denoms -> Nat],
     claims : [Users -> [Denoms -> Nat]], held : [Denoms -> Int], paid : [Users -> [Denoms -> Int]]]

\* The powers by which funds are shared are known, and no more than the total.
SharesKnown(s, b) ==
    /\ s.distribution_height <= b.height
    /\ FD!TotalAt(b, s.voting_contract, s.distribution_height) <= s.total_power

\* No member has claimed more than its share.
Fits(s, b) ==
    /\ SharesKnown(s, b)
    /\ \A u \in Users : \A d \in Denoms : FD!CanClaim(s, b, u, d)

ClaimsOn(s, d) == [u \in Users |-> s.claims[u][d]]

\* What was not claimed is still there.
Balanced(s) == \A d \in Denoms : s.held[d] = s.balances[d] - FD!TotalOf(ClaimsOn(s, d))

FundInv(s, b, fits) ==
    /\ s \in FundStores
    /\ IsFiniteSet(s.received)
    /\ Balanced(s)
    /\ fits => Fits(s, b)

LEMMA FloorBounds ==
    ASSUME NEW x \in Nat, NEW d \in Nat \ {0}
    PROVE  x \div d \in Nat /\ d * (x \div d) <= x /\ x < d * (x \div d) + d
  OBVIOUS

LEMMA FloorMonotone ==
    ASSUME NEW x \in Nat, NEW y \in Nat, NEW d \in Nat \ {0}, x <= y
    PROVE  x \div d <= y \div d
  <1> DEFINE p == x \div d
             q == y \div d
  <1>1. p \in Nat /\ q \in Nat /\ d * p <= x /\ y < d * q + d
    BY FloorBounds
  <1> HIDE DEF p, q
  <1>2. SUFFICES ASSUME q + 1 <= p PROVE FALSE
    BY <1>1 DEF p, q
  <1>3. d * (q + 1) <= d * p
    <2>1. PICK k \in Nat : p = q + 1 + k
      <3>1. p - q - 1 \in Nat /\ p = q + 1 + (p - q - 1)
        BY <1>1, <1>2
      <3> QED BY <3>1
    <2>2. d * p = d * (q + 1) + d * k /\ d * k \in Nat /\ d * (q + 1) \in Nat
      BY <1>1, <2>1
    <2> QED BY <2>2
  <1>4. d * (q + 1) = d * q + d /\ d * q \in Nat /\ d * p \in Nat
    BY <1>1
  <1> QED BY <1>1, <1>3, <1>4

\* A share of more funds is no less.
LEMMA ShareMonotone ==
    ASSUME NEW f \in Nat, NEW g \in Nat, f <= g, NEW share \in Nat
    PROVE  /\ FD!TotalShare(f, share) \in Nat /\ FD!TotalShare(g, share) \in Nat
           /\ FD!TotalShare(f, share) <= FD!TotalShare(g, share)
  <1>1. f * share \in Nat /\ g * share \in Nat
    BY Product
  <1>2. f * share <= g * share
    <2>1. PICK k \in Nat : g = f + k
      <3>1. g - f \in Nat /\ g = f + (g - f)
        OBVIOUS
      <3> QED BY <3>1
    <2>2. g * share = f * share + k * share /\ k * share \in Nat
      BY <2>1
    <2> QED BY <1>1, <2>2
  <1>3. DecimalOne \in Nat \ {0}
    BY RewardsAssumption
  <1> QED BY <1>1, <1>2, <1>3, Ratio, FloorMonotone DEF FD!TotalShare

LEMMA PowerAtNat ==
    ASSUME NEW b \in BlockType, NEW c \in VpContracts, NEW u \in Users, NEW h
    PROVE  FD!PowerAt(b, c, u, h) \in Nat
  <1>1. b.voting[c].now \in Power /\ b.voting[c].past \in Seq(Power)
    BY DEF BlockType, VotingType
  <1>2. h \in DOMAIN b.voting[c].past => b.voting[c].past[h] \in Power
    BY <1>1
  <1> QED BY <1>1, <1>2 DEF FD!PowerAt, Power

LEMMA RelativeShareNat ==
    ASSUME NEW s \in FundStores, NEW b \in BlockType, NEW u \in Users
    PROVE  FD!get_relative_share(s, b, u) \in Nat
  <1>1. s.voting_contract \in VpContracts /\ s.total_power \in Nat \ {0}
    BY DEF FundStores
  <1> DEFINE power == FD!PowerAt(b, s.voting_contract, u, s.distribution_height)
  <1>2. power \in Nat
    BY <1>1, PowerAtNat
  <1> HIDE DEF power
  <1>3. power * DecimalOne \in Nat
    BY <1>2, RewardsAssumption, Product
  <1> QED BY <1>1, <1>3, Ratio DEF FD!get_relative_share, power

LEMMA TotalOfSum ==
    ASSUME NEW amounts
    PROVE  FD!TotalOf(amounts) = SumOver(amounts, Users)
  BY Zenon DEF FD!TotalOf, FD!MapThenSumSet, FD!MapThenFoldSet, SumOver, MapThenSumSet, MapThenFoldSet

LEMMA TotalOfNat ==
    ASSUME NEW amounts \in [Users -> Nat]
    PROVE  FD!TotalOf(amounts) \in Nat
  <1>1. \A u \in Users : amounts[u] \in Nat
    OBVIOUS
  <1>2. IsFiniteSet(Users)
    BY RewardsAssumption
  <1> QED BY <1>1, <1>2, SumNat, TotalOfSum

LEMMA ClaimsOnNat ==
    ASSUME NEW s \in FundStores, NEW d \in Denoms
    PROVE  ClaimsOn(s, d) \in [Users -> Nat] /\ FD!TotalOf(ClaimsOn(s, d)) \in Nat
  <1>1. ClaimsOn(s, d) \in [Users -> Nat]
    BY DEF ClaimsOn, FundStores
  <1> QED BY <1>1, TotalOfNat

\* One member's amount changes.
LEMMA SumChanges ==
    ASSUME NEW f, NEW g, NEW y \in Users, \A u \in Users : f[u] \in Int, g[y] \in Int,
           \A u \in Users \ {y} : g[u] = f[u]
    PROVE  SumOver(g, Users) = SumOver(f, Users) + (g[y] - f[y])
  <1>1. IsFiniteSet(Users)
    BY RewardsAssumption
  <1> QED BY <1>1, SumUpdate

\* The storages of cw-fund-distributor that may be left in a block.
FundSafe(b, fits) == {s \in FundStores : FundInv(s, b, fits)}

LEMMA FundSafeStore ==
    ASSUME NEW s, NEW b, NEW fits
    PROVE  FundInv(s, b, fits) <=> s \in FundSafe(b, fits)
  BY DEF FundSafe, FundInv

\* More funds leave every member at least the share it had.
LEMMA FundedKeeps ==
    ASSUME NEW b \in BlockType, NEW fits \in BOOLEAN, NEW s, FundInv(s, b, fits), NEW denom \in Denoms,
           NEW amount \in Nat
    PROVE  FD!Funded(s, b, denom, amount) \in SUBSET FundSafe(b, fits)
  <1> DEFINE received == s.received \cup {denom}
             balances == [s.balances EXCEPT ![denom] = @ + amount]
             held == [s.held EXCEPT ![denom] = @ + amount]
             t == [s EXCEPT !.received = received, !.balances = balances, !.held = held]
  <1>1. SUFFICES t \in FundSafe(b, fits)
    BY FundSafeStore DEF FD!Funded
  <1>2. /\ s \in FundStores /\ s.balances \in [Denoms -> Nat] /\ s.held \in [Denoms -> Int]
        /\ s.received \in SUBSET Denoms /\ IsFiniteSet(s.received)
        /\ s.claims \in [Users -> [Denoms -> Nat]]
    BY DEF FundInv, FundStores
  <1>3. received \in SUBSET Denoms /\ IsFiniteSet(received)
    BY <1>2, FS_AddElement
  <1>4. s.balances[denom] + amount \in Nat /\ s.held[denom] + amount \in Int
    BY <1>2
  <1>5. balances \in [Denoms -> Nat] /\ held \in [Denoms -> Int]
    BY <1>2, <1>4, Changed
  <1>6. \A d \in Denoms : s.balances[d] \in Nat /\ balances[d] \in Nat /\ s.balances[d] <= balances[d]
    BY <1>2
  <1> HIDE DEF received, balances, held
  <1>7. /\ t \in FundStores /\ t.received = received /\ t.balances = balances /\ t.claims = s.claims
        /\ t.distribution_height = s.distribution_height /\ t.total_power = s.total_power
        /\ t.voting_contract = s.voting_contract /\ t.held = held
    BY <1>2, <1>3, <1>5 DEF FundStores
  <1> HIDE DEF t
  <1>8. fits => Fits(t, b)
    <2>1. SUFFICES ASSUME Fits(s, b), NEW u \in Users, NEW d \in Denoms PROVE FD!CanClaim(t, b, u, d)
      BY <1>7 DEF Fits, FundInv, SharesKnown
    <2> DEFINE share == FD!get_relative_share(s, b, u)
    <2>2. share \in Nat /\ FD!get_relative_share(t, b, u) = share
      BY <1>2, <1>7, RelativeShareNat DEF FD!get_relative_share
    <2>3. s.claims[u][d] <= FD!TotalShare(s.balances[d], share)
      BY <2>1 DEF Fits, FD!CanClaim
    <2> HIDE DEF share
    <2>4. /\ FD!TotalShare(s.balances[d], share) \in Nat /\ FD!TotalShare(balances[d], share) \in Nat
          /\ FD!TotalShare(s.balances[d], share) <= FD!TotalShare(balances[d], share)
      BY <1>6, <2>2, ShareMonotone
    <2>5. s.claims[u][d] \in Nat
      BY <1>2
    <2>6. s.claims[u][d] <= FD!TotalShare(balances[d], share)
      BY <2>3, <2>4, <2>5
    <2> QED BY <1>7, <2>2, <2>6 DEF FD!CanClaim
  <1>9. Balanced(t)
    <2>1. SUFFICES ASSUME NEW d \in Denoms PROVE t.held[d] = t.balances[d] - FD!TotalOf(ClaimsOn(t, d))
      BY DEF Balanced
    <2>2. FD!TotalOf(ClaimsOn(t, d)) = FD!TotalOf(ClaimsOn(s, d)) /\ FD!TotalOf(ClaimsOn(s, d)) \in Nat
      BY <1>2, <1>7, ClaimsOnNat DEF ClaimsOn
    <2>3. s.held[d] = s.balances[d] - FD!TotalOf(ClaimsOn(s, d))
      BY DEF FundInv, Balanced
    <2>4. /\ t.held[d] = IF d = denom THEN s.held[d] + amount ELSE s.held[d]
          /\ t.balances[d] = IF d = denom THEN s.balances[d] + amount ELSE s.balances[d]
      BY <1>2, <1>7 DEF balances, held
    <2> QED BY <1>6, <2>2, <2>3, <2>4
  <1>10. FundInv(t, b, fits)
    BY <1>3, <1>7, <1>8, <1>9 DEF FundInv
  <1> QED BY <1>10, FundSafeStore

\* A claim brings a member to its share of one denomination, and does not touch other shares.
LEMMA ClaimedKeeps ==
    ASSUME NEW b \in BlockType, NEW fits \in BOOLEAN, NEW s, FundInv(s, b, fits), NEW user \in Users,
           NEW denom \in Denoms
    PROVE  FD!Claimed(s, b, user, denom) \in SUBSET FundSafe(b, fits)
  <1> DEFINE share == FD!get_relative_share(s, b, user)
             all == FD!TotalShare(s.balances[denom], share)
             entitlement == FD!get_entitlement(s, b, user, denom)
             claims == [s.claims EXCEPT ![user][denom] = @ + entitlement]
             held == [s.held EXCEPT ![denom] = @ - entitlement]
             paid == [s.paid EXCEPT ![user][denom] = @ + entitlement]
             t == [s EXCEPT !.claims = claims, !.held = held, !.paid = paid]
  <1>1. SUFFICES ASSUME FD!CanClaim(s, b, user, denom) PROVE t \in FundSafe(b, fits)
    BY DEF FD!Claimed
  <1>2. /\ s \in FundStores /\ s.balances \in [Denoms -> Nat] /\ s.held \in [Denoms -> Int]
        /\ s.claims \in [Users -> [Denoms -> Nat]] /\ s.paid \in [Users -> [Denoms -> Int]]
        /\ IsFiniteSet(s.received)
    BY DEF FundInv, FundStores
  <1>3. share \in Nat
    BY <1>2, RelativeShareNat
  <1>4. all \in Nat
    <2>1. s.balances[denom] \in Nat /\ s.balances[denom] <= s.balances[denom]
      BY <1>2
    <2> HIDE DEF share
    <2> QED BY <1>3, <2>1, ShareMonotone
  <1>5. entitlement = all - s.claims[user][denom] /\ s.claims[user][denom] <= all
    BY <1>1 DEF FD!get_entitlement, FD!CanClaim
  <1>6. s.claims[user][denom] \in Nat /\ s.held[denom] \in Int /\ s.paid[user][denom] \in Int
    BY <1>2
  <1> HIDE DEF share, all, entitlement
  <1>7. /\ s.claims[user][denom] + entitlement = all /\ s.held[denom] - entitlement \in Int
        /\ s.paid[user][denom] + entitlement \in Int
    BY <1>4, <1>5, <1>6
  <1>8. claims \in [Users -> [Denoms -> Nat]] /\ paid \in [Users -> [Denoms -> Int]]
    BY <1>2, <1>4, <1>7, ChangedIn
  <1>9. held \in [Denoms -> Int]
    BY <1>2, <1>7, Changed
  <1>10. \A u \in Users : \A d \in Denoms :
             claims[u][d] = IF u = user /\ d = denom THEN all ELSE s.claims[u][d]
    BY <1>2, <1>7
  <1> HIDE DEF claims, held, paid
  <1>11. /\ t \in FundStores /\ t.received = s.received /\ t.balances = s.balances /\ t.claims = claims
         /\ t.distribution_height = s.distribution_height /\ t.total_power = s.total_power
         /\ t.voting_contract = s.voting_contract /\ t.held = held
    BY <1>2, <1>8, <1>9 DEF FundStores
  <1> HIDE DEF t
  <1>12. fits => Fits(t, b)
    <2>1. SUFFICES ASSUME Fits(s, b), NEW u \in Users, NEW d \in Denoms PROVE FD!CanClaim(t, b, u, d)
      BY <1>11 DEF Fits, FundInv, SharesKnown
    <2>2. FD!get_relative_share(t, b, u) = FD!get_relative_share(s, b, u)
      BY <1>11 DEF FD!get_relative_share
    <2>3. CASE u = user /\ d = denom
      <3>1. claims[u][d] = FD!TotalShare(t.balances[d], FD!get_relative_share(t, b, u))
        BY <1>10, <1>11, <2>2, <2>3 DEF all, share
      <3>2. claims[u][d] \in Nat
        BY <1>8
      <3> QED BY <1>11, <3>1, <3>2 DEF FD!CanClaim
    <2>4. CASE ~(u = user /\ d = denom)
      BY <1>10, <1>11, <2>1, <2>2, <2>4 DEF FD!CanClaim, Fits
    <2> QED BY <2>3, <2>4
  <1>13. Balanced(t)
    <2>1. SUFFICES ASSUME NEW d \in Denoms PROVE t.held[d] = t.balances[d] - FD!TotalOf(ClaimsOn(t, d))
      BY DEF Balanced
    <2>2. s.held[d] = s.balances[d] - FD!TotalOf(ClaimsOn(s, d)) /\ FD!TotalOf(ClaimsOn(s, d)) \in Nat
      BY <1>2, ClaimsOnNat DEF FundInv, Balanced
    <2>3. CASE d # denom
      <3>1. ClaimsOn(t, d) = ClaimsOn(s, d)
        BY <1>10, <1>11, <2>3 DEF ClaimsOn
      <3>2. t.held[d] = s.held[d]
        BY <1>2, <1>11, <2>3 DEF held
      <3> QED BY <1>11, <2>2, <3>1, <3>2
    <2>4. CASE d = denom
      <3>1. \A u \in Users : ClaimsOn(s, d)[u] \in Int
        BY <1>2 DEF ClaimsOn
      <3>2. ClaimsOn(t, d)[user] = all /\ ClaimsOn(s, d)[user] = s.claims[user][denom]
        BY <1>10, <1>11, <2>4 DEF ClaimsOn
      <3>3. \A u \in Users \ {user} : ClaimsOn(t, d)[u] = ClaimsOn(s, d)[u]
        BY <1>10, <1>11 DEF ClaimsOn
      <3>4. SumOver(ClaimsOn(t, d), Users)
                = SumOver(ClaimsOn(s, d), Users) + (ClaimsOn(t, d)[user] - ClaimsOn(s, d)[user])
        <4> DEFINE f == ClaimsOn(s, d)
                   g == ClaimsOn(t, d)
        <4>1. IsFiniteSet(Users)
          BY RewardsAssumption
        <4>2. /\ g[user] \in Int /\ \A u \in Users : f[u] \in Int
              /\ \A u \in Users \ {user} : g[u] = f[u]
          BY <1>4, <3>1, <3>2, <3>3
        <4> HIDE DEF f, g
        <4>3. SumOver(g, Users) = SumOver(f, Users) + (g[user] - f[user])
          BY <4>2, SumChanges
        <4> QED BY <4>3 DEF f, g
      <3>5. FD!TotalOf(ClaimsOn(t, d)) = FD!TotalOf(ClaimsOn(s, d)) + entitlement
        BY <1>4, <1>5, <1>6, <2>2, <3>2, <3>4, TotalOfSum
      <3>6. t.held[d] = s.held[d] - entitlement
        BY <1>2, <1>11, <2>4 DEF held
      <3>7. entitlement \in Int /\ s.balances[d] \in Nat
        BY <1>2, <1>4, <1>5, <1>6
      <3> QED BY <1>11, <2>2, <3>5, <3>6, <3>7
    <2> QED BY <2>3, <2>4
  <1>14. FundInv(t, b, fits)
    BY <1>2, <1>11, <1>12, <1>13 DEF FundInv
  <1> QED BY <1>14, FundSafeStore

\* g gives the storages after claims of some of the denominations.
ClaimsOf(g, s, b, user, denoms) ==
    g = [U \in SUBSET DOMAIN denoms |->
            IF U = {} THEN {s}
            ELSE UNION {FD!Claimed(t, b, user, denoms[Latest(U)]) : t \in g[U \ {Latest(U)}]}]

LEMMA ClaimsUnfold ==
    ASSUME NEW s, NEW b, NEW user, NEW denoms
    PROVE  FD!ClaimedEach(s, b, user, denoms) = (CHOOSE g : ClaimsOf(g, s, b, user, denoms))[DOMAIN denoms]
  BY Zenon DEF FD!ClaimedEach, FD!FoldLeft, FD!MapThenFoldSet, FD!Max, ClaimsOf, Latest

\* Several denominations are claimed.
LEMMA ClaimsKeep ==
    ASSUME NEW b \in BlockType, NEW fits \in BOOLEAN, NEW s, FundInv(s, b, fits), NEW user \in Users,
           NEW denoms \in Seq(Denoms)
    PROVE  FD!ClaimedEach(s, b, user, denoms) \in SUBSET FundSafe(b, fits)
  <1> DEFINE T == FundSafe(b, fits)
             f == [p \in T \X Denoms |-> FD!Claimed(p[1], b, user, p[2])]
             S == 1 .. Len(denoms)
  <1>1. S = DOMAIN denoms /\ Len(denoms) \in Nat
    OBVIOUS
  <1>2. \A t \in T : \A d \in Denoms :
            f[<<t, d>>] = FD!Claimed(t, b, user, d) /\ FD!Claimed(t, b, user, d) \in SUBSET T
    <2>1. SUFFICES ASSUME NEW t \in T, NEW d \in Denoms
                   PROVE  f[<<t, d>>] = FD!Claimed(t, b, user, d) /\ FD!Claimed(t, b, user, d) \in SUBSET T
      BY Zenon
    <2>2. FD!Claimed(t, b, user, d) \in SUBSET T
      BY FundSafeStore, ClaimedKeeps
    <2> QED BY <2>2
  <1> HIDE DEF f
  <1>3. {s} \in SUBSET T
    BY FundSafeStore
  <1> HIDE DEF T
  <1>4. PICK g : UnionFolds(g, {s}, f, denoms) /\ \A U \in SUBSET DOMAIN denoms : g[U] \in SUBSET T
    <2>1. \A t \in T : \A d \in Denoms : f[<<t, d>>] \in SUBSET T
      BY <1>2
    <2> QED BY <1>3, <2>1, UnionFoldExists
  <1>5. ClaimsOf(g, s, b, user, denoms)
    <2>1. ASSUME NEW U \in SUBSET DOMAIN denoms, U # {}
          PROVE  UNION {f[<<t, denoms[Latest(U)]>>] : t \in g[U \ {Latest(U)}]}
                     = UNION {FD!Claimed(t, b, user, denoms[Latest(U)]) : t \in g[U \ {Latest(U)}]}
      <3> DEFINE d == denoms[Latest(U)]
                 R == g[U \ {Latest(U)}]
      <3>1. d \in Denoms /\ R \in SUBSET T
        BY <1>4, <2>1, LatestOf
      <3> HIDE DEF d, R
      <3>2. \A t \in R : f[<<t, d>>] = FD!Claimed(t, b, user, d)
        BY <1>2, <3>1
      <3>3. UNION {f[<<t, d>>] : t \in R} = UNION {FD!Claimed(t, b, user, d) : t \in R}
        BY <3>2
      <3> QED BY <3>3 DEF d, R
    <2> QED BY <1>4, <2>1 DEF UnionFolds, ClaimsOf
  <1> DEFINE h == CHOOSE k : ClaimsOf(k, s, b, user, denoms)
  <1>6. ClaimsOf(h, s, b, user, denoms)
    BY <1>5
  <1> HIDE DEF h
  <1>7. h[{}] \in SUBSET T
    BY <1>3, <1>6 DEF ClaimsOf
  <1>8. \A U \in SUBSET S : U # {} /\ h[U \ {Latest(U)}] \in SUBSET T => h[U] \in SUBSET T
    <2>1. SUFFICES ASSUME NEW U \in SUBSET S, U # {}, h[U \ {Latest(U)}] \in SUBSET T
                   PROVE  h[U] \in SUBSET T
      BY Zenon
    <2> DEFINE d == denoms[Latest(U)]
               R == h[U \ {Latest(U)}]
    <2>2. d \in Denoms
      BY <1>1, <2>1, LatestOf
    <2>3. h[U] = UNION {FD!Claimed(t, b, user, d) : t \in R}
      BY <1>1, <1>6, <2>1 DEF ClaimsOf
    <2> HIDE DEF d
    <2>4. \A t \in R : FD!Claimed(t, b, user, d) \in SUBSET T
      BY <1>2, <2>1, <2>2
    <2> QED BY <2>3, <2>4
  <1>9. h[S] \in SUBSET T
    BY <1>1, <1>7, <1>8, FoldStays
  <1> QED BY <1>1, <1>9, ClaimsUnfold DEF h, T

\* g gives the storages after some of the coins of a funding.
FundingsOf(g, s, b, coins, amount) ==
    g = [U \in SUBSET DOMAIN coins |->
            IF U = {} THEN {s}
            ELSE UNION {FD!Funded(t, b, coins[Latest(U)], amount) : t \in g[U \ {Latest(U)}]}]

LEMMA CoinsUnfold ==
    ASSUME NEW s, NEW b, NEW amount, NEW coins
    PROVE  FD!execute_fund_native(s, b, coins, amount) = (CHOOSE g : FundingsOf(g, s, b, coins, amount))[DOMAIN coins]
  BY Zenon DEF FD!execute_fund_native, FD!FoldLeft, FD!MapThenFoldSet, FD!Max, FundingsOf, Latest

\* Several coins come with a funding.
LEMMA CoinsKeep ==
    ASSUME NEW b \in BlockType, NEW fits \in BOOLEAN, NEW s, FundInv(s, b, fits), NEW amount \in Nat,
           NEW coins \in Seq(Denoms)
    PROVE  FD!execute_fund_native(s, b, coins, amount) \in SUBSET FundSafe(b, fits)
  <1> DEFINE T == FundSafe(b, fits)
             f == [p \in T \X Denoms |-> FD!Funded(p[1], b, p[2], amount)]
             S == 1 .. Len(coins)
  <1>1. S = DOMAIN coins /\ Len(coins) \in Nat
    OBVIOUS
  <1>2. \A t \in T : \A d \in Denoms :
            f[<<t, d>>] = FD!Funded(t, b, d, amount) /\ FD!Funded(t, b, d, amount) \in SUBSET T
    <2>1. SUFFICES ASSUME NEW t \in T, NEW d \in Denoms
                   PROVE  f[<<t, d>>] = FD!Funded(t, b, d, amount) /\ FD!Funded(t, b, d, amount) \in SUBSET T
      BY Zenon
    <2>2. FD!Funded(t, b, d, amount) \in SUBSET T
      BY FundSafeStore, FundedKeeps
    <2> QED BY <2>2
  <1> HIDE DEF f
  <1>3. {s} \in SUBSET T
    BY FundSafeStore
  <1> HIDE DEF T
  <1>4. PICK g : UnionFolds(g, {s}, f, coins) /\ \A U \in SUBSET DOMAIN coins : g[U] \in SUBSET T
    <2>1. \A t \in T : \A d \in Denoms : f[<<t, d>>] \in SUBSET T
      BY <1>2
    <2> QED BY <1>3, <2>1, UnionFoldExists
  <1>5. FundingsOf(g, s, b, coins, amount)
    <2>1. ASSUME NEW U \in SUBSET DOMAIN coins, U # {}
          PROVE  UNION {f[<<t, coins[Latest(U)]>>] : t \in g[U \ {Latest(U)}]}
                     = UNION {FD!Funded(t, b, coins[Latest(U)], amount) : t \in g[U \ {Latest(U)}]}
      <3> DEFINE d == coins[Latest(U)]
                 R == g[U \ {Latest(U)}]
      <3>1. d \in Denoms /\ R \in SUBSET T
        BY <1>4, <2>1, LatestOf
      <3> HIDE DEF d, R
      <3>2. \A t \in R : f[<<t, d>>] = FD!Funded(t, b, d, amount)
        BY <1>2, <3>1
      <3>3. UNION {f[<<t, d>>] : t \in R} = UNION {FD!Funded(t, b, d, amount) : t \in R}
        BY <3>2
      <3> QED BY <3>3 DEF d, R
    <2> QED BY <1>4, <2>1 DEF UnionFolds, FundingsOf
  <1> DEFINE h == CHOOSE k : FundingsOf(k, s, b, coins, amount)
  <1>6. FundingsOf(h, s, b, coins, amount)
    BY <1>5
  <1> HIDE DEF h
  <1>7. h[{}] \in SUBSET T
    BY <1>3, <1>6 DEF FundingsOf
  <1>8. \A U \in SUBSET S : U # {} /\ h[U \ {Latest(U)}] \in SUBSET T => h[U] \in SUBSET T
    <2>1. SUFFICES ASSUME NEW U \in SUBSET S, U # {}, h[U \ {Latest(U)}] \in SUBSET T
                   PROVE  h[U] \in SUBSET T
      BY Zenon
    <2> DEFINE d == coins[Latest(U)]
               R == h[U \ {Latest(U)}]
    <2>2. d \in Denoms
      BY <1>1, <2>1, LatestOf
    <2>3. h[U] = UNION {FD!Funded(t, b, d, amount) : t \in R}
      BY <1>1, <1>6, <2>1 DEF FundingsOf
    <2> HIDE DEF d
    <2>4. \A t \in R : FD!Funded(t, b, d, amount) \in SUBSET T
      BY <1>2, <2>1, <2>2
    <2> QED BY <2>3, <2>4
  <1>9. h[S] \in SUBSET T
    BY <1>1, <1>7, <1>8, FoldStays
  <1> QED BY <1>1, <1>9, CoinsUnfold DEF h, T

\* The denominations that were received, in some order.
LEMMA KeysType ==
    ASSUME NEW s \in FundStores, IsFiniteSet(s.received), NEW k
    PROVE  FD!Keys(s, k) \in Seq(Denoms)
  <1> DEFINE D == {d \in s.received : d.kind = k}
             n == Cardinality(D)
             keys == CHOOSE f \in [1 .. n -> D] : IsInjective(f)
  <1>1. IsFiniteSet(D) /\ D \subseteq Denoms
    BY FS_Subset DEF FundStores
  <1> HIDE DEF D
  <1>2. n \in Nat /\ ExistsBijection(1 .. n, D)
    BY <1>1, FS_CardinalityType
  <1>3. FD!Keys(s, k) = keys
    BY Zenon DEF FD!Keys, FD!SetToSeq, FD!Cardinality, Cardinality, FD!IsInjective, IsInjective, D
  <1> HIDE DEF n
  <1>4. \E f \in [1 .. n -> D] : IsInjective(f)
    BY <1>2 DEF ExistsBijection, Bijection, Injection
  <1>5. keys \in [1 .. n -> D]
    BY <1>4
  <1> HIDE DEF keys
  <1> QED BY <1>1, <1>2, <1>3, <1>5

LEMMA FundSharesKeep ==
    ASSUME NEW b \in BlockType, NEW fits \in BOOLEAN, NEW s, FundInv(s, b, fits), NEW denom \in Denoms,
           NEW amount \in Nat
    PROVE  /\ FD!execute_fund_cw20(s, b, denom, amount) \in SUBSET FundSafe(b, fits)
           /\ FD!execute_fund_native(s, b, <<denom>>, amount) \in SUBSET FundSafe(b, fits)
  <1>1. <<denom>> \in Seq(Denoms)
    OBVIOUS
  <1>2. FD!execute_fund_native(s, b, <<denom>>, amount) \in SUBSET FundSafe(b, fits)
    BY <1>1, CoinsKeep
  <1>3. FD!execute_fund_cw20(s, b, denom, amount) \in SUBSET FundSafe(b, fits)
    BY FundedKeeps DEF FD!execute_fund_cw20
  <1> QED BY <1>2, <1>3

LEMMA ClaimSharesKeep ==
    ASSUME NEW b \in BlockType, NEW fits \in BOOLEAN, NEW s, FundInv(s, b, fits), NEW user \in Users,
           NEW denom \in Denoms
    PROVE  /\ FD!execute_claim_cw20s(s, b, user, <<denom>>) \in SUBSET FundSafe(b, fits)
           /\ FD!execute_claim_natives(s, b, user, <<denom>>) \in SUBSET FundSafe(b, fits)
  <1>1. <<denom>> \in Seq(Denoms)
    OBVIOUS
  <1>2. FD!ClaimedEach(s, b, user, <<denom>>) \in SUBSET FundSafe(b, fits)
    BY <1>1, ClaimsKeep
  <1> QED BY <1>2 DEF FD!execute_claim_cw20s, FD!execute_claim_natives, FD!get_cw20_claim_wasm_messages,
                      FD!get_native_claim_bank_messages

LEMMA ClaimAllKeeps ==
    ASSUME NEW b \in BlockType, NEW fits \in BOOLEAN, NEW s, FundInv(s, b, fits), NEW user \in Users
    PROVE  FD!execute_claim_all(s, b, user) \in SUBSET FundSafe(b, fits)
  <1> DEFINE T == FundSafe(b, fits)
             first == FD!ClaimedEach(s, b, user, FD!Keys(s, "cw20"))
             rest(t) == FD!ClaimedEach(t, b, user, FD!Keys(s, "native"))
  <1>1. FD!Keys(s, "cw20") \in Seq(Denoms)
    BY KeysType DEF FundInv
  <1>2. first \in SUBSET T
    BY <1>1, ClaimsKeep
  <1>3. \A t \in T : rest(t) \in SUBSET T
    <2>1. SUFFICES ASSUME NEW t \in T PROVE rest(t) \in SUBSET T
      BY Zenon
    <2>2. FundInv(t, b, fits)
      BY FundSafeStore
    <2>3. FD!Keys(s, "native") \in Seq(Denoms)
      BY KeysType DEF FundInv
    <2> QED BY <2>2, <2>3, ClaimsKeep
  <1>4. FD!execute_claim_all(s, b, user) = IF ~FD!IsExpired(s, b) THEN {} ELSE UNION {rest(t) : t \in first}
    BY DEF FD!execute_claim_all, FD!get_cw20_claim_wasm_messages, FD!get_native_claim_bank_messages
  <1> HIDE DEF first, rest
  <1>5. UNION {rest(t) : t \in first} \in SUBSET T
    <2> HIDE DEF T
    <2> QED BY <1>2, <1>3
  <1> QED BY <1>4, <1>5

\* After a redistribution, and to begin with, nothing was claimed.
LEMMA NothingFits ==
    ASSUME NEW b \in BlockType, NEW s \in FundStores, s.claims = [u \in Users |-> FD!Nothing],
           NEW u \in Users, NEW d \in Denoms
    PROVE  FD!CanClaim(s, b, u, d)
  <1> DEFINE share == FD!get_relative_share(s, b, u)
  <1>1. share \in Nat
    BY RelativeShareNat
  <1>2. s.balances[d] \in Nat /\ s.balances[d] <= s.balances[d] /\ s.claims[u][d] = 0
    BY DEF FundStores, FD!Nothing
  <1> HIDE DEF share
  <1>3. FD!TotalShare(s.balances[d], share) \in Nat
    BY <1>1, <1>2, ShareMonotone
  <1> QED BY <1>2, <1>3 DEF FD!CanClaim, share

LEMMA NothingClaimed ==
    ASSUME NEW s \in FundStores, s.claims = [u \in Users |-> FD!Nothing], NEW d \in Denoms
    PROVE  FD!TotalOf(ClaimsOn(s, d)) = 0
  <1>1. \A u \in Users : ClaimsOn(s, d)[u] = 0
    BY DEF ClaimsOn, FD!Nothing
  <1>2. IsFiniteSet(Users)
    BY RewardsAssumption
  <1> QED BY <1>1, <1>2, SumZero, TotalOfSum

LEMMA RedistributeKeeps ==
    ASSUME NEW b \in BlockType, NEW s, FundInv(s, b, FALSE), NEW h \in Nat \ {0},
           NEW t, t \in FD!execute_redistribute_unclaimed_funds(s, h), NEW fits \in BOOLEAN,
           fits => SharesKnown(t, b)
    PROVE  FundInv(t, b, fits)
  <1> DEFINE of(d) == [u \in Users |-> s.claims[u][d]]
             claimed == [d \in Denoms |-> FD!TotalOf(of(d))]
             balances == [d \in Denoms |-> s.balances[d] - claimed[d]]
             claims == [u \in Users |-> FD!Nothing]
  <1>1. /\ ~(\E d \in Denoms : claimed[d] > s.balances[d])
        /\ t = [s EXCEPT !.distribution_height = h, !.balances = balances, !.claims = claims]
    BY DEF FD!execute_redistribute_unclaimed_funds
  <1>2. /\ s \in FundStores /\ s.balances \in [Denoms -> Nat] /\ s.claims \in [Users -> [Denoms -> Nat]]
        /\ IsFiniteSet(s.received)
    BY DEF FundInv, FundStores
  <1>3. \A d \in Denoms : claimed[d] \in Nat
    <2>1. SUFFICES ASSUME NEW d \in Denoms PROVE FD!TotalOf(of(d)) \in Nat
      OBVIOUS
    <2>2. of(d) \in [Users -> Nat]
      BY <1>2
    <2> HIDE DEF of
    <2> QED BY <2>2, TotalOfNat
  <1> HIDE DEF claimed
  <1>4. balances \in [Denoms -> Nat]
    <2>1. SUFFICES ASSUME NEW d \in Denoms PROVE s.balances[d] - claimed[d] \in Nat
      OBVIOUS
    <2> QED BY <1>1, <1>2, <1>3
  <1>5. claims \in [Users -> [Denoms -> Nat]]
    BY DEF FD!Nothing
  <1> HIDE DEF balances, claims
  <1>6. /\ t \in FundStores /\ t.claims = claims /\ t.received = s.received /\ t.held = s.held
        /\ t.balances = balances
    BY <1>1, <1>2, <1>4, <1>5 DEF FundStores
  <1>7. \A u \in Users : \A d \in Denoms : FD!CanClaim(t, b, u, d)
    BY <1>6, NothingFits DEF claims
  <1>8. Balanced(t)
    <2>1. SUFFICES ASSUME NEW d \in Denoms PROVE t.held[d] = t.balances[d] - FD!TotalOf(ClaimsOn(t, d))
      BY DEF Balanced
    <2>2. FD!TotalOf(ClaimsOn(t, d)) = 0
      BY <1>6, NothingClaimed DEF claims
    <2>3. claimed[d] = FD!TotalOf(ClaimsOn(s, d))
      BY DEF claimed, ClaimsOn
    <2>4. s.held[d] = s.balances[d] - FD!TotalOf(ClaimsOn(s, d))
      BY DEF FundInv, Balanced
    <2>5. t.balances[d] = s.balances[d] - claimed[d]
      BY <1>6 DEF balances
    <2>6. t.balances[d] \in Nat
      BY <1>6 DEF FundStores
    <2> QED BY <1>6, <2>2, <2>3, <2>4, <2>5, <2>6
  <1> QED BY <1>2, <1>6, <1>7, <1>8 DEF FundInv, Fits

LEMMA FundInstantiateSafe ==
    ASSUME NEW b \in BlockType, NEW msg \in Funds, NEW t, t \in FD!instantiate(b, msg),
           NEW fits \in BOOLEAN, fits => SharesKnown(t, b)
    PROVE  FundInv(t, b, fits)
  <1> DEFINE total == FD!TotalAt(b, msg.voting_contract, b.height)
             expiration == b.height + msg.funding_period
             none == [u \in Users |-> FD!Nothing]
             nobody == {}
  <1>1. /\ msg.distribution_height \in Nat \ {0} /\ msg.funding_period \in Nat
        /\ msg.voting_contract \in VpContracts /\ b.height \in Nat
    BY RewardInputAssumption DEF BlockType
  <1>2. total \in Nat
    <2> DEFINE powers == [u \in Users |-> FD!PowerAt(b, msg.voting_contract, u, b.height)]
    <2>1. powers \in [Users -> Nat]
      BY <1>1, PowerAtNat
    <2>2. total = FD!TotalOf(powers)
      BY DEF FD!TotalAt
    <2> HIDE DEF powers, total
    <2> QED BY <2>1, <2>2, TotalOfNat
  <1>3. /\ total # 0
        /\ t = [kind |-> "fund", distribution_height |-> msg.distribution_height,
                expiration |-> expiration, voting_contract |-> msg.voting_contract,
                total_power |-> total, received |-> nobody, balances |-> FD!Nothing, claims |-> none,
                held |-> FD!Nothing, paid |-> none]
    BY DEF FD!instantiate
  <1>4. /\ FD!Nothing \in [Denoms -> Nat] /\ FD!Nothing \in [Denoms -> Int]
        /\ none \in [Users -> [Denoms -> Nat]] /\ none \in [Users -> [Denoms -> Int]]
    BY DEF FD!Nothing
  <1>5. nobody \in SUBSET Denoms /\ IsFiniteSet(nobody)
    BY FS_EmptySet
  <1>6. expiration \in Nat
    BY <1>1
  <1> HIDE DEF total, expiration, none, nobody
  <1>7. /\ t \in FundStores /\ t.claims = none /\ t.received = nobody
        /\ t.held = FD!Nothing /\ t.balances = FD!Nothing
    BY <1>1, <1>2, <1>3, <1>4, <1>5, <1>6 DEF FundStores
  <1>8. \A u \in Users : \A d \in Denoms : FD!CanClaim(t, b, u, d)
    BY <1>7, NothingFits DEF none
  <1>9. Balanced(t)
    <2>1. SUFFICES ASSUME NEW d \in Denoms PROVE t.held[d] = t.balances[d] - FD!TotalOf(ClaimsOn(t, d))
      BY DEF Balanced
    <2>2. FD!TotalOf(ClaimsOn(t, d)) = 0
      BY <1>7, NothingClaimed DEF none
    <2>3. FD!Nothing[d] = 0
      BY DEF FD!Nothing
    <2> QED BY <1>7, <2>2, <2>3
  <1> QED BY <1>5, <1>7, <1>8, <1>9 DEF FundInv, Fits

\* A share does not change when blocks go by or powers change, once the power at the
\* distribution height is known.
LEMMA FitsLater ==
    ASSUME NEW s \in FundStores, NEW b \in BlockType, NEW c \in BlockType, NEW past, NEW later,
           Fits(s, b), b.height <= c.height,
           past = b.voting[s.voting_contract].past, later = c.voting[s.voting_contract].past,
           Len(past) = b.height, Len(later) = c.height, \A h \in 1 .. b.height : later[h] = past[h]
    PROVE  Fits(s, c)
  <1> DEFINE h == s.distribution_height
  <1>1. /\ h \in Nat \ {0} /\ s.voting_contract \in VpContracts /\ b.height \in Nat \ {0}
        /\ c.height \in Nat \ {0} /\ h <= b.height
    BY DEF FundStores, BlockType, Fits, SharesKnown
  <1>2. past \in Seq(Power) /\ later \in Seq(Power)
    BY <1>1 DEF BlockType, VotingType
  <1>3. h \in DOMAIN past /\ h \in DOMAIN later /\ later[h] = past[h] /\ h <= c.height
    <2> HIDE DEF h
    <2>1. DOMAIN past = 1 .. b.height /\ DOMAIN later = 1 .. c.height
      BY <1>2
    <2>2. h \in 1 .. b.height /\ h \in 1 .. c.height /\ h <= c.height
      BY <1>1
    <2> QED BY <2>1, <2>2
  <1> HIDE DEF h
  <1>4. \A u \in Users : FD!PowerAt(c, s.voting_contract, u, h) = FD!PowerAt(b, s.voting_contract, u, h)
    BY <1>3 DEF FD!PowerAt
  <1>5. \A u \in Users : FD!get_relative_share(s, c, u) = FD!get_relative_share(s, b, u)
    BY <1>4 DEF FD!get_relative_share, h
  <1>6. SharesKnown(s, c)
    <2>1. FD!TotalAt(c, s.voting_contract, h) = FD!TotalAt(b, s.voting_contract, h)
      <3>1. [u \in Users |-> FD!PowerAt(c, s.voting_contract, u, h)]
                = [u \in Users |-> FD!PowerAt(b, s.voting_contract, u, h)]
        BY <1>4
      <3> QED BY <3>1, Zenon DEF FD!TotalAt
    <2> QED BY <1>3, <2>1 DEF SharesKnown, Fits, h
  <1> QED BY <1>5, <1>6 DEF Fits, FD!CanClaim

\* A common factor of two numbers.
LEMMA Cancel ==
    ASSUME NEW k \in Nat \ {0}, NEW m \in Int, NEW n \in Int, k * m <= k * n
    PROVE  m <= n
  <1>1. SUFFICES ASSUME n + 1 <= m PROVE FALSE
    OBVIOUS
  <1> DEFINE e == m - n - 1
  <1>2. e \in Nat /\ m = n + 1 + e
    BY <1>1
  <1> HIDE DEF e
  <1>3. k * m = k * n + k + k * e
    BY <1>2
  <1>4. k * e \in Nat /\ k * n \in Int
    BY <1>2
  <1> QED BY <1>3, <1>4

\* Factors of both sides.
LEMMA Scale ==
    ASSUME NEW k \in Nat, NEW m \in Int, NEW n \in Int, m <= n
    PROVE  k * m <= k * n
  <1> DEFINE e == n - m
  <1>1. e \in Nat /\ n = m + e
    OBVIOUS
  <1> HIDE DEF e
  <1>2. k * n = k * m + k * e
    BY <1>1
  <1>3. k * e \in Nat /\ k * m \in Int
    BY <1>1
  <1> QED BY <1>2, <1>3

LEMMA TotalOfPowers ==
    ASSUME NEW power
    PROVE  Total(power) = SumOver(power, Users)
  BY Zenon DEF Total, TotalOver, SumOver, MapThenSumSet, MapThenFoldSet

\* While the powers are known, the shares of all members are no more than the whole.
LEMMA SharesFitTheWhole ==
    ASSUME NEW b \in BlockType, NEW s \in FundStores, SharesKnown(s, b), NEW share,
           \A u \in Users : share[u] = FD!get_relative_share(s, b, u)
    PROVE  /\ \A u \in Users : share[u] \in Nat
           /\ SumOver(share, Users) \in Nat /\ SumOver(share, Users) <= DecimalOne
  <1> DEFINE power == [u \in Users |-> FD!PowerAt(b, s.voting_contract, u, s.distribution_height)]
             total == s.total_power
  <1>1. total \in Nat \ {0} /\ s.voting_contract \in VpContracts /\ DecimalOne \in Nat \ {0}
        /\ IsFiniteSet(Users)
    BY RewardsAssumption DEF FundStores
  <1>2. \A u \in Users : power[u] \in Nat /\ share[u] = (power[u] * DecimalOne) \div total
    BY <1>1, PowerAtNat DEF FD!get_relative_share
  <1>3. SumOver(power, Users) <= total
    <2>1. FD!TotalOf(power) <= total
      BY DEF SharesKnown, FD!TotalAt
    <2> QED BY <2>1, TotalOfSum
  <1> HIDE DEF power, total
  <1>4. ASSUME NEW u \in Users PROVE share[u] \in Nat /\ total * share[u] <= DecimalOne * power[u]
    <2>1. power[u] * DecimalOne \in Nat /\ power[u] * DecimalOne = DecimalOne * power[u]
      BY <1>1, <1>2, Product
    <2> QED BY <1>1, <1>2, <2>1, FloorBounds
  <1>5. total * SumOver(share, Users) <= DecimalOne * SumOver(power, Users)
    <2>1. \A u \in Users : /\ share[u] \in Int /\ power[u] \in Int
                           /\ total * share[u] <= DecimalOne * power[u]
      BY <1>2, <1>4
    <2>2. total \in Int /\ DecimalOne \in Int
      BY <1>1
    <2> QED BY <1>1, <2>1, <2>2, SumRatio
  <1>6. SumOver(share, Users) \in Nat /\ SumOver(power, Users) \in Nat
    BY <1>1, <1>2, <1>4, SumNat
  <1>7. DecimalOne * SumOver(power, Users) <= DecimalOne * total
    BY <1>1, <1>3, <1>6, Scale
  <1>8. total * SumOver(share, Users) <= total * DecimalOne
    <2>1. DecimalOne * total = total * DecimalOne /\ DecimalOne * total \in Int
      BY <1>1
    <2>2. total * SumOver(share, Users) \in Int /\ DecimalOne * SumOver(power, Users) \in Int
      BY <1>1, <1>6
    <2> QED BY <1>5, <1>7, <2>1, <2>2
  <1>9. SumOver(share, Users) <= DecimalOne
    BY <1>1, <1>6, <1>8, Cancel
  <1> QED BY <1>4, <1>6, <1>9

\* What all members may still claim of a denomination is there.
LEMMA FundCovered ==
    ASSUME NEW b \in BlockType, NEW s, FundInv(s, b, TRUE), NEW d \in Denoms
    PROVE  Total([u \in Users |-> FD!get_entitlement(s, b, u, d)]) <= s.held[d]
  <1> DEFINE share == [u \in Users |-> FD!get_relative_share(s, b, u)]
             all == [u \in Users |-> FD!TotalShare(s.balances[d], share[u])]
             claims == ClaimsOn(s, d)
             due == [u \in Users |-> FD!get_entitlement(s, b, u, d)]
             funds == s.balances[d]
  <1>1. s \in FundStores /\ SharesKnown(s, b) /\ Balanced(s) /\ funds \in Nat
        /\ DecimalOne \in Nat \ {0} /\ IsFiniteSet(Users)
    BY RewardsAssumption DEF FundInv, Fits, FundStores
  <1>2. /\ \A u \in Users : share[u] \in Nat
        /\ SumOver(share, Users) \in Nat /\ SumOver(share, Users) <= DecimalOne
    BY <1>1, SharesFitTheWhole
  <1>3. \A u \in Users : due[u] = all[u] - claims[u]
    BY DEF FD!get_entitlement, ClaimsOn
  <1>4. \A u \in Users : all[u] = (funds * share[u]) \div DecimalOne
    BY DEF FD!TotalShare
  <1>5. (\A u \in Users : claims[u] \in Nat) /\ FD!TotalOf(claims) = SumOver(claims, Users)
        /\ SumOver(claims, Users) \in Nat
    BY <1>1, ClaimsOnNat, TotalOfSum
  <1>6. s.held[d] = funds - SumOver(claims, Users)
    BY <1>1, <1>5 DEF Balanced
  <1> HIDE DEF share, all, claims, due, funds
  <1>7. \A u \in Users : all[u] \in Nat /\ DecimalOne * all[u] <= funds * share[u]
    <2>1. SUFFICES ASSUME NEW u \in Users PROVE all[u] \in Nat /\ DecimalOne * all[u] <= funds * share[u]
      BY Zenon
    <2>2. funds * share[u] \in Nat
      BY <1>1, <1>2, Product
    <2> QED BY <1>1, <1>4, <2>2, FloorBounds
  <1>8. SumOver(all, Users) <= funds
    <2>1. \A u \in Users : all[u] \in Int /\ share[u] \in Int /\ DecimalOne * all[u] <= funds * share[u]
      BY <1>2, <1>7
    <2>2. DecimalOne \in Int /\ funds \in Int
      BY <1>1
    <2>3. DecimalOne * SumOver(all, Users) <= funds * SumOver(share, Users)
      BY <1>1, <2>1, <2>2, SumRatio
    <2>4. funds * SumOver(share, Users) <= funds * DecimalOne
      BY <1>1, <1>2, Scale
    <2>5. SumOver(all, Users) \in Nat
      BY <1>1, <1>7, SumNat
    <2>6. DecimalOne * SumOver(all, Users) <= DecimalOne * funds
      <3>1. funds * DecimalOne = DecimalOne * funds /\ funds * DecimalOne \in Int
            /\ funds * SumOver(share, Users) \in Int /\ DecimalOne * SumOver(all, Users) \in Int
        BY <1>1, <1>2, <2>5
      <3> QED BY <2>3, <2>4, <3>1
    <2> QED BY <1>1, <2>5, <2>6, Cancel
  <1>9. SumOver(due, Users) = SumOver(all, Users) + (-1) * SumOver(claims, Users)
    <2>1. \A u \in Users : all[u] \in Int /\ claims[u] \in Int /\ due[u] = all[u] + (-1) * claims[u]
      BY <1>3, <1>5, <1>7
    <2> QED BY <1>1, <2>1, SumLinear
  <1>10. SumOver(all, Users) \in Int
    BY <1>1, <1>7, SumInt
  <1>11. SumOver(due, Users) <= s.held[d]
    BY <1>1, <1>5, <1>6, <1>8, <1>9, <1>10
  <1> QED BY <1>11, TotalOfPowers DEF due

----------------------------------------------------------------------------
(* cw20-stake-external-rewards: what is owed *)

\* What is due to every account, in parts of a token, by what was earned at the last update.
ExtDue(s, b) ==
    [a \in ER!Accounts |->
        ScaleFactor * s.pending[a]
            + ER!get_staked_balance(s, b, a) * (s.reward_per_token - s.user_reward_per_token[a])]

\* The balance covers what is due and what the period still brings.
ExtCovers(s, b) ==
    SumOver(ExtDue(s, b), ER!Accounts)
        + ScaleFactor * (s.reward_rate * (s.period_finish - s.last_update_block))
            <= ScaleFactor * s.balance

\* Members whose stake changed in this block were brought up to date in it.
ExtSettled(s, b) ==
    \A u \in Users :
        b.voting[s.staking_contract].now[u] # b.voting[s.staking_contract].start[u] =>
            /\ s.user_reward_per_token[u] = s.reward_per_token
            /\ s.last_update_block = ER!get_last_time_reward_applicable(s, b)

ExtGood(s, b) == ExtInv(s, b.height) /\ ExtCovers(s, b) /\ ExtSettled(s, b)

LEMMA AccountsFinite == IsFiniteSet(ER!Accounts) /\ Users \subseteq ER!Accounts
  <1>1. ER!Accounts = Users \cup {Owner}
    BY DEF ER!Accounts
  <1> QED BY <1>1, RewardsAssumption, FS_AddElement

\* One account's amount changes.
LEMMA AccountSumChanges ==
    ASSUME NEW f, NEW g, NEW y \in ER!Accounts, \A a \in ER!Accounts : f[a] \in Int, g[y] \in Int,
           \A a \in ER!Accounts \ {y} : g[a] = f[a]
    PROVE  SumOver(g, ER!Accounts) = SumOver(f, ER!Accounts) + (g[y] - f[y])
  BY AccountsFinite, SumUpdate

\* Stakes of accounts, and their sum.
LEMMA ExtStakes ==
    ASSUME NEW b \in BlockType, NEW s \in ExtStores, NEW stake,
           \A a \in ER!Accounts : stake[a] = ER!get_staked_balance(s, b, a)
    PROVE  /\ \A a \in ER!Accounts : stake[a] \in Nat
           /\ SumOver(stake, ER!Accounts) = ER!get_total_staked(s, b)
  <1> DEFINE power == b.voting[s.staking_contract].start
  <1>1. power \in Power
    BY DEF BlockType, VotingType, ExtStores
  <1>2. \A a \in ER!Accounts : stake[a] = IF a \in Users THEN power[a] ELSE 0
    BY DEF ER!get_staked_balance
  <1>3. ER!get_total_staked(s, b) = SumOver(power, Users)
    BY Zenon DEF ER!get_total_staked, ER!MapThenSumSet, ER!MapThenFoldSet, SumOver, MapThenSumSet,
                 MapThenFoldSet
  <1> HIDE DEF power
  <1>4. \A a \in ER!Accounts : stake[a] \in Nat
    BY <1>1, <1>2 DEF Power
  <1>5. SumOver(stake, Users) = SumOver(power, Users)
    BY <1>2, AccountsFinite, RewardsAssumption, SumSame
  <1>6. SumOver(stake, ER!Accounts) = SumOver(stake, Users)
    <2>1. CASE Owner \in Users
      <3>1. ER!Accounts = Users
        BY <2>1 DEF ER!Accounts
      <3> QED BY <3>1
    <2>2. CASE Owner \notin Users
      <3>1. Owner \in ER!Accounts /\ ER!Accounts \ {Owner} = Users
        BY <2>2 DEF ER!Accounts
      <3>2. \A a \in ER!Accounts : stake[a] \in Int
        BY <1>4
      <3>3. SumOver(stake, ER!Accounts) = stake[Owner] + SumOver(stake, ER!Accounts \ {Owner})
        BY <3>1, <3>2, AccountsFinite, SumRemove
      <3>4. stake[Owner] = 0
        BY <1>2, <2>2, <3>1
      <3>5. SumOver(stake, Users) \in Nat
        BY <1>4, AccountsFinite, RewardsAssumption, SumNat
      <3> QED BY <3>1, <3>3, <3>4, <3>5
    <2> QED BY <2>1, <2>2
  <1> QED BY <1>3, <1>4, <1>5, <1>6

\* What is earned for all stakes, until the last block that earns, is no more than the rate
\* brings in that time.
LEMMA ExtGain ==
    ASSUME NEW b \in BlockType, NEW s, ExtInv(s, b.height)
    PROVE  LET gain == ER!get_reward_per_token(s, b) - s.reward_per_token
               blocks == ER!get_last_time_reward_applicable(s, b) - s.last_update_block
           IN  /\ gain \in Nat /\ blocks \in Nat
               /\ gain * ER!get_total_staked(s, b) <= ScaleFactor * (s.reward_rate * blocks)
  <1> DEFINE gain == ER!get_reward_per_token(s, b) - s.reward_per_token
             total == ER!get_total_staked(s, b)
             blocks == ER!get_last_time_reward_applicable(s, b) - s.last_update_block
             brought == s.reward_rate * blocks * ScaleFactor
  <1>1. /\ s.reward_rate \in Nat /\ s.reward_per_token \in Nat /\ s.last_update_block \in Nat
        /\ ScaleFactor \in Nat
    BY RewardsAssumption DEF ExtInv, ExtStores
  <1>2. gain \in Nat /\ blocks \in Nat /\ total \in Nat
    BY <1>1, ExtAccrues
  <1>3. ER!get_reward_per_token(s, b) = s.reward_per_token + (IF total = 0 THEN 0 ELSE brought \div total)
    BY Zenon DEF ER!get_reward_per_token
  <1> HIDE DEF total, blocks
  <1>4. brought \in Nat /\ brought = ScaleFactor * (s.reward_rate * blocks)
    <2>1. s.reward_rate * blocks \in Nat
      BY <1>1, <1>2, Product
    <2> QED BY <1>1, <2>1, Product
  <1> HIDE DEF brought
  <1>5. CASE total = 0
    BY <1>2, <1>4, <1>5 DEF total, blocks
  <1>6. CASE total # 0
    <2>1. total \in Nat \ {0}
      BY <1>2, <1>6
    <2>2. brought \div total \in Nat /\ total * (brought \div total) <= brought
      BY <1>4, <2>1, FloorBounds
    <2>3. gain = brought \div total
      BY <1>1, <1>3, <1>6, <2>2
    <2>4. gain * total = total * gain
      BY <1>2
    <2> QED BY <1>2, <1>4, <2>2, <2>3, <2>4 DEF total, blocks
  <1> QED BY <1>5, <1>6

\* What bringing account a up to date does.
LEMMA ExtUpdated ==
    ASSUME NEW b \in BlockType, NEW s, ExtInv(s, b.height), NEW a \in ER!Accounts,
           NEW t, t \in ER!update_rewards(s, b, a)
    PROVE  LET per_token == ER!get_reward_per_token(s, b)
               earned == ER!get_rewards_earned(s, b, a, per_token)
           IN  /\ ExtInv(t, b.height)
               /\ t.staking_contract = s.staking_contract /\ t.period_finish = s.period_finish
               /\ t.reward_rate = s.reward_rate /\ t.balance = s.balance /\ t.owner = s.owner
               /\ t.reward_duration = s.reward_duration /\ t.paid = s.paid
               /\ t.reward_per_token = per_token
               /\ t.last_update_block = ER!get_last_time_reward_applicable(s, b)
               /\ t.pending[a] = s.pending[a] + earned /\ t.user_reward_per_token[a] = per_token
               /\ \A z \in ER!Accounts \ {a} : /\ t.pending[z] = s.pending[z]
                                              /\ t.user_reward_per_token[z] = s.user_reward_per_token[z]
  <1> DEFINE per_token == ER!get_reward_per_token(s, b)
             last == ER!get_last_time_reward_applicable(s, b)
             earned == ER!get_rewards_earned(s, b, a, per_token)
             pending == [s.pending EXCEPT ![a] = @ + earned]
             accounted == [s.user_reward_per_token EXCEPT ![a] = per_token]
  <1>1. /\ s \in ExtStores
        /\ s.pending \in [ER!Accounts -> Nat] /\ s.user_reward_per_token \in [ER!Accounts -> Nat]
    BY DEF ExtInv, ExtStores
  <1>2. t = [s EXCEPT !.reward_per_token = per_token, !.pending = pending,
                      !.user_reward_per_token = accounted, !.last_update_block = last]
    BY DEF ER!update_rewards, ER!Ok
  <1>3. ExtInv(t, b.height)
    BY ExtUpdateKeeps
  <1>4. /\ pending[a] = s.pending[a] + earned /\ accounted[a] = per_token
        /\ \A z \in ER!Accounts \ {a} : pending[z] = s.pending[z] /\ accounted[z] = s.user_reward_per_token[z]
    BY <1>1
  <1> HIDE DEF pending, accounted, last, per_token, earned
  <1>5. /\ t.staking_contract = s.staking_contract /\ t.period_finish = s.period_finish
        /\ t.reward_rate = s.reward_rate /\ t.balance = s.balance /\ t.owner = s.owner
        /\ t.reward_duration = s.reward_duration /\ t.paid = s.paid
        /\ t.reward_per_token = per_token /\ t.last_update_block = last
        /\ t.pending = pending /\ t.user_reward_per_token = accounted
    BY <1>1, <1>2 DEF ExtStores
  <1> QED BY <1>3, <1>4, <1>5 DEF per_token, last, earned

\* Rounding down what an account earned, with the stake it had.
LEMMA ExtEarned ==
    ASSUME NEW b \in BlockType, NEW s, ExtInv(s, b.height), NEW a \in ER!Accounts
    PROVE  LET per_token == ER!get_reward_per_token(s, b)
               stake == ER!get_staked_balance(s, b, a)
               earned == ER!get_rewards_earned(s, b, a, per_token)
               gain == per_token - s.reward_per_token
           IN  /\ earned \in Nat /\ stake \in Nat
               /\ ScaleFactor * (s.pending[a] + earned) <= ExtDue(s, b)[a] + gain * stake
               /\ ExtDue(s, b)[a] \in Nat
               /\ ExtDue(s, b)[a] + gain * stake
                      = ScaleFactor * s.pending[a] + stake * (per_token - s.user_reward_per_token[a])
  <1> DEFINE per_token == ER!get_reward_per_token(s, b)
             stake == ER!get_staked_balance(s, b, a)
             earned == ER!get_rewards_earned(s, b, a, per_token)
             gain == per_token - s.reward_per_token
             since == s.reward_per_token - s.user_reward_per_token[a]
             pending == s.pending[a]
  <1>1. /\ s \in ExtStores /\ s.reward_per_token \in Nat /\ s.user_reward_per_token[a] \in Nat
        /\ s.user_reward_per_token[a] <= s.reward_per_token /\ pending \in Nat
    BY DEF ExtInv, ExtStores
  <1>2. per_token \in Nat /\ s.reward_per_token <= per_token /\ ScaleFactor \in Nat \ {0}
    BY ExtAccrues, RewardsAssumption
  <1>3. stake \in Nat
    BY <1>1 DEF ER!get_staked_balance, BlockType, VotingType, Power, ExtStores
  <1>4. ExtDue(s, b)[a] = ScaleFactor * pending + stake * since
    BY DEF ExtDue
  <1>5. earned = (stake * (per_token - s.user_reward_per_token[a])) \div ScaleFactor
    BY DEF ER!get_rewards_earned
  <1> HIDE DEF per_token, stake, earned, pending
  <1>6. since \in Nat /\ gain \in Nat /\ per_token - s.user_reward_per_token[a] = since + gain
    BY <1>1, <1>2
  <1> HIDE DEF since, gain
  <1>7. /\ stake * (since + gain) = stake * since + gain * stake
        /\ stake * since \in Nat /\ gain * stake \in Nat
    BY <1>3, <1>6
  <1>8. stake * (since + gain) \in Nat
    BY <1>7
  <1>9. earned \in Nat /\ ScaleFactor * earned <= stake * (since + gain)
    BY <1>2, <1>5, <1>6, <1>8, FloorBounds
  <1>10. ScaleFactor * (pending + earned) = ScaleFactor * pending + ScaleFactor * earned
         /\ ScaleFactor * pending \in Nat /\ ScaleFactor * earned \in Nat
    BY <1>1, <1>2, <1>9
  <1> QED BY <1>3, <1>4, <1>6, <1>7, <1>9, <1>10 DEF per_token, stake, earned, pending, gain

\* The accounts' rewards, brought up to date, and what is left of the period.
LEMMA ExtAccounting ==
    ASSUME NEW b \in BlockType, NEW s, ExtInv(s, b.height), ExtCovers(s, b),
           NEW due, \A a \in ER!Accounts : due[a] \in Nat,
           \A a \in ER!Accounts :
               due[a] <= ExtDue(s, b)[a] + (ER!get_reward_per_token(s, b) - s.reward_per_token)
                                               * ER!get_staked_balance(s, b, a)
    PROVE  SumOver(due, ER!Accounts)
               + ScaleFactor * (s.reward_rate * (s.period_finish - ER!get_last_time_reward_applicable(s, b)))
                   <= ScaleFactor * s.balance
  <1> DEFINE gain == ER!get_reward_per_token(s, b) - s.reward_per_token
             last == ER!get_last_time_reward_applicable(s, b)
             blocks == last - s.last_update_block
             total == ER!get_total_staked(s, b)
             stake == [a \in ER!Accounts |-> ER!get_staked_balance(s, b, a)]
             before == ExtDue(s, b)
             rest == s.period_finish - last
             rate == s.reward_rate
  <1>1. gain \in Nat /\ blocks \in Nat /\ gain * total <= ScaleFactor * (rate * blocks) /\ total \in Nat
    BY ExtGain, ExtAccrues
  <1>2. (\A a \in ER!Accounts : stake[a] \in Nat) /\ SumOver(stake, ER!Accounts) = total
    <2>1. s \in ExtStores
      BY DEF ExtInv
    <2> QED BY <2>1, ExtStakes
  <1>3. \A a \in ER!Accounts : before[a] \in Nat
    BY ExtEarned
  <1>4. \A a \in ER!Accounts : due[a] <= before[a] + gain * stake[a]
    OBVIOUS
  <1>5. /\ s.period_finish \in Nat /\ s.last_update_block \in Nat /\ rate \in Nat /\ s.balance \in Int
        /\ ScaleFactor \in Nat /\ last \in Nat /\ last <= s.period_finish
    BY ExtAccrues, RewardsAssumption DEF ExtInv, ExtStores
  <1>6. SumOver(before, ER!Accounts) + ScaleFactor * (rate * (s.period_finish - s.last_update_block))
            <= ScaleFactor * s.balance
    BY DEF ExtCovers
  <1>7. rest \in Nat /\ s.period_finish - s.last_update_block = blocks + rest
    BY <1>1, <1>5
  <1> HIDE DEF gain, last, total, stake, before, blocks, rest, rate
  <1>8. SumOver(due, ER!Accounts) <= SumOver(before, ER!Accounts) + gain * SumOver(stake, ER!Accounts)
    <2>1. \A a \in ER!Accounts : /\ before[a] \in Int /\ stake[a] \in Int /\ due[a] \in Int
                                 /\ due[a] <= before[a] + gain * stake[a]
      BY <1>2, <1>3, <1>4
    <2>2. gain \in Int
      BY <1>1
    <2> QED BY <2>1, <2>2, AccountsFinite, SumAtMost
  <1>9. SumOver(due, ER!Accounts) \in Nat /\ SumOver(before, ER!Accounts) \in Nat
    BY <1>3, AccountsFinite, SumNat
  <1>10. ScaleFactor * (rate * (blocks + rest)) = ScaleFactor * (rate * blocks) + ScaleFactor * (rate * rest)
    <2>1. rate * (blocks + rest) = rate * blocks + rate * rest /\ rate * blocks \in Nat /\ rate * rest \in Nat
      BY <1>1, <1>5, <1>7
    <2> QED BY <1>5, <2>1
  <1>11. /\ ScaleFactor * (rate * blocks) \in Nat /\ ScaleFactor * (rate * rest) \in Nat
         /\ gain * total \in Nat /\ ScaleFactor * s.balance \in Int
    BY <1>1, <1>5, <1>7, Product
  <1>12. SumOver(due, ER!Accounts) + ScaleFactor * (rate * rest) <= ScaleFactor * s.balance
    BY <1>1, <1>2, <1>6, <1>7, <1>8, <1>9, <1>10, <1>11
  <1> QED BY <1>12 DEF rest, rate, last

\* What all accounts may claim, and what the period still brings, is there.
LEMMA ExtCovered ==
    ASSUME NEW b \in BlockType, NEW s, ExtInv(s, b.height), ExtCovers(s, b)
    PROVE  Total([u \in Users |-> ER!query_pending_rewards(s, b, u)])
               + s.reward_rate * (s.period_finish - ER!get_last_time_reward_applicable(s, b)) <= s.balance
  <1> DEFINE pending == [a \in ER!Accounts |-> ER!query_pending_rewards(s, b, a)]
             due == [a \in ER!Accounts |-> ScaleFactor * pending[a]]
             rest == s.reward_rate * (s.period_finish - ER!get_last_time_reward_applicable(s, b))
  <1>1. \A a \in ER!Accounts :
            pending[a] \in Nat
            /\ ScaleFactor * pending[a]
                   <= ExtDue(s, b)[a] + (ER!get_reward_per_token(s, b) - s.reward_per_token)
                                            * ER!get_staked_balance(s, b, a)
    <2>1. SUFFICES ASSUME NEW a \in ER!Accounts
                   PROVE  /\ pending[a] \in Nat
                          /\ ScaleFactor * pending[a]
                                 <= ExtDue(s, b)[a] + (ER!get_reward_per_token(s, b) - s.reward_per_token)
                                                          * ER!get_staked_balance(s, b, a)
      BY Zenon
    <2>2. s.pending[a] \in Nat
      BY DEF ExtInv, ExtStores
    <2> QED BY <2>2, ExtEarned DEF ER!query_pending_rewards
  <1>2. ScaleFactor \in Nat \ {0} /\ rest \in Nat /\ s.balance \in Int
    <2>1. s.period_finish - ER!get_last_time_reward_applicable(s, b) \in Nat /\ s.reward_rate \in Nat
      BY ExtAccrues DEF ExtInv, ExtStores
    <2> QED BY <2>1, RewardsAssumption, Product DEF ExtInv, ExtStores
  <1>3. \A a \in ER!Accounts : due[a] = ScaleFactor * pending[a]
    OBVIOUS
  <1> HIDE DEF pending, due
  <1>4. \A a \in ER!Accounts : due[a] \in Nat
    BY <1>1, <1>2, <1>3, Product
  <1>5. SumOver(due, ER!Accounts) + ScaleFactor * rest <= ScaleFactor * s.balance
    BY <1>1, <1>3, <1>4, ExtAccounting
  <1> HIDE DEF rest
  <1>6. SumOver(due, ER!Accounts) = ScaleFactor * SumOver(pending, ER!Accounts)
    <2>1. ScaleFactor \in Int /\ \A a \in ER!Accounts : pending[a] \in Int
      BY <1>1, <1>2
    <2> QED BY <1>3, <2>1, AccountsFinite, SumScaled
  <1>7. SumOver(pending, ER!Accounts) \in Nat
    BY <1>1, AccountsFinite, SumNat
  <1>8. SumOver(pending, ER!Accounts) + rest <= s.balance
    <2>1. ScaleFactor * (SumOver(pending, ER!Accounts) + rest)
              = ScaleFactor * SumOver(pending, ER!Accounts) + ScaleFactor * rest
      BY <1>2, <1>7
    <2>2. SumOver(pending, ER!Accounts) + rest \in Int
      BY <1>2, <1>7
    <2> QED BY <1>2, <1>5, <1>6, <2>1, <2>2, Cancel
  <1>9. SumOver(pending, Users) <= SumOver(pending, ER!Accounts)
    <2>1. CASE Owner \in Users
      <3>1. ER!Accounts = Users
        BY <2>1 DEF ER!Accounts
      <3> QED BY <1>7, <3>1
    <2>2. CASE Owner \notin Users
      <3>1. Owner \in ER!Accounts /\ ER!Accounts \ {Owner} = Users
        BY <2>2 DEF ER!Accounts
      <3>2. \A a \in ER!Accounts : pending[a] \in Int
        BY <1>1
      <3>3. SumOver(pending, ER!Accounts) = pending[Owner] + SumOver(pending, ER!Accounts \ {Owner})
        BY <3>1, <3>2, AccountsFinite, SumRemove
      <3>4. pending[Owner] \in Nat
        BY <1>1, <3>1
      <3>5. SumOver(pending, Users) \in Nat
        <4>1. \A u \in Users : pending[u] \in Nat
          BY <1>1, AccountsFinite
        <4> QED BY <4>1, RewardsAssumption, SumNat
      <3> QED BY <3>1, <3>3, <3>4, <3>5
    <2> QED BY <2>1, <2>2
  <1>10. Total([u \in Users |-> ER!query_pending_rewards(s, b, u)]) = SumOver(pending, Users)
    <2> DEFINE mine == [u \in Users |-> ER!query_pending_rewards(s, b, u)]
    <2>1. \A u \in Users : mine[u] = pending[u]
      BY AccountsFinite DEF pending
    <2> HIDE DEF mine
    <2>2. SumOver(mine, Users) = SumOver(pending, Users)
      BY <2>1, RewardsAssumption, SumSame
    <2> QED BY <2>2, TotalOfPowers DEF mine
  <1>11. SumOver(pending, Users) \in Nat
    <2>1. \A u \in Users : pending[u] \in Nat
      BY <1>1, AccountsFinite
    <2> QED BY <2>1, RewardsAssumption, SumNat
  <1> QED BY <1>2, <1>7, <1>8, <1>9, <1>10, <1>11 DEF rest

\* Bringing an account up to date takes from the period what it adds to what is due.
LEMMA ExtUpdateCovers ==
    ASSUME NEW b \in BlockType, NEW s, ExtGood(s, b), NEW a \in ER!Accounts,
           NEW t, t \in ER!update_rewards(s, b, a)
    PROVE  /\ ExtGood(t, b)
           /\ t.last_update_block = ER!get_last_time_reward_applicable(t, b)
  <1> DEFINE per_token == ER!get_reward_per_token(s, b)
             last == ER!get_last_time_reward_applicable(s, b)
             due == ExtDue(t, b)
  <1>1. ExtInv(s, b.height) /\ ExtCovers(s, b) /\ ExtSettled(s, b)
    BY DEF ExtGood
  <1>2. /\ ExtInv(t, b.height)
        /\ t.staking_contract = s.staking_contract /\ t.period_finish = s.period_finish
        /\ t.reward_rate = s.reward_rate /\ t.balance = s.balance
        /\ t.reward_per_token = per_token /\ t.last_update_block = last
        /\ t.pending[a] = s.pending[a] + ER!get_rewards_earned(s, b, a, per_token)
        /\ t.user_reward_per_token[a] = per_token
        /\ \A z \in ER!Accounts \ {a} : /\ t.pending[z] = s.pending[z]
                                       /\ t.user_reward_per_token[z] = s.user_reward_per_token[z]
    BY <1>1, ExtUpdated
  <1>3. ER!get_last_time_reward_applicable(t, b) = last
    BY <1>2 DEF ER!get_last_time_reward_applicable
  <1>4. \A z \in ER!Accounts : ER!get_staked_balance(t, b, z) = ER!get_staked_balance(s, b, z)
    BY <1>2 DEF ER!get_staked_balance
  <1>5. per_token \in Nat /\ ScaleFactor \in Nat
    BY <1>1, ExtAccrues, RewardsAssumption
  <1>6. ASSUME NEW z \in ER!Accounts
        PROVE  /\ due[z] \in Nat
               /\ due[z] <= ExtDue(s, b)[z] + (per_token - s.reward_per_token) * ER!get_staked_balance(s, b, z)
    <2> DEFINE stake == ER!get_staked_balance(s, b, z)
    <2>1. due[z] = ScaleFactor * t.pending[z] + stake * (per_token - t.user_reward_per_token[z])
      BY <1>2, <1>4 DEF ExtDue
    <2>2. due[z] \in Nat
      BY <1>2, ExtEarned
    <2>3. stake \in Nat
      BY <1>1, ExtEarned
    <2>4. CASE z = a
      <3>1. due[z] = ScaleFactor * t.pending[z]
        <4>1. per_token - t.user_reward_per_token[z] = 0
          BY <1>2, <1>5, <2>4
        <4>2. t.pending[z] \in Nat
          BY <1>2 DEF ExtInv, ExtStores
        <4> HIDE DEF stake
        <4>3. stake * 0 = 0 /\ ScaleFactor * t.pending[z] \in Nat
          BY <1>5, <2>3, <4>2
        <4> QED BY <2>1, <4>1, <4>3
      <3> QED BY <1>1, <1>2, <2>2, <2>4, <3>1, ExtEarned
    <2>5. CASE z # a
      <3>1. t.pending[z] = s.pending[z] /\ t.user_reward_per_token[z] = s.user_reward_per_token[z]
        BY <1>2, <2>5
      <3>2. ExtDue(s, b)[z] + (per_token - s.reward_per_token) * stake = due[z]
        BY <1>1, <2>1, <3>1, ExtEarned
      <3> QED BY <2>2, <3>2
    <2> QED BY <2>4, <2>5
  <1>7. ExtCovers(t, b)
    <2>1. SumOver(due, ER!Accounts) + ScaleFactor * (s.reward_rate * (s.period_finish - last))
              <= ScaleFactor * s.balance
      <3> HIDE DEF due
      <3> QED BY <1>1, <1>6, ExtAccounting
    <2> QED BY <1>2, <2>1 DEF ExtCovers
  <1>8. ExtSettled(t, b)
    <2>1. SUFFICES ASSUME NEW u \in Users,
                          b.voting[s.staking_contract].now[u] # b.voting[s.staking_contract].start[u]
                   PROVE  t.user_reward_per_token[u] = per_token
      BY <1>2, <1>3 DEF ExtSettled
    <2>2. s.user_reward_per_token[u] = s.reward_per_token /\ s.last_update_block = last
      BY <1>1, <2>1 DEF ExtSettled
    <2>3. per_token = s.reward_per_token
      <3>1. ER!get_reward_per_token(s, b) - s.reward_per_token \in Nat
            /\ (ER!get_reward_per_token(s, b) - s.reward_per_token) * ER!get_total_staked(s, b)
                   <= ScaleFactor * (s.reward_rate * (last - s.last_update_block))
        BY <1>1, ExtGain
      <3>2. s.last_update_block \in Nat /\ s.reward_rate \in Nat /\ s.reward_per_token \in Nat
        BY <1>1 DEF ExtInv, ExtStores
      <3> DEFINE total == ER!get_total_staked(s, b)
      <3>3. per_token = s.reward_per_token
                + (IF total = 0 THEN 0
                   ELSE (s.reward_rate * (last - s.last_update_block) * ScaleFactor) \div total)
        BY Zenon DEF ER!get_reward_per_token
      <3>4. total \in Nat
        BY <1>1, ExtAccrues
      <3> HIDE DEF total, last, per_token
      <3>5. last - s.last_update_block = 0
        BY <2>2, <3>2
      <3>6. s.reward_rate * 0 * ScaleFactor = 0
        BY <1>5, <3>2
      <3>7. total # 0 => 0 \div total = 0
        BY <3>4
      <3> QED BY <3>2, <3>3, <3>5, <3>6, <3>7
    <2> QED BY <1>2, <2>2, <2>3, AccountsFinite
  <1> QED BY <1>2, <1>3, <1>7, <1>8 DEF ExtGood

\* A period that starts brings no more than what is added for it.
LEMMA ExtFundCovers ==
    ASSUME NEW b \in BlockType, NEW s, ExtGood(s, b), NEW sender \in ER!Accounts, NEW amount \in Nat,
           NEW t, t \in ER!execute_fund(s, b, sender, amount)
    PROVE  ExtGood(t, b)
  <1> DEFINE rate == amount \div s.reward_duration
             finish == b.height + s.reward_duration
             Funded(q) == [q EXCEPT !.period_finish = finish, !.reward_rate = rate,
                                    !.last_update_block = b.height, !.balance = @ + amount]
  <1>1. PICK q \in ER!update_rewards(s, b, sender) : t = Funded(q)
    BY DEF ER!execute_fund
  <1>2. /\ s.reward_duration \in Nat \ {0} /\ b.height \in Nat
        /\ ExtInv(s, b.height) /\ ScaleFactor \in Nat
    BY RewardsAssumption DEF ExtGood, ExtInv, ExtStores, BlockType
  <1>3. rate \in Nat /\ s.reward_duration * rate <= amount
    BY <1>2, FloorBounds
  <1>4. finish \in Nat /\ b.height < finish /\ finish - b.height = s.reward_duration
    BY <1>2
  <1> HIDE DEF rate, finish
  <1>5. ExtInv(q, b.height) /\ ExtCovers(q, b) /\ ExtSettled(q, b)
    BY ExtUpdateCovers DEF ExtGood
  <1>6. /\ q \in ExtStores /\ q.period_finish \in Nat /\ q.last_update_block \in Nat /\ q.reward_rate \in Nat
        /\ q.last_update_block <= q.period_finish /\ q.balance \in Int
    BY <1>5 DEF ExtInv, ExtStores
  <1>7. /\ t.period_finish = finish /\ t.reward_rate = rate /\ t.last_update_block = b.height
        /\ t.balance = q.balance + amount /\ t.pending = q.pending
        /\ t.user_reward_per_token = q.user_reward_per_token /\ t.reward_per_token = q.reward_per_token
        /\ t.staking_contract = q.staking_contract
    BY <1>1, <1>6 DEF ExtStores
  <1>8. ExtInv(t, b.height)
    BY <1>2, ExtFundKeeps, ExtSafeStore
  <1> HIDE DEF Funded
  <1>9. ExtDue(t, b) = ExtDue(q, b)
    BY <1>7 DEF ExtDue, ER!get_staked_balance
  <1>10. ExtCovers(t, b)
    <2> DEFINE due == SumOver(ExtDue(q, b), ER!Accounts)
               rest == q.reward_rate * (q.period_finish - q.last_update_block)
    <2>1. due + ScaleFactor * rest <= ScaleFactor * q.balance
      BY <1>5 DEF ExtCovers
    <2>2. rest \in Nat
      BY <1>6, Product
    <2>3. due \in Int
      <3>1. \A a \in ER!Accounts : ExtDue(q, b)[a] \in Int
        BY <1>5, ExtEarned
      <3> QED BY <3>1, AccountsFinite, SumInt
    <2>4. rate * (finish - b.height) = s.reward_duration * rate
      BY <1>2, <1>3, <1>4
    <2> HIDE DEF due, rest
    <2>5. ScaleFactor * (s.reward_duration * rate) <= ScaleFactor * amount
      <3>1. s.reward_duration * rate \in Int
        BY <1>2, <1>3
      <3> QED BY <1>2, <1>3, <3>1, Scale
    <2>6. /\ ScaleFactor * rest \in Nat /\ ScaleFactor * q.balance \in Int
          /\ ScaleFactor * (q.balance + amount) = ScaleFactor * q.balance + ScaleFactor * amount
          /\ ScaleFactor * amount \in Nat /\ ScaleFactor * (s.reward_duration * rate) \in Int
      <3>1. s.reward_duration * rate \in Nat
        BY <1>2, <1>3, Product
      <3> QED BY <1>2, <1>6, <2>2, <3>1
    <2>7. due + ScaleFactor * (rate * (finish - b.height)) <= ScaleFactor * (q.balance + amount)
      BY <2>1, <2>3, <2>4, <2>5, <2>6
    <2> QED BY <1>7, <1>9, <2>7 DEF ExtCovers, due
  <1>11. ExtSettled(t, b)
    <2>1. ER!get_last_time_reward_applicable(t, b) = b.height
      BY <1>4, <1>7 DEF ER!get_last_time_reward_applicable
    <2> QED BY <1>5, <1>7, <2>1 DEF ExtSettled
  <1> QED BY <1>8, <1>10, <1>11 DEF ExtGood

\* A claim pays out what it takes from what is due.
LEMMA ExtClaimCovers ==
    ASSUME NEW b \in BlockType, NEW s, ExtGood(s, b), NEW a \in ER!Accounts,
           NEW t, t \in ER!execute_claim(s, b, a)
    PROVE  ExtGood(t, b)
  <1> DEFINE Claimed(q) == [q EXCEPT !.pending[a] = 0, !.balance = @ - q.pending[a],
                                     !.paid[a] = @ + q.pending[a]]
  <1>1. PICK q \in ER!update_rewards(s, b, a) : t = Claimed(q)
    BY DEF ER!execute_claim
  <1>2. ExtInv(q, b.height) /\ ExtCovers(q, b) /\ ExtSettled(q, b) /\ ExtInv(s, b.height)
    BY ExtUpdateCovers DEF ExtGood
  <1> DEFINE amount == q.pending[a]
  <1>3. /\ q \in ExtStores /\ q.period_finish \in Nat /\ q.last_update_block \in Nat /\ q.reward_rate \in Nat
        /\ q.last_update_block <= q.period_finish /\ q.balance \in Int /\ ScaleFactor \in Nat
        /\ amount \in Nat /\ q.pending \in [ER!Accounts -> Nat]
    BY <1>2, RewardsAssumption DEF ExtInv, ExtStores
  <1>4. /\ t.period_finish = q.period_finish /\ t.reward_rate = q.reward_rate
        /\ t.last_update_block = q.last_update_block /\ t.balance = q.balance - amount
        /\ t.pending = [q.pending EXCEPT ![a] = 0]
        /\ t.user_reward_per_token = q.user_reward_per_token /\ t.reward_per_token = q.reward_per_token
        /\ t.staking_contract = q.staking_contract
    BY <1>1, <1>3 DEF ExtStores
  <1>5. ExtInv(t, b.height)
    BY <1>2, ExtClaimKeeps, ExtSafeStore
  <1> HIDE DEF Claimed
  <1> DEFINE before == ExtDue(q, b)
             after == ExtDue(t, b)
             stake(z) == ER!get_staked_balance(q, b, z)
             since(z) == q.reward_per_token - q.user_reward_per_token[z]
  <1>6. \A z \in ER!Accounts : /\ before[z] = ScaleFactor * q.pending[z] + stake(z) * since(z)
                              /\ after[z] = ScaleFactor * t.pending[z] + stake(z) * since(z)
    BY <1>4 DEF ExtDue, ER!get_staked_balance
  <1>7. \A z \in ER!Accounts : before[z] \in Nat
    BY <1>2, ExtEarned
  <1>8. \A z \in ER!Accounts \ {a} : after[z] = before[z]
    BY <1>3, <1>4, <1>6
  <1>9. after[a] = before[a] - ScaleFactor * amount /\ after[a] \in Int
    <2>1. t.pending[a] = 0
      BY <1>3, <1>4
    <2>2. stake(a) * since(a) \in Int
      <3>1. stake(a) \in Nat
        BY <1>2, ExtEarned
      <3>2. since(a) \in Int
        BY <1>3 DEF ExtStores
      <3> HIDE DEF stake, since
      <3> QED BY <3>1, <3>2
    <2>3. ScaleFactor * 0 = 0 /\ ScaleFactor * amount \in Nat
      BY <1>3
    <2> HIDE DEF stake, since
    <2> QED BY <1>6, <2>1, <2>2, <2>3
  <1> HIDE DEF before, after, amount
  <1>10. SumOver(after, ER!Accounts) = SumOver(before, ER!Accounts) + (after[a] - before[a])
    <2>1. \A z \in ER!Accounts : before[z] \in Int
      BY <1>7
    <2> QED BY <1>8, <1>9, <2>1, AccountSumChanges
  <1>11. ExtCovers(t, b)
    <2> DEFINE rest == q.reward_rate * (q.period_finish - q.last_update_block)
    <2>1. SumOver(before, ER!Accounts) + ScaleFactor * rest <= ScaleFactor * q.balance
      BY <1>2 DEF ExtCovers, before
    <2>2. rest \in Nat
      BY <1>3, Product
    <2>3. SumOver(before, ER!Accounts) \in Nat
      BY <1>7, AccountsFinite, SumNat
    <2> HIDE DEF rest
    <2>4. /\ ScaleFactor * (q.balance - amount) = ScaleFactor * q.balance - ScaleFactor * amount
          /\ ScaleFactor * q.balance \in Int /\ ScaleFactor * amount \in Nat /\ ScaleFactor * rest \in Nat
      BY <1>3, <2>2
    <2>5. before[a] \in Nat
      BY <1>7
    <2>6. SumOver(after, ER!Accounts) + ScaleFactor * rest <= ScaleFactor * (q.balance - amount)
      BY <1>9, <1>10, <2>1, <2>3, <2>4, <2>5
    <2> QED BY <1>4, <2>6 DEF ExtCovers, after, rest
  <1>12. ExtSettled(t, b)
    <2>1. ER!get_last_time_reward_applicable(t, b) = ER!get_last_time_reward_applicable(q, b)
      BY <1>4 DEF ER!get_last_time_reward_applicable
    <2> QED BY <1>2, <1>4, <2>1 DEF ExtSettled
  <1> QED BY <1>5, <1>11, <1>12 DEF ExtGood

LEMMA ExtDurationCovers ==
    ASSUME NEW b \in BlockType, NEW s, ExtGood(s, b), NEW sender, NEW duration \in Nat,
           NEW t, t \in ER!execute_update_reward_duration(s, b, sender, duration)
    PROVE  ExtGood(t, b)
  <1>1. t = [s EXCEPT !.reward_duration = duration] /\ s \in ExtStores
    BY DEF ER!execute_update_reward_duration, ER!Ok, ExtGood, ExtInv
  <1>2. /\ t.period_finish = s.period_finish /\ t.reward_rate = s.reward_rate
        /\ t.last_update_block = s.last_update_block /\ t.balance = s.balance
        /\ t.pending = s.pending /\ t.staking_contract = s.staking_contract
        /\ t.user_reward_per_token = s.user_reward_per_token /\ t.reward_per_token = s.reward_per_token
    BY <1>1 DEF ExtStores
  <1>3. ExtInv(t, b.height)
    BY ExtDurationKeeps, ExtSafeStore DEF ExtGood
  <1>4. ExtDue(t, b) = ExtDue(s, b)
    BY <1>2 DEF ExtDue, ER!get_staked_balance
  <1>5. ER!get_last_time_reward_applicable(t, b) = ER!get_last_time_reward_applicable(s, b)
    BY <1>2 DEF ER!get_last_time_reward_applicable
  <1> QED BY <1>2, <1>3, <1>4, <1>5 DEF ExtGood, ExtCovers, ExtSettled

\* Stakes change within a block, of members that are up to date.
LEMMA ExtStakesChange ==
    ASSUME NEW b \in BlockType, NEW c \in BlockType, NEW s, ExtGood(s, b), c.height = b.height,
           c.voting[s.staking_contract].start = b.voting[s.staking_contract].start,
           \A u \in Users :
               c.voting[s.staking_contract].now[u] # b.voting[s.staking_contract].now[u] =>
                   /\ s.user_reward_per_token[u] = s.reward_per_token
                   /\ s.last_update_block = ER!get_last_time_reward_applicable(s, b)
    PROVE  ExtGood(s, c)
  <1>1. ExtDue(s, c) = ExtDue(s, b)
    BY DEF ExtDue, ER!get_staked_balance
  <1>2. ER!get_last_time_reward_applicable(s, c) = ER!get_last_time_reward_applicable(s, b)
    BY DEF ER!get_last_time_reward_applicable
  <1> QED BY <1>1, <1>2 DEF ExtGood, ExtCovers, ExtSettled

\* A block later, those stakes count.
LEMMA ExtBlockLater ==
    ASSUME NEW b \in BlockType, NEW c \in BlockType, NEW s, ExtGood(s, b), c.height = b.height + 1,
           c.voting[s.staking_contract].start = b.voting[s.staking_contract].now,
           c.voting[s.staking_contract].now = b.voting[s.staking_contract].now
    PROVE  ExtGood(s, c)
  <1>1. /\ s \in ExtStores /\ s.last_update_block \in Nat /\ s.reward_per_token \in Nat
        /\ s.last_update_block <= b.height /\ b.height \in Nat /\ s.staking_contract \in VpContracts
    BY DEF ExtGood, ExtInv, ExtStores, BlockType
  <1>2. ExtInv(s, c.height)
    BY <1>1 DEF ExtGood, ExtInv
  <1>3. ExtSettled(s, c)
    BY DEF ExtSettled
  <1>4. \A a \in ER!Accounts : ExtDue(s, c)[a] = ExtDue(s, b)[a]
    <2>1. SUFFICES ASSUME NEW a \in ER!Accounts PROVE ExtDue(s, c)[a] = ExtDue(s, b)[a]
      BY Zenon
    <2> DEFINE was == ER!get_staked_balance(s, b, a)
               is == ER!get_staked_balance(s, c, a)
               since == s.reward_per_token - s.user_reward_per_token[a]
    <2>2. /\ ExtDue(s, b)[a] = ScaleFactor * s.pending[a] + was * since
          /\ ExtDue(s, c)[a] = ScaleFactor * s.pending[a] + is * since
      BY DEF ExtDue
    <2>3. CASE is = was
      BY <2>2, <2>3
    <2>4. CASE is # was
      <3>1. a \in Users /\ b.voting[s.staking_contract].now[a] # b.voting[s.staking_contract].start[a]
        BY <2>4 DEF ER!get_staked_balance
      <3>2. s.user_reward_per_token[a] = s.reward_per_token
        BY <3>1 DEF ExtGood, ExtSettled
      <3>3. since = 0
        BY <1>1, <3>2
      <3>4. was \in Nat /\ is \in Nat
        BY <1>1 DEF ER!get_staked_balance, BlockType, VotingType, Power
      <3> HIDE DEF was, is, since
      <3>5. was * 0 = 0 /\ is * 0 = 0
        BY <3>4
      <3> QED BY <2>2, <3>3, <3>5
    <2> QED BY <2>3, <2>4
  <1>5. SumOver(ExtDue(s, c), ER!Accounts) = SumOver(ExtDue(s, b), ER!Accounts)
    BY <1>4, AccountsFinite, SumSame
  <1>6. ExtCovers(s, c)
    BY <1>5 DEF ExtGood, ExtCovers
  <1> QED BY <1>2, <1>3, <1>6 DEF ExtGood

LEMMA ExtInstantiateCovers ==
    ASSUME NEW b \in BlockType, NEW msg \in Externals, NEW s, s \in ER!instantiate(msg),
           b.voting[s.staking_contract].now = b.voting[s.staking_contract].start
    PROVE  ExtGood(s, b)
  <1>1. /\ s.period_finish = 0 /\ s.reward_rate = 0 /\ s.last_update_block = 0 /\ s.balance = 0
        /\ s.pending = [a \in ER!Accounts |-> 0] /\ s.reward_per_token = 0
        /\ s.user_reward_per_token = [a \in ER!Accounts |-> 0]
    BY DEF ER!instantiate, ER!Ok
  <1>2. b.height \in Nat
    BY DEF BlockType
  <1>3. ExtInv(s, b.height)
    BY <1>2, ExtInstantiateSafe
  <1>4. \A a \in ER!Accounts : ExtDue(s, b)[a] = 0
    <2>1. SUFFICES ASSUME NEW a \in ER!Accounts PROVE ExtDue(s, b)[a] = 0
      BY Zenon
    <2> DEFINE stake == ER!get_staked_balance(s, b, a)
    <2>2. stake \in Nat /\ ScaleFactor \in Nat
      BY <1>3, ExtEarned, RewardsAssumption
    <2>3. ExtDue(s, b)[a] = ScaleFactor * 0 + stake * (0 - 0)
      BY <1>1 DEF ExtDue
    <2> HIDE DEF stake
    <2> QED BY <2>2, <2>3
  <1>5. SumOver(ExtDue(s, b), ER!Accounts) = 0
    BY <1>4, AccountsFinite, SumZero
  <1>6. ScaleFactor * (0 * (0 - 0)) = 0 /\ ScaleFactor * 0 = 0
    BY RewardsAssumption
  <1>7. ExtCovers(s, b)
    BY <1>1, <1>5, <1>6 DEF ExtCovers
  <1> QED BY <1>3, <1>7 DEF ExtGood, ExtSettled

----------------------------------------------------------------------------
(* dao-rewards-distributor: what a distribution has left *)

\* What the epoch brought in complete periods until the last update.
Distributed(d) ==
    CASE d.rate = Paused -> 0
      [] d.rate = Immediate -> d.funded
      [] OTHER -> d.rate.amount * (get_exp_diff(d.last_updated, d.started_at) \div d.rate.duration)

Left(d) == d.funded - Distributed(d)

\* The last update is not before the epoch.
Follows(d) ==
    IsLinear(d.rate) =>
        IF d.started_at = Never THEN d.last_updated = Never
        ELSE d.last_updated.unit = d.rate.unit /\ d.started_at.at <= d.last_updated.at

\* The funds are enough for the epoch, and the last update is neither before it nor after its
\* end nor ahead of the block.
Timely(d, b) ==
    /\ get_total_rewards(d) <= d.funded
    /\ Follows(d)
    /\ IsLinear(d.rate) /\ d.started_at # Never =>
           d.last_updated.at <= d.ends_at.at /\ d.last_updated.at <= AtNow(b, d.rate.unit).at

\* What the epoch brings in complete periods since the last update.
Brought(d, b) ==
    IF IsLinear(d.rate)
    THEN d.rate.amount * (get_exp_diff(get_latest_reward_distribution_time(d, b), d.last_updated)
                              \div d.rate.duration)
    ELSE 0

\* Whatever power shares in it, unless that is more than it counts, e has not earned more than
\* was taken from what d has left, with amount added.
Affords(d, e, b, amount) ==
    \A total \in Nat :
        Earned(e) = Earned(d) \/ total <= get_prev_block_total_vp(b, d.vp_contract) =>
            total * (Earned(e) - Earned(d)) + ScaleFactor * Left(e) <= ScaleFactor * (Left(d) + amount)

\* Complete periods.
LEMMA PeriodsAdd ==
    ASSUME NEW x \in Nat, NEW y \in Nat, NEW q \in Nat \ {0}
    PROVE  /\ x \div q \in Nat /\ y \div q \in Nat /\ (x + y) \div q \in Nat
           /\ x \div q + y \div q <= (x + y) \div q
  <1> DEFINE m == x \div q
             n == y \div q
             k == (x + y) \div q
  <1>1. m \in Nat /\ q * m <= x
    BY FloorBounds
  <1>2. n \in Nat /\ q * n <= y
    BY FloorBounds
  <1>3. k \in Nat /\ x + y < q * k + q
    <2>1. x + y \in Nat
      OBVIOUS
    <2> QED BY <2>1, FloorBounds
  <1> HIDE DEF m, n, k
  <1>4. q * (m + n) < q * (k + 1)
    <2>1. q * (m + n) = q * m + q * n /\ q * (k + 1) = q * k + q
      BY <1>1, <1>2, <1>3
    <2>2. q * m \in Nat /\ q * n \in Nat /\ q * k \in Nat
      BY <1>1, <1>2, <1>3, Product
    <2> QED BY <1>1, <1>2, <1>3, <2>1, <2>2
  <1>5. ~(k + 1 <= m + n)
    <2>1. ASSUME k + 1 <= m + n PROVE FALSE
      <3>1. q * (k + 1) <= q * (m + n)
        <4>1. q \in Nat /\ k + 1 \in Int /\ m + n \in Int
          BY <1>1, <1>2, <1>3
        <4> QED BY <2>1, <4>1, Scale
      <3>2. q * (k + 1) \in Nat /\ q * (m + n) \in Nat
        BY <1>1, <1>2, <1>3, Product
      <3> QED BY <1>4, <3>1, <3>2
    <2> QED BY <2>1
  <1>6. m + n <= k
    BY <1>1, <1>2, <1>3, <1>5
  <1> QED BY <1>1, <1>2, <1>3, <1>6 DEF m, n, k

\* What complete periods bring is no more than what all the time brings.
LEMMA PeriodsFit ==
    ASSUME NEW a \in Nat, NEW x \in Nat, NEW q \in Nat \ {0}
    PROVE  /\ x \div q \in Nat /\ a * (x \div q) \in Nat /\ (a * x) \div q \in Nat
           /\ a * (x \div q) <= (a * x) \div q
  <1> DEFINE m == x \div q
             k == (a * x) \div q
  <1>1. m \in Nat /\ q * m <= x
    BY FloorBounds
  <1>2. a * x \in Nat
    BY Product
  <1>3. k \in Nat /\ a * x < q * k + q
    BY <1>2, FloorBounds
  <1> HIDE DEF m, k
  <1>4. a * m \in Nat
    BY <1>1, Product
  <1>5. a * (q * m) <= a * x
    <2>1. q * m \in Int /\ x \in Int
      BY <1>1
    <2> QED BY <1>1, <2>1, Scale
  <1>6. a * (q * m) = q * (a * m)
    BY <1>1
  <1>7. q * (a * m) < q * k + q
    <2>1. q * (a * m) \in Nat /\ q * k \in Nat
      BY <1>3, <1>4, Product
    <2> QED BY <1>2, <1>3, <1>5, <1>6, <2>1
  <1>8. ~(k + 1 <= a * m)
    <2>1. ASSUME k + 1 <= a * m PROVE FALSE
      <3>1. q * (k + 1) <= q * (a * m)
        <4>1. q \in Nat /\ k + 1 \in Int /\ a * m \in Int
          BY <1>3, <1>4
        <4> QED BY <2>1, <4>1, Scale
      <3>2. q * (k + 1) = q * k + q /\ q * k \in Nat
        BY <1>3
      <3>3. q * (a * m) \in Nat
        BY <1>4, Product
      <3> QED BY <1>7, <3>1, <3>2, <3>3
    <2> QED BY <2>1
  <1>9. a * m <= k
    BY <1>3, <1>4, <1>8
  <1> QED BY <1>1, <1>3, <1>4, <1>9 DEF m, k

\* The earlier of the block and a time.
LEMMA Earlier ==
    ASSUME NEW b \in BlockType, NEW e \in Exp, e # Never
    PROVE  /\ UpTo(b, e).unit = e.unit
           /\ UpTo(b, e).at \in Nat /\ AtNow(b, e.unit).at \in Nat /\ e.at \in Nat
           /\ UpTo(b, e).at <= e.at /\ UpTo(b, e).at <= AtNow(b, e.unit).at
           /\ UpTo(b, e).at = e.at \/ UpTo(b, e).at = AtNow(b, e.unit).at
  <1>1. UpTo(b, e).unit = e.unit /\ UpTo(b, e) \in Exp /\ AtNow(b, e.unit) \in Exp
    BY Times
  <1>2. UpTo(b, e).at \in Nat /\ AtNow(b, e.unit).at \in Nat /\ e.at \in Nat
    BY <1>1 DEF Exp
  <1>3. UpTo(b, e) = IF AtNow(b, e.unit).at >= e.at THEN e ELSE AtNow(b, e.unit)
    BY DEF UpTo, is_expired
  <1> QED BY <1>1, <1>2, <1>3

\* A linear distribution, whose times are of one unit.
LEMMA LinearForm ==
    ASSUME NEW d, Sound(d), IsLinear(d.rate)
    PROVE  /\ d.rate # Paused /\ d.rate # Immediate
           /\ d.rate.amount \in Nat \ {0} /\ d.rate.duration \in Nat \ {0}
           /\ d.rate.unit \in {"height", "time"}
           /\ d.started_at \in Exp /\ d.ends_at \in Exp /\ d.last_updated \in Exp
           /\ d.started_at.at \in Nat /\ d.ends_at.at \in Nat /\ d.last_updated.at \in Nat
           /\ d.started_at = Never <=> d.ends_at = Never
           /\ d.started_at # Never => d.started_at.unit = d.rate.unit /\ d.ends_at.unit = d.rate.unit
           /\ d.funded \in Nat
           /\ Distributed(d)
                  = d.rate.amount * (get_exp_diff(d.last_updated, d.started_at) \div d.rate.duration)
           /\ get_total_rewards(d)
                  = (d.rate.amount * get_exp_diff(d.ends_at, d.started_at)) \div d.rate.duration
  <1>1. d \in Dist /\ d.rate \in Rates
    BY DEF Sound, Dist
  <1>2. /\ d.rate # Paused /\ d.rate # Immediate
        /\ d.rate.amount \in Nat \ {0} /\ d.rate.duration \in Nat \ {0}
        /\ d.rate.unit \in {"height", "time"}
    BY <1>1, RateForms DEF Sound
  <1>3. /\ d.started_at \in Exp /\ d.ends_at \in Exp /\ d.last_updated \in Exp /\ d.funded \in Nat
    BY <1>1 DEF Dist
  <1>4. d.started_at.at \in Nat /\ d.ends_at.at \in Nat /\ d.last_updated.at \in Nat
    BY <1>3 DEF Exp
  <1>5. \/ d.started_at = Never /\ d.ends_at = Never
        \/ /\ d.started_at.unit = d.rate.unit /\ d.ends_at.unit = d.rate.unit
           /\ d.started_at # Never /\ d.ends_at # Never
    BY <1>2, NeverType DEF Sound
  <1>6. Distributed(d) = d.rate.amount * (get_exp_diff(d.last_updated, d.started_at) \div d.rate.duration)
    BY <1>2 DEF Distributed
  <1>7. get_total_rewards(d) = (d.rate.amount * get_exp_diff(d.ends_at, d.started_at)) \div d.rate.duration
    BY <1>2 DEF get_total_rewards
  <1> QED BY <1>2, <1>3, <1>4, <1>5, <1>6, <1>7

\* The other two forms.
LEMMA OtherForm ==
    ASSUME NEW d, Sound(d), ~IsLinear(d.rate)
    PROVE  /\ d.funded \in Nat
           /\ \/ d.rate = Paused /\ d.rate # Immediate /\ Distributed(d) = 0 /\ get_total_rewards(d) = 0
                 /\ d.total_earned = 0
              \/ d.rate = Immediate /\ d.rate # Paused /\ Distributed(d) = d.funded
                 /\ get_total_rewards(d) = d.funded
  <1>1. d.rate \in Rates /\ d.funded \in Nat
    BY DEF Sound, Dist
  <1>2. d.rate = Paused \/ d.rate = Immediate
    BY <1>1, RateForms
  <1>3. Paused # Immediate /\ Paused.kind = "paused"
    BY DEF Paused, Immediate
  <1> QED BY <1>1, <1>2, <1>3 DEF Distributed, get_total_rewards, Sound

LEMMA LeftInt ==
    ASSUME NEW d, Sound(d)
    PROVE  Distributed(d) \in Nat /\ Left(d) \in Int /\ d.funded \in Nat
           /\ Left(d) = d.funded - Distributed(d)
  <1>1. CASE IsLinear(d.rate)
    <2>1. get_exp_diff(d.last_updated, d.started_at) \in Nat
      BY <1>1, LinearForm, TimesDiffer
    <2>2. get_exp_diff(d.last_updated, d.started_at) \div d.rate.duration \in Nat
      BY <1>1, <2>1, LinearForm, Ratio
    <2>3. Distributed(d) \in Nat
      BY <1>1, <2>2, LinearForm, Product
    <2> QED BY <1>1, <2>3, LinearForm DEF Left
  <1>2. CASE ~IsLinear(d.rate)
    BY <1>2, OtherForm DEF Left
  <1> QED BY <1>1, <1>2

\* Earnings are rounded down, to the power that counts.
LEMMA GainPaid ==
    ASSUME NEW d, Sound(d), NEW b \in BlockType, NEW total \in Nat, NEW gain,
           gain = get_active_total_earned_puvp(d, b) - d.total_earned,
           gain = 0 \/ total <= get_prev_block_total_vp(b, d.vp_contract)
    PROVE  gain \in Nat /\ Brought(d, b) \in Nat /\ total * gain <= ScaleFactor * Brought(d, b)
  <1> DEFINE latest == get_latest_reward_distribution_time(d, b)
             elapsed == get_exp_diff(latest, d.last_updated)
             power == get_prev_block_total_vp(b, d.vp_contract)
             brought == Brought(d, b)
  <1>1. gain \in Nat
    BY Accrues
  <1>2. brought \in Nat /\ (IsLinear(d.rate) => brought = d.rate.amount * (elapsed \div d.rate.duration))
    <2>1. CASE IsLinear(d.rate)
      <3>1. latest \in Exp
        BY <2>1, LinearForm, Times DEF get_latest_reward_distribution_time
      <3> HIDE DEF latest
      <3>2. elapsed \in Nat
        BY <2>1, <3>1, LinearForm, TimesDiffer
      <3>3. brought = d.rate.amount * (elapsed \div d.rate.duration)
        BY <2>1 DEF Brought, latest
      <3> HIDE DEF elapsed, brought
      <3>4. elapsed \div d.rate.duration \in Nat
        BY <2>1, <3>2, LinearForm, Ratio
      <3> QED BY <2>1, <3>3, <3>4, LinearForm, Product
    <2>2. CASE ~IsLinear(d.rate)
      BY <2>2 DEF Brought
    <2> QED BY <2>1, <2>2
  <1>3. power \in Nat /\ ScaleFactor \in Nat \ {0} /\ d.total_earned \in Nat
    BY PrevTotal, EarnedNat, RewardsAssumption DEF Sound, Dist
  <1>4. ScaleFactor * brought \in Nat
    BY <1>2, <1>3, Product
  <1>5. CASE gain = 0
    BY <1>2, <1>4, <1>5
  <1>6. CASE gain # 0
    <2>1. IsLinear(d.rate)
      <3>1. ASSUME ~IsLinear(d.rate) PROVE FALSE
        <4>1. d.rate = Paused \/ d.rate = Immediate
          BY <3>1, OtherForm
        <4>2. d.rate = Paused => d.total_earned = 0
          BY DEF Sound, Paused
        <4>3. get_active_total_earned_puvp(d, b) = d.total_earned
          BY <4>1, <4>2 DEF get_active_total_earned_puvp, Paused, Immediate
        <4> QED BY <1>3, <1>6, <4>3
      <3> QED BY <3>1
    <2>2. d.rate # Paused /\ d.rate # Immediate
      BY <2>1, LinearForm
    <2>3. power # 0 /\ gain = (d.rate.amount * (elapsed \div d.rate.duration) * ScaleFactor) \div power
      <3> DEFINE more == (d.rate.amount * (elapsed \div d.rate.duration) * ScaleFactor) \div power
      <3>1. get_active_total_earned_puvp(d, b)
                = IF elapsed = 0 \/ power = 0 THEN d.total_earned ELSE d.total_earned + more
        BY <2>2 DEF get_active_total_earned_puvp
      <3>2. ~(elapsed = 0 \/ power = 0)
        BY <1>3, <1>6, <3>1
      <3>3. power \in Nat \ {0} /\ brought * ScaleFactor \in Nat
        BY <1>2, <1>3, <3>2, Product
      <3>4. more \in Nat
        <4>1. more = (brought * ScaleFactor) \div power
          BY <1>2, <2>1
        <4> HIDE DEF more, brought, power
        <4> QED BY <3>3, <4>1, Ratio
      <3> HIDE DEF more, elapsed, power
      <3>5. gain = more
        BY <1>3, <3>1, <3>2, <3>4
      <3> QED BY <3>2, <3>5 DEF more
    <2>4. gain = (brought * ScaleFactor) \div power
      BY <1>2, <2>1, <2>3
    <2> HIDE DEF brought, power, elapsed, latest
    <2>5. brought * ScaleFactor \in Nat /\ brought * ScaleFactor = ScaleFactor * brought
      BY <1>2, <1>3, Product
    <2>6. power * gain <= ScaleFactor * brought
      <3>1. power \in Nat \ {0}
        BY <1>3, <2>3
      <3> QED BY <2>4, <2>5, <3>1, FloorBounds
    <2>7. total <= power
      BY <1>6 DEF power
    <2>8. gain * total <= gain * power
      <3>1. total \in Int /\ power \in Int
        BY <1>3
      <3> QED BY <1>1, <2>7, <3>1, Scale
    <2>9. /\ gain * total = total * gain /\ gain * power = power * gain
          /\ total * gain \in Nat /\ power * gain \in Nat
      BY <1>1, <1>3, Product
    <2> QED BY <1>1, <1>2, <1>4, <2>6, <2>8, <2>9 DEF brought
  <1> QED BY <1>1, <1>2, <1>5, <1>6

\* The last update is brought up to the block, or to the end of the epoch.
LEMMA BumpForm ==
    ASSUME NEW d, Sound(d), NEW b \in BlockType, NEW total \in Nat,
           d.rate.kind = "paused" => total = 0,
           NEW e, e = bump_last_updated([d EXCEPT !.total_earned = total], b)
    PROVE  /\ Updatable(e) /\ Sound(e) /\ e.total_earned = total
           /\ e.rate = d.rate /\ e.started_at = d.started_at /\ e.ends_at = d.ends_at
           /\ e.last_updated = IF d.ends_at = Never THEN Never ELSE UpTo(b, d.ends_at)
           /\ e.funded = d.funded /\ e.historical = d.historical /\ e.denom = d.denom
           /\ e.vp_contract = d.vp_contract /\ e.hook_caller = d.hook_caller
  <1>1. Updatable(e) /\ d \in Dist
    BY Bumped DEF Sound
  <1> DEFINE updated == IF d.ends_at = Never THEN Never ELSE UpTo(b, d.ends_at)
  <1>2. e = [d EXCEPT !.total_earned = total, !.last_updated = updated]
    BY <1>1 DEF bump_last_updated, Dist
  <1> HIDE DEF updated
  <1>3. /\ e.rate = d.rate /\ e.started_at = d.started_at /\ e.ends_at = d.ends_at
        /\ e.total_earned = total /\ e.historical = d.historical /\ e.last_updated = updated
        /\ e.vp_contract = d.vp_contract /\ e.funded = d.funded /\ e.denom = d.denom
        /\ e.hook_caller = d.hook_caller
    BY <1>1, <1>2 DEF Dist
  <1> QED BY <1>1, <1>3 DEF updated, Updatable

\* Complete periods since the last update are among those since the start of the epoch.
LEMMA Advances ==
    ASSUME NEW d, Sound(d), Follows(d), NEW b \in BlockType, NEW e, Sound(e),
           e.rate = d.rate, e.started_at = d.started_at, e.ends_at = d.ends_at, e.funded = d.funded,
           e.last_updated = IF d.ends_at = Never THEN Never ELSE UpTo(b, d.ends_at),
           IsLinear(d.rate) /\ d.started_at # Never =>
               /\ d.started_at.at <= UpTo(b, d.ends_at).at
               /\ (d.last_updated.at - d.started_at.at) \div d.rate.duration
                      <= (UpTo(b, d.ends_at).at - d.started_at.at) \div d.rate.duration
    PROVE  Distributed(d) + Brought(d, b) <= Distributed(e) /\ Follows(e)
  <1>1. CASE ~IsLinear(d.rate)
    <2>1. Distributed(e) = Distributed(d) /\ Brought(d, b) = 0 /\ Distributed(d) \in Nat
      BY <1>1, LeftInt DEF Distributed, Brought, IsLinear, Paused, Immediate, Sound, Dist, Rates
    <2> QED BY <1>1, <2>1 DEF Follows
  <1>2. CASE IsLinear(d.rate) /\ d.started_at = Never
    <2>1. d.ends_at = Never /\ d.last_updated = Never /\ e.last_updated = Never
      BY <1>2, LinearForm DEF Follows
    <2>2. Distributed(e) = Distributed(d)
      BY <1>2, <2>1, LinearForm
    <2>3. Brought(d, b) = 0
      <3>1. get_latest_reward_distribution_time(d, b) = Never
        BY <2>1 DEF get_latest_reward_distribution_time
      <3>2. get_exp_diff(Never, Never) = 0
        BY DEF get_exp_diff, Never
      <3>3. Brought(d, b) = d.rate.amount * (0 \div d.rate.duration)
        BY <1>2, <2>1, <3>1, <3>2 DEF Brought
      <3>4. d.rate.amount \in Nat /\ d.rate.duration \in Nat \ {0}
        BY <1>2, LinearForm
      <3>5. 0 \div d.rate.duration = 0
        BY <3>4
      <3> QED BY <3>3, <3>4, <3>5
    <2> QED BY <1>2, <2>1, <2>2, <2>3, LeftInt DEF Follows
  <1>3. CASE IsLinear(d.rate) /\ d.started_at # Never
    <2> DEFINE a == d.rate.amount
               q == d.rate.duration
               from == d.started_at.at
               last == d.last_updated.at
               now == UpTo(b, d.ends_at).at
               elapsed == IF now > last THEN now - last ELSE 0
    <2>1. /\ a \in Nat /\ q \in Nat \ {0} /\ from \in Nat /\ last \in Nat /\ from <= last
          /\ d.ends_at # Never /\ d.ends_at \in Exp
      BY <1>3, LinearForm DEF Follows
    <2>2. now \in Nat /\ UpTo(b, d.ends_at).unit = d.rate.unit /\ e.last_updated = UpTo(b, d.ends_at)
      BY <1>3, <2>1, Earlier, LinearForm
    <2>3. from <= now /\ (last - from) \div q <= (now - from) \div q
      BY <1>3
    <2>4. Distributed(d) = a * ((last - from) \div q)
      <3>1. get_exp_diff(d.last_updated, d.started_at) = last - from
        BY <2>1 DEF get_exp_diff
      <3> QED BY <1>3, <3>1, LinearForm
    <2>5. Distributed(e) = a * ((now - from) \div q)
      <3>1. get_exp_diff(e.last_updated, e.started_at) = now - from
        BY <2>1, <2>2, <2>3 DEF get_exp_diff
      <3>2. IsLinear(e.rate)
        BY <1>3
      <3>3. Distributed(e) = e.rate.amount * (get_exp_diff(e.last_updated, e.started_at) \div e.rate.duration)
        BY <3>2, LinearForm
      <3> QED BY <3>1, <3>3
    <2>6. Brought(d, b) = a * (elapsed \div q)
      <3>1. get_latest_reward_distribution_time(d, b) = UpTo(b, d.ends_at)
        BY <2>1 DEF get_latest_reward_distribution_time
      <3> QED BY <1>3, <3>1 DEF Brought, get_exp_diff
    <2>7. Follows(e)
      BY <1>3, <2>2, <2>3 DEF Follows
    <2> HIDE DEF a, q, from, last, now, elapsed
    <2>8. (last - from) \div q + elapsed \div q <= (now - from) \div q
          /\ (last - from) \div q \in Nat /\ elapsed \div q \in Nat /\ (now - from) \div q \in Nat
      <3>1. last - from \in Nat /\ now - from \in Nat
        BY <2>1, <2>2, <2>3
      <3>2. CASE now > last
        <4>1. elapsed \in Nat /\ now - from = (last - from) + elapsed
          BY <2>1, <2>2, <3>2 DEF elapsed
        <4> QED BY <2>1, <3>1, <4>1, PeriodsAdd
      <3>3. CASE ~(now > last)
        <4>1. elapsed = 0 /\ 0 \in Nat
          BY <3>3 DEF elapsed
        <4>2. 0 \div q = 0
          BY <2>1
        <4>3. (last - from) \div q \in Nat /\ (now - from) \div q \in Nat
          BY <2>1, <3>1, Ratio
        <4> QED BY <2>3, <4>1, <4>2, <4>3
      <3> QED BY <3>2, <3>3
    <2> DEFINE m == (last - from) \div q
               n == elapsed \div q
               k == (now - from) \div q
    <2>9. a * (m + n) <= a * k
      <3>1. m + n \in Int /\ k \in Int /\ m + n <= k
        BY <2>8
      <3> HIDE DEF m, n, k
      <3> QED BY <2>1, <3>1, Scale
    <2>10. a * (m + n) = a * m + a * n
      <3>1. m \in Nat /\ n \in Nat
        BY <2>8
      <3> HIDE DEF m, n, k
      <3> QED BY <2>1, <3>1
    <2> QED BY <2>4, <2>5, <2>6, <2>7, <2>9, <2>10
  <1> QED BY <1>1, <1>2, <1>3

\* Bounds on rounded division.
LEMMA FloorAtLeast ==
    ASSUME NEW x \in Nat, NEW d \in Nat \ {0}, NEW k \in Nat, d * k <= x
    PROVE  k <= x \div d
  <1> DEFINE m == x \div d
  <1>1. m \in Nat /\ x < d * m + d
    BY FloorBounds
  <1> HIDE DEF m
  <1>2. ~(m + 1 <= k)
    <2>1. ASSUME m + 1 <= k PROVE FALSE
      <3>1. d * (m + 1) <= d * k
        <4>1. d \in Nat /\ m + 1 \in Int /\ k \in Int
          BY <1>1
        <4> QED BY <2>1, <4>1, Scale
      <3>2. d * (m + 1) = d * m + d /\ d * m \in Nat /\ d * k \in Nat
        BY <1>1
      <3> QED BY <1>1, <3>1, <3>2
    <2> QED BY <2>1
  <1>3. k <= m
    BY <1>1, <1>2
  <1> QED BY <1>3 DEF m

LEMMA FloorAtMost ==
    ASSUME NEW x \in Nat, NEW d \in Nat \ {0}, NEW k \in Nat, x <= d * k
    PROVE  x \div d <= k
  <1> DEFINE m == x \div d
  <1>1. m \in Nat /\ d * m <= x
    BY FloorBounds
  <1> HIDE DEF m
  <1>2. d * m <= d * k
    BY <1>1
  <1>3. m <= k
    <2>1. m \in Int /\ k \in Int
      BY <1>1
    <2> QED BY <1>2, <2>1, Cancel
  <1> QED BY <1>3 DEF m

\* An epoch is no longer than its funds last, and has the periods that they are enough for.
LEMMA EpochFunded ==
    ASSUME NEW r \in Rates, validate(r), IsLinear(r), NEW started \in Exp, started # Never,
           NEW funded \in Nat, NEW ends, ends = EndFor(r, started, funded)
    PROVE  /\ ends.unit = r.unit /\ ends.at \in Nat /\ started.at <= ends.at
           /\ (r.amount * (ends.at - started.at)) \div r.duration <= funded
           /\ \A k \in Nat : r.amount * k <= funded => r.duration * k <= ends.at - started.at
  <1> DEFINE a == r.amount
             q == r.duration
             D == DecimalOne
             ratio == (funded * D) \div a
             period == (q * ratio) \div D
  <1>1. a \in Nat \ {0} /\ q \in Nat \ {0} /\ D \in Nat \ {0} /\ started.at \in Nat
    BY RateForms, RewardsAssumption DEF validate, Exp
  <1>2. ends = At(r.unit, started.at + period)
    BY DEF EndFor, get_funded_period_duration
  <1>3. ratio \in Nat /\ a * ratio <= funded * D /\ funded * D \in Nat
    <2>1. funded * D \in Nat
      BY <1>1, Product
    <2> HIDE DEF a, D
    <2> QED BY <1>1, <2>1, FloorBounds
  <1>4. ends.unit = r.unit /\ ends.at = started.at + period
    BY <1>2 DEF At
  <1> HIDE DEF a, q, D
  <1>5. \A k \in Nat : a * k <= funded => k * D <= ratio
    <2>1. SUFFICES ASSUME NEW k \in Nat, a * k <= funded PROVE k * D <= ratio
      BY Zenon
    <2>2. D * (a * k) <= D * funded
      <3>1. a * k \in Int
        BY <1>1
      <3> QED BY <1>1, <2>1, <3>1, Scale
    <2>3. a * (k * D) = D * (a * k) /\ D * funded = funded * D /\ k * D \in Nat
      BY <1>1
    <2> QED BY <1>1, <1>3, <2>2, <2>3, FloorAtLeast
  <1> HIDE DEF ratio
  <1>6. period \in Nat /\ D * period <= q * ratio /\ q * ratio \in Nat
    <2>1. q * ratio \in Nat
      BY <1>1, <1>3, Product
    <2> QED BY <1>1, <2>1, FloorBounds
  <1>7. \A k \in Nat : a * k <= funded => q * k <= period
    <2>1. SUFFICES ASSUME NEW k \in Nat, a * k <= funded PROVE q * k <= period
      BY Zenon
    <2>2. k * D <= ratio
      BY <1>5, <2>1
    <2>3. q * (k * D) <= q * ratio
      <3>1. k * D \in Int
        BY <1>1
      <3> QED BY <1>1, <1>3, <2>2, <3>1, Scale
    <2>4. q * (k * D) = D * (q * k) /\ q * k \in Nat
      BY <1>1
    <2> QED BY <1>1, <1>6, <2>3, <2>4, FloorAtLeast
  <1> HIDE DEF period
  <1>8. a * period <= q * funded
    <2>1. a * (D * period) <= a * (q * ratio)
      <3>1. D * period \in Int /\ q * ratio \in Int
        BY <1>1, <1>6
      <3> QED BY <1>1, <1>6, <3>1, Scale
    <2>2. q * (a * ratio) <= q * (funded * D)
      <3>1. a * ratio \in Int /\ funded * D \in Int
        BY <1>1, <1>3
      <3> QED BY <1>1, <1>3, <3>1, Scale
    <2>3. a * (D * period) = D * (a * period)
      BY <1>1, <1>6
    <2>4. a * (q * ratio) = q * (a * ratio)
      BY <1>1, <1>3
    <2>5. q * (funded * D) = D * (q * funded)
      BY <1>1
    <2>6. a * period \in Nat /\ q * funded \in Nat
      BY <1>1, <1>6, Product
    <2>7. D * (a * period) \in Nat /\ q * (a * ratio) \in Nat /\ D * (q * funded) \in Nat
      <3>1. a * ratio \in Nat
        BY <1>1, <1>3, Product
      <3> QED BY <1>1, <2>6, <3>1, Product
    <2>8. D * (a * period) <= D * (q * funded)
      BY <2>1, <2>2, <2>3, <2>4, <2>5, <2>7
    <2>9. a * period \in Int /\ q * funded \in Int
      BY <2>6
    <2> QED BY <1>1, <2>8, <2>9, Cancel
  <1>9. (a * period) \div q <= funded
    <2>1. a * period \in Nat
      BY <1>1, <1>6, Product
    <2> QED BY <1>1, <1>8, <2>1, FloorAtMost
  <1>10. ends.at - started.at = period /\ ends.at \in Nat /\ started.at <= ends.at
    BY <1>1, <1>4, <1>6
  <1> QED BY <1>4, <1>7, <1>9, <1>10 DEF a, q

\* The block, or the end of the epoch if that is earlier, is not before the complete periods
\* that the epoch had when it was last brought up to date.
InTime(d, b) ==
    IsLinear(d.rate) /\ d.started_at # Never =>
        /\ d.started_at.at <= UpTo(b, d.ends_at).at
        /\ (d.last_updated.at - d.started_at.at) \div d.rate.duration
               <= (UpTo(b, d.ends_at).at - d.started_at.at) \div d.rate.duration

LEMMA TimelyInTime ==
    ASSUME NEW d, Sound(d), NEW b \in BlockType, Timely(d, b)
    PROVE  InTime(d, b)
  <1>1. SUFFICES ASSUME IsLinear(d.rate), d.started_at # Never
                 PROVE  /\ d.started_at.at <= UpTo(b, d.ends_at).at
                        /\ (d.last_updated.at - d.started_at.at) \div d.rate.duration
                               <= (UpTo(b, d.ends_at).at - d.started_at.at) \div d.rate.duration
    BY DEF InTime
  <1> DEFINE q == d.rate.duration
             from == d.started_at.at
             last == d.last_updated.at
             now == UpTo(b, d.ends_at).at
  <1>2. /\ q \in Nat \ {0} /\ from \in Nat /\ last \in Nat
        /\ d.ends_at # Never /\ d.ends_at \in Exp /\ d.ends_at.unit = d.rate.unit
    BY <1>1, LinearForm
  <1>3. from <= last /\ last <= d.ends_at.at /\ last <= AtNow(b, d.ends_at.unit).at
    BY <1>1, <1>2 DEF Timely, Follows
  <1>4. now \in Nat /\ last <= now
    BY <1>2, <1>3, Earlier
  <1> HIDE DEF q, from, last, now
  <1>5. last - from \in Nat /\ now - from \in Nat /\ last - from <= now - from /\ from <= now
    BY <1>2, <1>3, <1>4
  <1>6. (last - from) \div q <= (now - from) \div q
    BY <1>2, <1>5, FloorMonotone
  <1> QED BY <1>5, <1>6 DEF q, from, last, now

\* Rewards that are brought up to date, or only the last update is.
LEMMA BumpAffords ==
    ASSUME NEW d, Sound(d), NEW b \in BlockType, Follows(d), InTime(d, b),
           get_total_rewards(d) <= d.funded,
           NEW total, total \in {d.total_earned, get_active_total_earned_puvp(d, b)},
           NEW e, e = bump_last_updated([d EXCEPT !.total_earned = total], b)
    PROVE  Affords(d, e, b, 0) /\ Timely(e, b)
  <1>1. /\ total \in Nat /\ d.total_earned \in Nat /\ (d.rate.kind = "paused" => total = 0)
        /\ d.historical \in Nat
    BY Accrues, EarnedNat DEF Sound
  <1>2. /\ Sound(e) /\ e.total_earned = total /\ e.rate = d.rate /\ e.started_at = d.started_at
        /\ e.ends_at = d.ends_at /\ e.funded = d.funded /\ e.historical = d.historical
        /\ e.last_updated = IF d.ends_at = Never THEN Never ELSE UpTo(b, d.ends_at)
    BY <1>1, BumpForm
  <1>3. Distributed(d) + Brought(d, b) <= Distributed(e) /\ Follows(e)
    BY <1>2, Advances DEF InTime
  <1>4. Earned(e) - Earned(d) = total - d.total_earned
    BY <1>1, <1>2 DEF Earned
  <1>5. Brought(d, b) \in Nat
    <2>1. 0 \in Nat
      OBVIOUS
    <2>2. get_active_total_earned_puvp(d, b) - d.total_earned \in Nat
      BY Accrues
    <2> DEFINE gain == get_active_total_earned_puvp(d, b) - d.total_earned
    <2>3. gain = get_active_total_earned_puvp(d, b) - d.total_earned
      OBVIOUS
    <2>4. gain = 0 \/ 0 <= get_prev_block_total_vp(b, d.vp_contract)
      BY PrevTotal DEF Sound, Dist
    <2> QED BY <2>1, <2>3, <2>4, GainPaid
  <1>6. /\ Distributed(d) \in Nat /\ Distributed(e) \in Nat /\ d.funded \in Nat
        /\ Left(d) = d.funded - Distributed(d) /\ Left(e) = d.funded - Distributed(e)
    BY <1>2, LeftInt
  <1>7. Left(e) <= Left(d) - Brought(d, b) /\ Left(e) \in Int /\ Left(d) \in Int
    BY <1>3, <1>5, <1>6
  <1>8. Timely(e, b)
    <2>1. get_total_rewards(e) = get_total_rewards(d)
      BY <1>2 DEF get_total_rewards
    <2>2. ASSUME IsLinear(d.rate), d.started_at # Never
          PROVE  e.last_updated.at <= e.ends_at.at /\ e.last_updated.at <= AtNow(b, e.rate.unit).at
      <3>1. d.ends_at # Never /\ d.ends_at \in Exp /\ d.ends_at.unit = d.rate.unit
        BY <2>2, LinearForm
      <3> QED BY <1>2, <3>1, Earlier
    <2> QED BY <1>2, <1>3, <2>1, <2>2 DEF Timely
  <1>9. Affords(d, e, b, 0)
    <2>1. SUFFICES ASSUME NEW members \in Nat,
                          Earned(e) = Earned(d) \/ members <= get_prev_block_total_vp(b, d.vp_contract)
                   PROVE  members * (Earned(e) - Earned(d)) + ScaleFactor * Left(e)
                              <= ScaleFactor * (Left(d) + 0)
      BY DEF Affords
    <2> DEFINE gain == Earned(e) - Earned(d)
    <2>2. gain \in Nat /\ members * gain <= ScaleFactor * Brought(d, b)
      <3>1. CASE total = d.total_earned
        <4>1. gain = 0
          BY <1>1, <1>4, <3>1
        <4>2. members * 0 = 0 /\ ScaleFactor * Brought(d, b) \in Nat
          BY <1>5, RewardsAssumption, Product
        <4> HIDE DEF gain
        <4> QED BY <4>1, <4>2
      <3>2. CASE total = get_active_total_earned_puvp(d, b)
        <4>1. gain = get_active_total_earned_puvp(d, b) - d.total_earned
          BY <1>4, <3>2
        <4>2. gain = 0 \/ members <= get_prev_block_total_vp(b, d.vp_contract)
          BY <2>1, EarnedNat
        <4> HIDE DEF gain
        <4> QED BY <4>1, <4>2, GainPaid
      <3> QED BY <3>1, <3>2
    <2>3. ScaleFactor * Left(e) <= ScaleFactor * (Left(d) - Brought(d, b))
      <3>1. ScaleFactor \in Nat /\ Left(d) - Brought(d, b) \in Int
        BY <1>5, <1>7, RewardsAssumption
      <3> QED BY <1>7, <3>1, Scale
    <2>4. /\ ScaleFactor * (Left(d) - Brought(d, b)) = ScaleFactor * Left(d) - ScaleFactor * Brought(d, b)
          /\ ScaleFactor * Left(d) \in Int /\ ScaleFactor * Brought(d, b) \in Int /\ ScaleFactor * Left(e) \in Int
      BY <1>5, <1>7, RewardsAssumption
    <2>5. members * gain \in Int /\ Left(d) + 0 = Left(d)
      <3> HIDE DEF gain
      <3> QED BY <1>7, <2>2, Product
    <2> HIDE DEF gain
    <2>6. members * gain + ScaleFactor * Left(e) <= ScaleFactor * (Left(d) + 0)
      BY <2>2, <2>3, <2>4, <2>5
    <2> QED BY <2>6 DEF gain
  <1> QED BY <1>8, <1>9

\* What has been distributed was funded.
LEMMA LeftNat ==
    ASSUME NEW d, Sound(d), NEW b \in BlockType, Timely(d, b)
    PROVE  Left(d) \in Nat
  <1>1. Distributed(d) \in Nat /\ d.funded \in Nat /\ Left(d) = d.funded - Distributed(d)
    BY LeftInt
  <1>2. Distributed(d) <= d.funded
    <2>1. CASE ~IsLinear(d.rate)
      BY <1>1, <2>1, OtherForm
    <2>2. CASE IsLinear(d.rate)
      <3> DEFINE a == d.rate.amount
                 q == d.rate.duration
                 past == get_exp_diff(d.last_updated, d.started_at)
                 whole == get_exp_diff(d.ends_at, d.started_at)
      <3>1. a \in Nat /\ q \in Nat \ {0} /\ past \in Nat /\ whole \in Nat
        BY <2>2, LinearForm, TimesDiffer
      <3>2. past <= whole
        <4>1. CASE d.started_at = Never
          <5>1. d.last_updated = Never /\ d.ends_at = Never
            BY <2>2, <4>1, LinearForm DEF Timely, Follows
          <5> QED BY <3>1, <5>1
        <4>2. CASE d.started_at # Never
          <5>1. d.last_updated.at <= d.ends_at.at /\ d.started_at.at <= d.last_updated.at
            BY <2>2, <4>2 DEF Timely, Follows
          <5>2. d.last_updated.at \in Nat /\ d.ends_at.at \in Nat /\ d.started_at.at \in Nat
            BY <2>2, LinearForm
          <5> QED BY <5>1, <5>2 DEF get_exp_diff
        <4> QED BY <4>1, <4>2
      <3>3. Distributed(d) = a * (past \div q) /\ get_total_rewards(d) = (a * whole) \div q
        BY <2>2, LinearForm
      <3> HIDE DEF a, q, past, whole
      <3>4. a * (past \div q) <= (a * past) \div q /\ (a * past) \div q \in Nat
        BY <3>1, PeriodsFit
      <3>5. (a * past) \div q <= (a * whole) \div q /\ (a * whole) \div q \in Nat
        <4>1. a * past <= a * whole
          <5>1. past \in Int /\ whole \in Int
            BY <3>1
          <5> QED BY <3>1, <3>2, <5>1, Scale
        <4>2. a * past \in Nat /\ a * whole \in Nat
          BY <3>1, Product
        <4> QED BY <3>1, <4>1, <4>2, FloorMonotone, Ratio
      <3>6. get_total_rewards(d) <= d.funded
        BY DEF Timely
      <3> QED BY <1>1, <3>3, <3>4, <3>5, <3>6
    <2> QED BY <2>1, <2>2
  <1> QED BY <1>1, <1>2

\* An amount that is distributed at once is rounded down, to the power that counts.
LEMMA AtOncePaid ==
    ASSUME NEW d, Sound(d), d.rate = Immediate, NEW b \in BlockType, NEW delta \in Nat,
           NEW e, e \in update_immediate_emission_total_earned_puvp(d, b, delta), NEW total \in Nat,
           e.total_earned = d.total_earned \/ total <= get_prev_block_total_vp(b, d.vp_contract)
    PROVE  /\ e = [d EXCEPT !.total_earned = e.total_earned] /\ e.total_earned \in Nat
           /\ d.total_earned <= e.total_earned
           /\ total * (e.total_earned - d.total_earned) <= ScaleFactor * delta
  <1> DEFINE power == get_prev_block_total_vp(b, d.vp_contract)
             gain == (delta * ScaleFactor) \div power
             more == e.total_earned
  <1>1. d \in Dist /\ d.vp_contract \in VpContracts /\ d.total_earned \in Nat
    BY DEF Sound, Dist
  <1>2. power # 0 /\ e = [d EXCEPT !.total_earned = @ + gain]
    BY DEF update_immediate_emission_total_earned_puvp, Ok
  <1>3. power \in Nat \ {0} /\ ScaleFactor \in Nat
    BY <1>1, <1>2, PrevTotal, RewardsAssumption
  <1>4. delta * ScaleFactor \in Nat /\ delta * ScaleFactor = ScaleFactor * delta
    BY <1>3, Product
  <1>5. total <= power \/ more = d.total_earned
    BY <1>3
  <1> HIDE DEF power
  <1>6. gain \in Nat /\ power * gain <= delta * ScaleFactor
    BY <1>3, <1>4, FloorBounds
  <1> HIDE DEF gain
  <1>7. more = d.total_earned + gain
    BY <1>1, <1>2 DEF Dist
  <1>8. e = [d EXCEPT !.total_earned = more] /\ more \in Nat /\ d.total_earned <= more
    BY <1>1, <1>2, <1>6, <1>7
  <1> HIDE DEF more
  <1>9. more - d.total_earned = gain
    BY <1>1, <1>6, <1>7
  <1>10. total * gain <= ScaleFactor * delta
    <2>1. CASE total <= power
      <3>1. gain * total <= gain * power
        <4>1. total \in Int /\ power \in Int
          BY <1>3
        <4> QED BY <1>6, <2>1, <4>1, Scale
      <3>2. gain * total = total * gain /\ gain * power = power * gain
            /\ total * gain \in Nat /\ power * gain \in Nat
        BY <1>3, <1>6, Product
      <3> QED BY <1>4, <1>6, <3>1, <3>2
    <2>2. CASE more = d.total_earned
      <3>1. gain = 0
        BY <1>1, <1>6, <1>7, <2>2
      <3>2. total * 0 = 0
        OBVIOUS
      <3> QED BY <1>4, <3>1, <3>2
    <2> QED BY <1>5, <2>1, <2>2
  <1> QED BY <1>8, <1>9, <1>10 DEF more

LEMMA ExtendedForm ==
    ASSUME NEW d, Sound(d), NEW b \in BlockType, NEW amount \in Nat,
           NEW e, e = Extended(d, b, amount)
    PROVE  /\ Sound(e) /\ e.rate = d.rate /\ e.vp_contract = d.vp_contract
           /\ e.last_updated = d.last_updated /\ e.total_earned = d.total_earned
           /\ Earned(e) = Earned(d) /\ e.denom = d.denom /\ e.hook_caller = d.hook_caller
           /\ e.funded = IF Restarts(d, b) THEN amount ELSE d.funded + amount
           /\ e.started_at = IF Restarts(d, b) THEN StartFor(d.rate, b) ELSE d.started_at
           /\ e.ends_at = EndFor(d.rate, e.started_at, e.funded)
  <1> DEFINE started == IF Restarts(d, b) THEN StartFor(d.rate, b) ELSE d.started_at
             funded == IF Restarts(d, b) THEN amount ELSE d.funded + amount
             ends == EndFor(d.rate, started, funded)
  <1>1. e = [d EXCEPT !.funded = funded, !.started_at = started, !.ends_at = ends]
    BY DEF Extended
  <1>2. Continues(d, e) /\ Earned(e) = Earned(d)
    BY ExtendedKeeps
  <1>3. d \in Dist
    BY DEF Sound
  <1> HIDE DEF started, funded, ends
  <1>4. /\ e.rate = d.rate /\ e.vp_contract = d.vp_contract
        /\ e.last_updated = d.last_updated /\ e.total_earned = d.total_earned
        /\ e.denom = d.denom /\ e.hook_caller = d.hook_caller
        /\ e.funded = funded /\ e.started_at = started /\ e.ends_at = ends
    BY <1>1, <1>3 DEF Dist
  <1> QED BY <1>2, <1>4 DEF Continues, started, funded, ends

\* An epoch that starts with amount has all of it left.
LEMMA EpochStarts ==
    ASSUME NEW e, Sound(e), IsLinear(e.rate), NEW b \in BlockType,
           e.started_at = AtNow(b, e.rate.unit), e.ends_at = EndFor(e.rate, e.started_at, e.funded),
           e.last_updated = e.started_at
    PROVE  /\ Timely(e, b) /\ Left(e) = e.funded
           /\ e.started_at # Never /\ e.ends_at # Never /\ UpTo(b, e.ends_at) = e.started_at
  <1>1. e.funded \in Nat /\ e.rate.amount \in Nat /\ e.rate.duration \in Nat \ {0} /\ e.rate \in Rates
        /\ validate(e.rate) /\ e.rate.unit \in {"height", "time"} /\ e.started_at \in Exp
    BY LinearForm DEF validate, Sound, Dist
  <1>2. e.started_at.unit = e.rate.unit /\ e.started_at # Never
    BY <1>1, NeverType DEF AtNow, At
  <1>3. /\ e.ends_at.unit = e.rate.unit /\ e.ends_at.at \in Nat /\ e.started_at.at <= e.ends_at.at
        /\ (e.rate.amount * (e.ends_at.at - e.started_at.at)) \div e.rate.duration <= e.funded
    BY <1>1, <1>2, EpochFunded
  <1>4. e.started_at.at \in Nat
    BY <1>1 DEF Exp
  <1>5. get_exp_diff(e.ends_at, e.started_at) = e.ends_at.at - e.started_at.at
    BY <1>3, <1>4 DEF get_exp_diff
  <1>6. get_total_rewards(e) <= e.funded
    BY <1>3, <1>5, LinearForm
  <1>7. Follows(e)
    BY <1>2, <1>4 DEF Follows
  <1>8. Timely(e, b)
    BY <1>3, <1>4, <1>6, <1>7 DEF Timely
  <1>9. Left(e) = e.funded
    <2>1. get_exp_diff(e.last_updated, e.started_at) = 0
      BY <1>4 DEF get_exp_diff
    <2>2. Distributed(e) = e.rate.amount * (0 \div e.rate.duration)
      BY <2>1, LinearForm
    <2>3. 0 \div e.rate.duration = 0
      BY <1>1
    <2> QED BY <1>1, <2>2, <2>3 DEF Left
  <1>10. e.ends_at # Never
    BY <1>1, <1>3, NeverType
  <1>11. UpTo(b, e.ends_at) = e.started_at
    <2>1. e.ends_at \in Exp
      BY LinearForm
    <2>2. AtNow(b, e.ends_at.unit) = e.started_at
      BY <1>3
    <2>3. e.ends_at.at = e.started_at.at => e.ends_at = e.started_at
      BY <1>1, <1>2, <1>3, <2>1 DEF Exp
    <2> QED BY <1>3, <1>4, <2>2, <2>3 DEF UpTo, is_expired
  <1> QED BY <1>2, <1>8, <1>9, <1>10, <1>11

\* Funds that are added to an epoch leave time for the periods that it had.
LEMMA ExtendedInTime ==
    ASSUME NEW d, Sound(d), NEW b \in BlockType, Timely(d, b), IsLinear(d.rate), ~Restarts(d, b),
           NEW amount \in Nat, NEW e, e = Extended(d, b, amount)
    PROVE  /\ Follows(e) /\ InTime(e, b) /\ get_total_rewards(e) <= e.funded
           /\ Left(e) = Left(d) + amount
  <1>1. /\ Sound(e) /\ e.rate = d.rate /\ e.last_updated = d.last_updated
        /\ e.started_at = d.started_at /\ e.funded = d.funded + amount
        /\ e.ends_at = EndFor(d.rate, d.started_at, e.funded)
    BY ExtendedForm
  <1>2. Follows(e)
    BY <1>1 DEF Timely, Follows
  <1>3. Left(e) = Left(d) + amount
    <2>1. Distributed(e) = Distributed(d)
      BY <1>1 DEF Distributed, Timely, IsLinear, Paused, Immediate
    <2> QED BY <1>1, <2>1, LeftInt
  <1>4. CASE d.started_at = Never
    <2>1. e.ends_at = Never
      BY <1>1, <1>4 DEF EndFor
    <2>2. get_exp_diff(Never, Never) = 0
      BY DEF get_exp_diff, Never
    <2>3. get_total_rewards(e) = (e.rate.amount * 0) \div e.rate.duration
      BY <1>1, <1>4, <2>1, <2>2, LinearForm
    <2>4. e.rate.amount \in Nat /\ e.rate.duration \in Nat \ {0} /\ e.funded \in Nat
      BY <1>1, LinearForm
    <2>5. e.rate.amount * 0 = 0 /\ 0 \div e.rate.duration = 0
      BY <2>4
    <2> QED BY <1>1, <1>2, <1>3, <1>4, <2>3, <2>4, <2>5 DEF InTime
  <1>5. CASE d.started_at # Never
    <2> DEFINE a == d.rate.amount
               q == d.rate.duration
               from == d.started_at.at
               last == d.last_updated.at
               ends == e.ends_at.at
               now == UpTo(b, e.ends_at).at
               k == (last - from) \div q
    <2>1. /\ a \in Nat /\ q \in Nat \ {0} /\ from \in Nat /\ last \in Nat /\ e.funded \in Nat
          /\ d.rate \in Rates /\ validate(d.rate) /\ d.started_at \in Exp /\ d.funded \in Nat
          /\ d.rate.unit \in {"height", "time"}
      BY <1>1, LinearForm DEF validate, Sound, Dist
    <2>2. /\ e.ends_at.unit = d.rate.unit /\ ends \in Nat /\ from <= ends
          /\ (a * (ends - from)) \div q <= e.funded
          /\ \A n \in Nat : a * n <= e.funded => q * n <= ends - from
      BY <1>1, <1>5, <2>1, EpochFunded
    <2>3. get_total_rewards(e) <= e.funded
      <3>1. get_exp_diff(e.ends_at, e.started_at) = ends - from
        BY <1>1, <2>1, <2>2 DEF get_exp_diff
      <3>2. get_total_rewards(e) = (e.rate.amount * get_exp_diff(e.ends_at, e.started_at)) \div e.rate.duration
        BY <1>1, LinearForm
      <3> QED BY <1>1, <2>2, <3>1, <3>2
    <2>4. from <= last /\ last <= AtNow(b, d.rate.unit).at
      BY <1>5 DEF Timely, Follows
    <2>5. /\ now \in Nat /\ AtNow(b, d.rate.unit).at \in Nat
          /\ now = ends \/ now = AtNow(b, d.rate.unit).at
      <3>1. e.ends_at # Never /\ e.ends_at \in Exp
        <4>1. e.ends_at \in Exp
          BY <1>1, LinearForm
        <4> QED BY <2>1, <2>2, <4>1, NeverType
      <3> QED BY <2>2, <3>1, Earlier
    <2>6. Distributed(d) = a * k
      <3>1. get_exp_diff(d.last_updated, d.started_at) = last - from
        BY <2>1, <2>4 DEF get_exp_diff
      <3> QED BY <3>1, LinearForm
    <2>7. a * k <= e.funded
      BY <1>1, <2>1, <2>6, LeftNat, LeftInt
    <2> HIDE DEF a, q, from, last, ends, now, k
    <2>8. last - from \in Nat
      BY <2>1, <2>4
    <2>9. k \in Nat /\ q * k <= last - from
      BY <2>1, <2>8, FloorBounds DEF k
    <2>10. q * k <= ends - from
      BY <2>2, <2>7, <2>9
    <2>11. from <= now /\ q * k <= now - from
      <3>1. q * k \in Nat
        BY <2>1, <2>9, Product
      <3> QED BY <2>1, <2>2, <2>4, <2>5, <2>9, <2>10, <3>1
    <2>12. k <= (now - from) \div q
      <3>1. now - from \in Nat
        BY <2>1, <2>5, <2>11
      <3> QED BY <2>1, <2>9, <2>11, <3>1, FloorAtLeast
    <2>13. InTime(e, b)
      BY <1>1, <2>11, <2>12 DEF InTime, a, q, from, last, ends, now, k
    <2> QED BY <1>2, <1>3, <2>3, <2>13
  <1> QED BY <1>4, <1>5

LEMMA NothingEarned ==
    ASSUME NEW d, Sound(d), NEW e, Sound(e), NEW b, NEW amount \in Int,
           Earned(e) = Earned(d), Left(e) <= Left(d) + amount
    PROVE  Affords(d, e, b, amount)
  <1>1. SUFFICES ASSUME NEW total \in Nat
                 PROVE  total * (Earned(e) - Earned(d)) + ScaleFactor * Left(e)
                            <= ScaleFactor * (Left(d) + amount)
    BY DEF Affords
  <1>2. total * (Earned(e) - Earned(d)) = 0
    <2>1. Earned(e) - Earned(d) = 0 /\ total * 0 = 0
      BY EarnedNat
    <2> QED BY <2>1
  <1>3. ScaleFactor \in Nat /\ Left(e) \in Int /\ Left(d) + amount \in Int
    BY LeftInt, RewardsAssumption
  <1>4. ScaleFactor * Left(e) <= ScaleFactor * (Left(d) + amount)
    BY <1>3, Scale
  <1>5. ScaleFactor * Left(e) \in Int
    BY <1>3
  <1> QED BY <1>2, <1>4, <1>5

\* A distribution of all funds at once has nothing left.
LEMMA AtOnceTimely ==
    ASSUME NEW d, Sound(d), d.rate = Immediate, NEW b
    PROVE  Timely(d, b) /\ Left(d) = 0
  <1>1. ~IsLinear(d.rate) /\ d.rate # Paused
    BY DEF Immediate, Paused, IsLinear
  <1>2. d.funded \in Nat /\ Distributed(d) = d.funded /\ get_total_rewards(d) = d.funded
    BY <1>1, OtherForm
  <1> QED BY <1>1, <1>2 DEF Timely, Follows, Left

\* Funding.
LEMMA FundingAffords ==
    ASSUME NEW d, Sound(d), NEW b \in BlockType, Timely(d, b), NEW amount \in Nat,
           NEW f, f \in Fundings(d, b, amount), NEW e, e = bump_last_updated(f, b)
    PROVE  /\ Affords(d, e, b, amount) /\ Timely(e, b) /\ e.denom = d.denom
           /\ e.vp_contract = d.vp_contract /\ e.hook_caller = d.hook_caller
  <1> DEFINE g == Extended(d, b, amount)
             once == update_immediate_emission_total_earned_puvp(g, b, amount)
             active == get_active_total_earned_puvp(g, b)
             same == g.total_earned
  <1>1. /\ Sound(g) /\ g.rate = d.rate /\ g.vp_contract = d.vp_contract
        /\ g.last_updated = d.last_updated /\ g.total_earned = d.total_earned
        /\ Earned(g) = Earned(d) /\ g.denom = d.denom /\ g.hook_caller = d.hook_caller
        /\ g.funded = IF Restarts(d, b) THEN amount ELSE d.funded + amount
        /\ g.started_at = IF Restarts(d, b) THEN StartFor(d.rate, b) ELSE d.started_at
        /\ g.ends_at = EndFor(d.rate, g.started_at, g.funded)
    BY ExtendedForm
  <1>2. \/ d.rate = Immediate /\ f \in once
        \/ /\ IsContinuous(d) /\ ~Restarts(d, b) /\ IsLinear(d.rate)
           /\ f = [g EXCEPT !.total_earned = active]
        \/ f = g /\ d.rate # Immediate
    BY DEF Fundings, Ok, IsContinuous, IsLinear, Immediate
  <1>3. g = [g EXCEPT !.total_earned = same] /\ same \in Nat /\ (g.rate.kind = "paused" => same = 0)
    BY <1>1 DEF Sound, Dist
  <1>4. active \in Nat /\ (g.rate.kind = "paused" => active = 0)
    BY <1>1, Accrues
  <1>5. amount \in Int /\ Left(d) \in Nat
    BY LeftNat
  <1> HIDE DEF g, active, same
  <1>6. CASE d.rate = Immediate /\ f \in once
    <2> DEFINE more == f.total_earned
    <2>0. 0 \in Nat /\ (f.total_earned = g.total_earned \/ 0 <= get_prev_block_total_vp(b, g.vp_contract))
      BY <1>1, PrevTotal DEF Sound, Dist
    <2>1. f = [g EXCEPT !.total_earned = more] /\ more \in Nat
      <3>1. Sound(g) /\ g.rate = Immediate /\ f \in update_immediate_emission_total_earned_puvp(g, b, amount)
        BY <1>1, <1>6
      <3>2. f = [g EXCEPT !.total_earned = f.total_earned] /\ f.total_earned \in Nat
        BY <2>0, <3>1, AtOncePaid
      <3> QED BY <3>2
    <2>2. g.rate.kind = "paused" => more = 0
      BY <1>1, <1>6 DEF Immediate
    <2>3. /\ Sound(e) /\ e.total_earned = more /\ e.rate = g.rate /\ e.historical = g.historical
          /\ e.vp_contract = g.vp_contract /\ e.hook_caller = g.hook_caller /\ e.denom = g.denom
      <3> HIDE DEF more
      <3> QED BY <1>1, <2>1, <2>2, BumpForm
    <2>4. Timely(e, b) /\ Left(e) = 0 /\ Left(d) = 0
      BY <1>1, <1>6, <2>3, AtOnceTimely
    <2>5. Earned(e) - Earned(d) = more - g.total_earned
      BY <1>1, <2>1, <2>3, EarnedNat DEF Earned
    <2>6. Affords(d, e, b, amount)
      <3>1. SUFFICES ASSUME NEW total \in Nat,
                            Earned(e) = Earned(d) \/ total <= get_prev_block_total_vp(b, d.vp_contract)
                     PROVE  total * (Earned(e) - Earned(d)) + ScaleFactor * Left(e)
                                <= ScaleFactor * (Left(d) + amount)
        BY DEF Affords
      <3>2. f.total_earned = g.total_earned \/ total <= get_prev_block_total_vp(b, g.vp_contract)
        BY <1>1, <2>1, <2>5, <3>1, EarnedNat
      <3>3. total * (more - g.total_earned) <= ScaleFactor * amount
        BY <1>1, <1>6, <3>2, AtOncePaid
      <3>4. Left(d) + amount = amount /\ ScaleFactor * Left(e) = 0
        BY <2>4, RewardsAssumption
      <3>5. total * (more - g.total_earned) \in Int
        BY <1>1, <2>1, EarnedNat
      <3> QED BY <2>5, <3>3, <3>4, <3>5
    <2> QED BY <1>1, <2>3, <2>4, <2>6
  <1>7. CASE d.rate # Immediate
    <2>1. PICK total \in {same, active} : f = [g EXCEPT !.total_earned = total]
      BY <1>2, <1>3, <1>7
    <2>2. total \in Nat /\ (g.rate.kind = "paused" => total = 0)
      BY <1>3, <1>4, <2>1
    <2>3. /\ Sound(e) /\ e.total_earned = total /\ e.rate = g.rate /\ e.started_at = g.started_at
          /\ e.last_updated = (IF g.ends_at = Never THEN Never ELSE UpTo(b, g.ends_at))
          /\ e.historical = g.historical /\ e.ends_at = g.ends_at /\ e.funded = g.funded
          /\ e.vp_contract = g.vp_contract /\ e.hook_caller = g.hook_caller /\ e.denom = g.denom
      BY <1>1, <2>1, <2>2, BumpForm
    <2>4. CASE IsLinear(d.rate) /\ ~Restarts(d, b)
      <3>1. /\ Follows(g) /\ InTime(g, b) /\ get_total_rewards(g) <= g.funded
            /\ Left(g) = Left(d) + amount
        BY <2>4, ExtendedInTime DEF g
      <3>2. Affords(g, e, b, 0) /\ Timely(e, b)
        BY <1>1, <2>1, <3>1, BumpAffords DEF same, active
      <3>3. Left(g) + 0 = Left(d) + amount
        BY <1>5, <3>1
      <3>4. Affords(d, e, b, amount)
        BY <1>1, <3>2, <3>3 DEF Affords
      <3> QED BY <1>1, <2>3, <3>2, <3>4
    <2>5. ASSUME f = g, d.rate # Immediate PROVE Earned(e) = Earned(d)
      <3>1. total = same
        <4>1. g \in Dist
          BY <1>1 DEF Sound
        <4>2. f.total_earned = total
          BY <2>1, <4>1 DEF Dist
        <4> QED BY <2>5, <4>2 DEF same
      <3> QED BY <1>1, <2>3, <3>1 DEF Earned, same
    <2>6. CASE IsLinear(d.rate) /\ Restarts(d, b)
      <3>1. f = g /\ d.rate # Immediate
        BY <1>2, <1>7, <2>6
      <3>2. e.started_at = AtNow(b, e.rate.unit) /\ e.ends_at = EndFor(e.rate, e.started_at, e.funded)
            /\ e.funded = amount /\ IsLinear(e.rate)
        BY <1>1, <2>3, <2>6 DEF StartFor
      <3>3. g.started_at = AtNow(b, g.rate.unit) /\ IsLinear(g.rate)
        BY <1>1, <2>6 DEF StartFor
      <3>4. g.started_at # Never /\ g.ends_at # Never /\ UpTo(b, g.ends_at) = g.started_at
        <4> DEFINE h == [g EXCEPT !.last_updated = g.started_at]
        <4>1. g \in Dist /\ g.started_at \in Exp
          BY <1>1 DEF Sound, Dist
        <4>2. /\ h \in Dist /\ h.rate = g.rate /\ h.started_at = g.started_at /\ h.ends_at = g.ends_at
              /\ h.funded = g.funded /\ h.last_updated = g.started_at /\ h.total_earned = g.total_earned
          BY <4>1 DEF Dist
        <4> HIDE DEF h
        <4>3. Sound(h)
          BY <1>1, <4>2 DEF Sound
        <4> QED BY <1>1, <3>3, <4>2, <4>3, EpochStarts
      <3>5. e.last_updated = e.started_at
        BY <2>3, <3>4
      <3>6. Timely(e, b) /\ Left(e) = e.funded
        BY <2>3, <3>2, <3>5, EpochStarts
      <3>7. Left(e) <= Left(d) + amount
        BY <1>5, <3>2, <3>6
      <3>8. Affords(d, e, b, amount)
        BY <1>5, <2>3, <2>5, <3>1, <3>7, NothingEarned
      <3> QED BY <1>1, <2>3, <3>6, <3>8
    <2>7. CASE ~IsLinear(d.rate) /\ d.rate # Immediate
      <3>1. d.rate = Paused /\ f = g
        BY <1>2, <2>7, OtherForm
      <3>2. e.rate = Paused /\ ~IsLinear(e.rate) /\ Paused # Immediate
        BY <1>1, <2>3, <3>1 DEF Paused, Immediate, IsLinear
      <3>3. /\ e.funded \in Nat /\ Distributed(e) = 0 /\ get_total_rewards(e) = 0
            /\ d.funded \in Nat /\ Distributed(d) = 0
        BY <2>3, <2>7, <3>1, <3>2, OtherForm
      <3>4. Timely(e, b)
        BY <3>2, <3>3 DEF Timely, Follows
      <3>5. Left(e) <= Left(d) + amount
        BY <1>1, <1>5, <2>3, <3>3 DEF Left
      <3>6. Affords(d, e, b, amount)
        BY <1>5, <2>3, <2>5, <2>7, <3>1, <3>5, NothingEarned
      <3> QED BY <1>1, <2>3, <3>4, <3>6
    <2> QED BY <1>7, <2>4, <2>6, <2>7
  <1>8. IsLinear(d.rate) => d.rate # Immediate
    BY DEF IsLinear, Immediate
  <1> QED BY <1>2, <1>6, <1>7, <1>8

\* What an epoch that ends now distributed covers what it brought in complete periods.
LEMMA FinishedCovers ==
    ASSUME NEW d, Sound(d), NEW b \in BlockType, Timely(d, b), NEW f, f = Finished(d, b)
    PROVE  /\ Sound(f) /\ f.rate = d.rate /\ f.funded = d.funded /\ f.historical = d.historical
           /\ f.total_earned = get_active_total_earned_puvp(d, b) /\ f.denom = d.denom
           /\ f.vp_contract = d.vp_contract /\ f.hook_caller = d.hook_caller
           /\ get_total_rewards(f) \in Nat
           /\ Distributed(d) + Brought(d, b) <= get_total_rewards(f)
  <1> DEFINE total == get_active_total_earned_puvp(d, b)
             stop == StoppedAt(d, b)
             e == bump_last_updated([d EXCEPT !.total_earned = total], b)
             brought == Brought(d, b)
  <1>1. Sound(f) /\ d \in Dist
    BY FinishedKeeps DEF Continues, Sound
  <1>2. f = [d EXCEPT !.total_earned = total, !.ends_at = stop]
    BY DEF Finished
  <1>3. total \in Nat /\ (d.rate.kind = "paused" => total = 0)
    BY Accrues
  <1> HIDE DEF total, stop
  <1>4. /\ f.rate = d.rate /\ f.funded = d.funded /\ f.historical = d.historical
        /\ f.total_earned = total /\ f.vp_contract = d.vp_contract /\ f.hook_caller = d.hook_caller
        /\ f.denom = d.denom /\ f.started_at = d.started_at /\ f.ends_at = stop
    BY <1>1, <1>2 DEF Dist
  <1>5. get_total_rewards(f) \in Nat
    BY <1>1, RewardsNat
  <1>6. /\ Sound(e) /\ e.rate = d.rate /\ e.started_at = d.started_at /\ e.ends_at = d.ends_at
        /\ e.funded = d.funded /\ e.last_updated = IF d.ends_at = Never THEN Never ELSE UpTo(b, d.ends_at)
    BY <1>3, BumpForm
  <1> HIDE DEF e
  <1>7. InTime(d, b)
    BY TimelyInTime
  <1>8. Distributed(d) + brought <= Distributed(e)
    BY <1>6, <1>7, Advances DEF Timely, InTime
  <1>9. Distributed(e) <= get_total_rewards(f)
    <2>1. CASE ~IsLinear(d.rate)
      <3>1. f.funded \in Nat /\ e.funded \in Nat
        BY <1>1, <1>6, LeftInt
      <3>2. d.rate = Paused \/ d.rate = Immediate
        BY <2>1, OtherForm
      <3>3. Paused # Immediate
        BY DEF Paused, Immediate
      <3> QED BY <1>4, <1>6, <3>1, <3>2, <3>3 DEF Distributed, get_total_rewards
    <2>2. CASE IsLinear(d.rate)
      <3> DEFINE a == d.rate.amount
                 q == d.rate.duration
                 past == get_exp_diff(e.last_updated, d.started_at)
                 whole == get_exp_diff(stop, d.started_at)
      <3>1. a \in Nat /\ q \in Nat \ {0} /\ past \in Nat /\ whole \in Nat
        BY <1>1, <1>4, <1>6, <2>2, LinearForm, TimesDiffer
      <3>2. past <= whole
        <4>1. CASE d.started_at = Never
          <5>1. e.last_updated = Never
            BY <1>6, <2>2, <4>1, LinearForm
          <5>2. past = 0
            BY <4>1, <5>1 DEF get_exp_diff, Never
          <5> QED BY <3>1, <5>2
        <4>2. CASE d.started_at # Never
          <5>1. /\ d.ends_at # Never /\ d.ends_at \in Exp /\ d.ends_at.unit = d.rate.unit
                /\ d.started_at.unit = d.rate.unit /\ d.started_at.at \in Nat
            BY <2>2, <4>2, LinearForm
          <5>2. stop = AtNow(b, d.ends_at.unit)
            BY <4>2, <5>1 DEF StoppedAt, stop
          <5>3. e.last_updated = UpTo(b, d.ends_at)
            BY <1>6, <5>1
          <5>4. /\ e.last_updated.at <= stop.at /\ e.last_updated.at \in Nat /\ stop.at \in Nat
            BY <5>1, <5>2, <5>3, Earlier
          <5> QED BY <5>1, <5>4 DEF get_exp_diff
        <4> QED BY <4>1, <4>2
      <3>3. Distributed(e) = a * (past \div q) /\ get_total_rewards(f) = (a * whole) \div q
        <4>1. Distributed(e) = e.rate.amount * (get_exp_diff(e.last_updated, e.started_at) \div e.rate.duration)
          BY <1>6, <2>2, LinearForm
        <4>2. get_total_rewards(f) = (f.rate.amount * get_exp_diff(f.ends_at, f.started_at)) \div f.rate.duration
          BY <1>1, <1>4, <2>2, LinearForm
        <4> QED BY <1>4, <1>6, <4>1, <4>2
      <3> HIDE DEF a, q, past, whole
      <3>4. a * (past \div q) <= (a * past) \div q /\ (a * past) \div q \in Nat /\ a * (past \div q) \in Nat
        BY <3>1, PeriodsFit
      <3>5. (a * past) \div q <= (a * whole) \div q /\ (a * whole) \div q \in Nat
        <4>1. a * past <= a * whole
          <5>1. past \in Int /\ whole \in Int
            BY <3>1
          <5> QED BY <3>1, <3>2, <5>1, Scale
        <4>2. a * past \in Nat /\ a * whole \in Nat
          BY <3>1, Product
        <4> QED BY <3>1, <4>1, <4>2, FloorMonotone, Ratio
      <3> QED BY <3>3, <3>4, <3>5
    <2> QED BY <2>1, <2>2
  <1>10. brought \in Nat
    <2>1. 0 \in Nat
      OBVIOUS
    <2> DEFINE gain == get_active_total_earned_puvp(d, b) - d.total_earned
    <2>2. gain = get_active_total_earned_puvp(d, b) - d.total_earned
      OBVIOUS
    <2>3. gain = 0 \/ 0 <= get_prev_block_total_vp(b, d.vp_contract)
      BY PrevTotal DEF Sound, Dist
    <2> QED BY <2>1, <2>2, <2>3, GainPaid
  <1>11. Distributed(d) \in Nat /\ Distributed(e) \in Nat
    BY <1>6, LeftInt
  <1> HIDE DEF brought
  <1>12. Distributed(d) + brought <= get_total_rewards(f)
    BY <1>5, <1>8, <1>9, <1>10, <1>11
  <1> QED BY <1>1, <1>4, <1>5, <1>12 DEF brought, total

\* The next epoch starts with what the one before leaves.
LEMMA NewEpochTimely ==
    ASSUME NEW f, Sound(f), NEW b \in BlockType, NEW r \in Rates, validate(r), get_total_rewards(f) <= f.funded,
           NEW g, g = NewEpoch(f, r, b)
    PROVE  /\ Sound(g) /\ g.rate = r /\ g.funded = f.funded - get_total_rewards(f) /\ g.total_earned = 0
           /\ g.historical = f.historical + f.total_earned /\ g.denom = f.denom
           /\ g.vp_contract = f.vp_contract /\ g.hook_caller = f.hook_caller
           /\ Timely(g, b) /\ Left(g) = IF r = Immediate THEN 0 ELSE g.funded
  <1> DEFINE started == StartFor(r, b)
             left == f.funded - get_total_rewards(f)
             ends == EndFor(r, started, left)
             past == f.historical + f.total_earned
  <1>1. f \in Dist
    BY DEF Sound
  <1>2. g = [f EXCEPT !.rate = r, !.started_at = started, !.ends_at = ends,
                      !.last_updated = started, !.total_earned = 0, !.funded = left,
                      !.historical = past]
    BY DEF NewEpoch
  <1>3. Sound(g)
    BY NewEpochKeeps DEF Updatable
  <1> HIDE DEF started, left, ends, past
  <1>4. /\ g.rate = r /\ g.started_at = started /\ g.ends_at = ends
        /\ g.last_updated = started /\ g.total_earned = 0 /\ g.funded = left /\ g.historical = past
        /\ g.denom = f.denom /\ g.vp_contract = f.vp_contract /\ g.hook_caller = f.hook_caller
    BY <1>1, <1>2 DEF Dist
  <1>5. Timely(g, b) /\ Left(g) = IF r = Immediate THEN 0 ELSE g.funded
    <2>1. CASE IsLinear(r)
      <3>1. started = AtNow(b, r.unit) /\ r # Immediate
        BY <2>1, RateForms DEF StartFor, started
      <3>2. g.started_at = AtNow(b, g.rate.unit) /\ g.ends_at = EndFor(g.rate, g.started_at, g.funded)
            /\ g.last_updated = g.started_at /\ IsLinear(g.rate)
        BY <1>4, <2>1, <3>1 DEF ends
      <3> QED BY <1>3, <3>1, <3>2, EpochStarts
    <2>2. CASE r = Immediate
      BY <1>3, <1>4, <2>2, AtOnceTimely
    <2>3. CASE r = Paused
      <3>1. ~IsLinear(g.rate) /\ Paused # Immediate
        BY <1>4, <2>3 DEF Paused, Immediate, IsLinear
      <3>2. g.funded \in Nat /\ Distributed(g) = 0 /\ get_total_rewards(g) = 0
        BY <1>3, <1>4, <2>3, <3>1, OtherForm
      <3> QED BY <2>3, <3>1, <3>2 DEF Timely, Follows, Left
    <2> QED BY <2>1, <2>2, <2>3, RateForms
  <1> QED BY <1>3, <1>4, <1>5 DEF left, past

\* A new rate.
LEMMA TransitionAffords ==
    ASSUME NEW d, Sound(d), NEW b \in BlockType, Timely(d, b), NEW r \in Rates, validate(r),
           NEW e, e \in transition_epoch(d, r, b), Sound(e)
    PROVE  /\ Affords(d, e, b, 0) /\ Timely(e, b) /\ e.denom = d.denom
           /\ e.vp_contract = d.vp_contract /\ e.hook_caller = d.hook_caller
  <1> DEFINE f == Finished(d, b)
             g == NewEpoch(f, r, b)
             once == update_immediate_emission_total_earned_puvp(g, b, g.funded)
             brought == Brought(d, b)
             power == get_prev_block_total_vp(b, d.vp_contract)
  <1>1. CASE d.rate = r
    <2>1. e = d
      BY <1>1 DEF transition_epoch
    <2>2. Left(e) <= Left(d) + 0 /\ 0 \in Int /\ Earned(e) = Earned(d)
      BY <2>1, LeftInt
    <2>3. Affords(d, e, b, 0)
      BY <2>2, NothingEarned
    <2> QED BY <2>1, <2>3
  <1>2. CASE d.rate # r
    <2>1. ~(get_total_rewards(f) > d.funded)
      BY <1>2 DEF transition_epoch
    <2>2. e \in IF r = Immediate THEN once ELSE {g}
      BY <1>2 DEF transition_epoch
    <2>3. /\ Sound(f) /\ f.rate = d.rate /\ f.funded = d.funded /\ f.historical = d.historical
          /\ f.total_earned = get_active_total_earned_puvp(d, b) /\ f.denom = d.denom
          /\ f.vp_contract = d.vp_contract /\ f.hook_caller = d.hook_caller
          /\ get_total_rewards(f) \in Nat
          /\ Distributed(d) + brought <= get_total_rewards(f)
      BY FinishedCovers
    <2> HIDE DEF f
    <2>4. get_total_rewards(f) <= f.funded
      BY <2>1, <2>3, LeftInt
    <2>5. /\ Sound(g) /\ g.rate = r /\ g.funded = d.funded - get_total_rewards(f) /\ g.total_earned = 0
          /\ g.historical = d.historical + get_active_total_earned_puvp(d, b) /\ g.denom = d.denom
          /\ g.vp_contract = d.vp_contract /\ g.hook_caller = d.hook_caller
          /\ Timely(g, b) /\ Left(g) = IF r = Immediate THEN 0 ELSE g.funded
      BY <2>3, <2>4, NewEpochTimely
    <2> HIDE DEF g
    <2> DEFINE gain == get_active_total_earned_puvp(d, b) - d.total_earned
               later == e.total_earned
    <2>6. gain \in Nat /\ d.total_earned \in Nat /\ d.historical \in Nat
      BY Accrues, EarnedNat
    <2>7. /\ e.denom = d.denom /\ e.vp_contract = d.vp_contract /\ e.hook_caller = d.hook_caller
          /\ Timely(e, b) /\ e.historical = g.historical /\ later \in Nat /\ g.funded \in Nat
          /\ Left(e) = (IF r = Immediate THEN 0 ELSE g.funded)
          /\ \A total \in Nat : later = 0 \/ total <= power =>
                 total * later + ScaleFactor * Left(e) <= ScaleFactor * g.funded
      <3>1. CASE r = Immediate
        <4>1. e \in once /\ g.rate = Immediate /\ g.funded \in Nat
          BY <2>2, <2>5, <3>1, LeftInt
        <4>2. ASSUME NEW total \in Nat, later = 0 \/ total <= power
              PROVE  /\ e = [g EXCEPT !.total_earned = later] /\ later \in Nat
                     /\ total * (later - 0) <= ScaleFactor * g.funded
          <5>1. e.total_earned = g.total_earned \/ total <= get_prev_block_total_vp(b, g.vp_contract)
            BY <2>5, <4>2
          <5>2. /\ e = [g EXCEPT !.total_earned = e.total_earned] /\ e.total_earned \in Nat
                /\ total * (e.total_earned - g.total_earned) <= ScaleFactor * g.funded
            <6>1. /\ Sound(g) /\ g.rate = Immediate /\ g.funded \in Nat /\ g.total_earned = 0
                  /\ e \in update_immediate_emission_total_earned_puvp(g, b, g.funded)
              BY <2>5, <4>1
            <6> HIDE DEF later, once
            <6> QED BY <5>1, <6>1, AtOncePaid
          <5> QED BY <2>5, <5>2
        <4>3. e = [g EXCEPT !.total_earned = later] /\ later \in Nat
          <5>1. 0 \in Nat /\ 0 <= power
            BY PrevTotal DEF Sound, Dist
          <5> QED BY <4>2, <5>1
        <4> HIDE DEF later
        <4>4. /\ e.rate = Immediate /\ e.historical = g.historical
              /\ e.denom = g.denom /\ e.vp_contract = g.vp_contract /\ e.hook_caller = g.hook_caller
          <5>1. g \in Dist
            BY <2>5 DEF Sound
          <5> QED BY <4>1, <4>3, <5>1 DEF Dist
        <4>5. Timely(e, b) /\ Left(e) = 0
          BY <4>4, AtOnceTimely
        <4>6. ASSUME NEW total \in Nat, later = 0 \/ total <= power
              PROVE  total * later + ScaleFactor * Left(e) <= ScaleFactor * g.funded
          <5>1. total * (later - 0) <= ScaleFactor * g.funded
            BY <4>2, <4>6
          <5>2. later - 0 = later /\ ScaleFactor * Left(e) = 0 /\ total * later \in Nat
            BY <4>3, <4>5, RewardsAssumption, Product
          <5> QED BY <5>1, <5>2
        <4> QED BY <2>5, <3>1, <4>1, <4>3, <4>4, <4>5, <4>6
      <3>2. CASE r # Immediate
        <4>1. e = g /\ later = 0 /\ g.funded \in Nat
          BY <2>2, <2>5, <3>2, LeftInt
        <4>2. Left(e) = g.funded
          BY <2>5, <3>2, <4>1
        <4> HIDE DEF later
        <4>3. \A total \in Nat : total * later + ScaleFactor * Left(e) <= ScaleFactor * g.funded
          <5>1. ScaleFactor * g.funded \in Nat
            BY <4>1, RewardsAssumption, Product
          <5>2. \A total \in Nat : total * 0 = 0
            OBVIOUS
          <5> QED BY <4>1, <4>2, <5>1, <5>2
        <4> QED BY <2>5, <3>2, <4>1, <4>2, <4>3
      <3> QED BY <3>1, <3>2
    <2>8. Earned(e) - Earned(d) = gain + later
      <3> DEFINE active == get_active_total_earned_puvp(d, b)
      <3>1. active \in Nat
        BY Accrues
      <3>2. Earned(e) = later + (d.historical + active)
        BY <2>5, <2>7 DEF Earned
      <3>3. Earned(d) = d.total_earned + d.historical
        BY DEF Earned
      <3> HIDE DEF active, later
      <3>4. gain = active - d.total_earned
        BY DEF active
      <3> HIDE DEF gain
      <3> QED BY <2>6, <2>7, <3>1, <3>2, <3>3, <3>4
    <2>9. Left(d) \in Nat /\ Distributed(d) \in Nat /\ d.funded \in Nat /\ Left(d) = d.funded - Distributed(d)
      BY LeftNat, LeftInt
    <2> HIDE DEF gain, later, brought, power
    <2>10. Affords(d, e, b, 0)
      <3>1. SUFFICES ASSUME NEW total \in Nat, Earned(e) = Earned(d) \/ total <= power
                     PROVE  total * (Earned(e) - Earned(d)) + ScaleFactor * Left(e)
                                <= ScaleFactor * (Left(d) + 0)
        BY DEF Affords, power
      <3>2. (gain = 0 /\ later = 0) \/ total <= power
        BY <2>6, <2>7, <2>8, <3>1, EarnedNat
      <3>3. brought \in Nat /\ total * gain <= ScaleFactor * brought
        BY <3>2, GainPaid DEF gain, brought, power
      <3>4. total * later + ScaleFactor * Left(e) <= ScaleFactor * g.funded
        BY <2>7, <3>2
      <3>5. ScaleFactor * (g.funded + brought) <= ScaleFactor * (Left(d) + 0)
        <4>1. g.funded + brought <= Left(d) + 0
          BY <2>3, <2>5, <2>9, <3>3
        <4>2. g.funded + brought \in Int /\ Left(d) + 0 \in Int /\ ScaleFactor \in Nat
          BY <2>7, <2>9, <3>3, RewardsAssumption
        <4> QED BY <4>1, <4>2, Scale
      <3>6. /\ total * (gain + later) = total * gain + total * later
            /\ total * gain \in Nat /\ total * later \in Nat
        BY <2>6, <2>7, Product
      <3>7. /\ ScaleFactor * (g.funded + brought) = ScaleFactor * g.funded + ScaleFactor * brought
            /\ ScaleFactor * g.funded \in Nat /\ ScaleFactor * brought \in Nat /\ ScaleFactor * Left(e) \in Nat
            /\ ScaleFactor * (Left(d) + 0) \in Int
        <4>1. Left(e) \in Nat /\ ScaleFactor \in Nat
          BY <2>7, RewardsAssumption
        <4> QED BY <2>7, <2>9, <3>3, <4>1, Product
      <3> QED BY <2>8, <3>3, <3>4, <3>5, <3>6, <3>7
    <2> QED BY <2>7, <2>10
  <1> QED BY <1>1, <1>2

\* A withdrawal takes what is not distributed.
LEMMA WithdrawalAffords ==
    ASSUME NEW d, Sound(d), NEW b \in BlockType, Timely(d, b),
           NEW f, f = [d EXCEPT !.ends_at = StoppedAt(d, b)], get_total_rewards(f) <= d.funded,
           NEW e, e = [f EXCEPT !.funded = get_total_rewards(f)], Sound(e), Sound(f)
    PROVE  /\ Affords(d, e, b, get_total_rewards(f) - d.funded) /\ Timely(e, b) /\ e.denom = d.denom
           /\ e.vp_contract = d.vp_contract /\ e.hook_caller = d.hook_caller
  <1> DEFINE stop == StoppedAt(d, b)
             rewards == get_total_rewards(f)
  <1>1. d \in Dist /\ f \in Dist
    BY DEF Sound
  <1>2. rewards \in Nat
    BY RewardsNat
  <1>3. /\ f.rate = d.rate /\ f.started_at = d.started_at /\ f.ends_at = stop /\ f.funded = d.funded
        /\ f.total_earned = d.total_earned /\ f.historical = d.historical /\ f.denom = d.denom
        /\ f.vp_contract = d.vp_contract /\ f.hook_caller = d.hook_caller
        /\ f.last_updated = d.last_updated
    BY <1>1 DEF Dist
  <1> HIDE DEF stop, rewards
  <1>4. /\ e.rate = d.rate /\ e.started_at = d.started_at /\ e.ends_at = stop /\ e.funded = rewards
        /\ e.total_earned = d.total_earned /\ e.historical = d.historical /\ e.denom = d.denom
        /\ e.vp_contract = d.vp_contract /\ e.hook_caller = d.hook_caller
        /\ e.last_updated = d.last_updated
    BY <1>1, <1>3 DEF Dist, rewards
  <1>5. Earned(e) = Earned(d)
    BY <1>4 DEF Earned
  <1>6. d.funded \in Nat /\ Distributed(d) \in Nat /\ Distributed(e) \in Nat
        /\ Left(d) = d.funded - Distributed(d) /\ Left(e) = rewards - Distributed(e)
    BY <1>4, LeftInt
  <1>7. CASE d.rate = Immediate
    <2>1. Timely(e, b) /\ Left(e) = 0 /\ Left(d) = 0
      BY <1>4, <1>7, AtOnceTimely
    <2>2. rewards = d.funded
      BY <1>3, <1>7 DEF get_total_rewards, rewards, Immediate, Paused
    <2>3. rewards - d.funded \in Int /\ Left(e) <= Left(d) + (rewards - d.funded)
      BY <1>6, <2>1, <2>2
    <2>4. Affords(d, e, b, rewards - d.funded)
      BY <1>5, <2>3, NothingEarned
    <2> QED BY <1>4, <2>1, <2>4 DEF rewards
  <1>8. CASE d.rate # Immediate
    <2>1. Distributed(e) = Distributed(d) /\ get_total_rewards(e) = rewards
      BY <1>3, <1>4, <1>8 DEF Distributed, get_total_rewards, rewards
    <2>2. rewards - d.funded \in Int /\ Left(e) <= Left(d) + (rewards - d.funded)
      BY <1>2, <1>6, <2>1
    <2>3. Affords(d, e, b, rewards - d.funded)
      BY <1>5, <2>2, NothingEarned
    <2>4. Follows(e)
      BY <1>4 DEF Timely, Follows
    <2>5. ASSUME IsLinear(d.rate), d.started_at # Never
          PROVE  e.last_updated.at <= e.ends_at.at /\ e.last_updated.at <= AtNow(b, e.rate.unit).at
      <3>1. e.last_updated.at <= AtNow(b, e.rate.unit).at
        BY <1>4, <2>5 DEF Timely
      <3>2. stop = AtNow(b, e.rate.unit)
        BY <1>4, <2>5, LinearForm DEF stop, StoppedAt
      <3> QED BY <1>4, <3>1, <3>2
    <2>6. get_total_rewards(e) <= e.funded
      BY <1>2, <1>4, <2>1
    <2>7. Timely(e, b)
      BY <1>4, <2>4, <2>5, <2>6 DEF Timely
    <2> QED BY <1>4, <2>3, <2>7 DEF rewards
  <1> QED BY <1>7, <1>8

\* The contracts that a distribution names do not matter to what it has left.
Redirected(e, c, k, w) == [e EXCEPT !.vp_contract = c, !.hook_caller = k, !.withdraw_destination = w]

LEMMA RenamedAffords ==
    ASSUME NEW e, Sound(e), NEW b, Timely(e, b), NEW c, NEW k, NEW w, NEW f, f = Redirected(e, c, k, w)
    PROVE  /\ Timely(f, b) /\ Left(f) = Left(e) /\ Earned(f) = Earned(e) /\ f.denom = e.denom
           /\ f.vp_contract = c /\ f.hook_caller = k
  <1>1. e \in Dist
    BY DEF Sound
  <1>2. /\ f.rate = e.rate /\ f.started_at = e.started_at /\ f.ends_at = e.ends_at /\ f.funded = e.funded
        /\ f.total_earned = e.total_earned /\ f.historical = e.historical /\ f.denom = e.denom
        /\ f.vp_contract = c /\ f.hook_caller = k /\ f.last_updated = e.last_updated
    BY <1>1 DEF Dist, Redirected
  <1>3. get_total_rewards(f) = get_total_rewards(e) /\ Distributed(f) = Distributed(e)
    BY <1>2 DEF get_total_rewards, Distributed
  <1> QED BY <1>2, <1>3 DEF Timely, Follows, Left, Earned

\* A later block is not before a last update either.
LEMMA TimelyLater ==
    ASSUME NEW d, Sound(d), NEW b \in BlockType, NEW c \in BlockType, b.height <= c.height, Timely(d, b)
    PROVE  Timely(d, c)
  <1>1. ASSUME IsLinear(d.rate), d.started_at # Never
        PROVE  d.last_updated.at <= AtNow(c, d.rate.unit).at
    <2>1. d.last_updated.at <= AtNow(b, d.rate.unit).at /\ d.last_updated.at \in Nat
      BY <1>1, LinearForm DEF Timely
    <2>2. b.height \in Nat /\ c.height \in Nat /\ SecondsPerBlock \in Nat
      BY RewardsAssumption DEF BlockType
    <2>3. /\ b.height * SecondsPerBlock <= c.height * SecondsPerBlock
          /\ b.height * SecondsPerBlock \in Nat /\ c.height * SecondsPerBlock \in Nat
      <3>1. SecondsPerBlock * b.height <= SecondsPerBlock * c.height
        <4>1. b.height \in Int /\ c.height \in Int
          BY <2>2
        <4> QED BY <2>2, <4>1, Scale
      <3>2. /\ SecondsPerBlock * b.height = b.height * SecondsPerBlock
            /\ SecondsPerBlock * c.height = c.height * SecondsPerBlock
        BY <2>2
      <3> QED BY <2>2, <3>1, <3>2, Product
    <2>4. /\ AtNow(b, d.rate.unit).at =
                 IF d.rate.unit = "height" THEN b.height ELSE b.height * SecondsPerBlock
          /\ AtNow(c, d.rate.unit).at =
                 IF d.rate.unit = "height" THEN c.height ELSE c.height * SecondsPerBlock
      BY DEF AtNow, At
    <2> QED BY <2>1, <2>2, <2>3, <2>4
  <1> QED BY <1>1 DEF Timely

----------------------------------------------------------------------------
(* dao-rewards-distributor: what it owes *)

PeakAt(b, c) == [u \in Users |-> Larger(b.voting[c].start[u], b.voting[c].now[u])]

\* A reward computed in the block counts all the power that may share in it.
Fair(b, c) == Total(PeakAt(b, c)) <= get_prev_block_total_vp(b, c)

\* What a member may claim of distribution id, with the power that it may claim by, before it is
\* divided by the scale.
Due(s, b, id) ==
    [u \in Users |-> ScaleFactor * s.pending[u][id]
                         + PeakAt(b, s.dist[id].vp_contract)[u]
                               * (Earned(s.dist[id]) - s.accounted[u][id])]

\* With what it has left.
Owed(s, b, id) == SumOver(Due(s, b, id), Users) + ScaleFactor * Left(s.dist[id])

Paying(s, denom) == {id \in 1 .. s.count : s.dist[id].denom = denom}

OwedOf(s, b, denom) == SumOver([id \in Paying(s, denom) |-> Owed(s, b, id)], Paying(s, denom))

\* The balance covers all that is owed in a token.
Enough(s, b, denom) == OwedOf(s, b, denom) <= ScaleFactor * s.balance[denom]

\* The contract that reports changes of voting power has the distribution on its list.
Reported(s) ==
    \A id \in 1 .. s.count :
        s.dist[id].hook_caller \in VpContracts => Listed(s.hooks[s.dist[id].hook_caller], id)

\* The balance covers what is owed of each token whose rewards all counted enough power.
DistCovers(s, b, ev) ==
    /\ \A id \in 1 .. s.count : Timely(s.dist[id], b)
    /\ Reported(s)
    /\ \A u \in Users, id \in Ids : ~(id <= s.count) => s.pending[u][id] = 0
    /\ \A denom \in Denoms : (\A id \in Paying(s, denom) : ev[id]) => Enough(s, b, denom)

LEMMA PeakNat ==
    ASSUME NEW b \in BlockType, NEW c \in VpContracts
    PROVE  /\ PeakAt(b, c) \in Power /\ b.voting[c].start \in Power /\ b.voting[c].now \in Power
           /\ \A u \in Users : /\ b.voting[c].start[u] \in Nat /\ b.voting[c].now[u] \in Nat
                               /\ b.voting[c].start[u] <= PeakAt(b, c)[u]
           /\ Total(PeakAt(b, c)) \in Nat
           /\ Total(PeakAt(b, c)) = SumOver(PeakAt(b, c), Users)
           /\ Total(b.voting[c].start) = SumOver(b.voting[c].start, Users)
           /\ Total(b.voting[c].start) \in Nat
  <1>1. b.voting[c].start \in Power /\ b.voting[c].now \in Power
    BY DEF BlockType, VotingType
  <1>2. \A u \in Users : b.voting[c].start[u] \in Nat /\ b.voting[c].now[u] \in Nat
    BY <1>1 DEF Power
  <1>3. PeakAt(b, c) \in Power /\ \A u \in Users : b.voting[c].start[u] <= PeakAt(b, c)[u]
    BY <1>2 DEF PeakAt, Larger, Power
  <1>4. \A power : Total(power) = SumOver(power, Users)
    BY Zenon DEF Total, TotalOver, SumOver
  <1> QED BY <1>1, <1>2, <1>3, <1>4, TotalNat

LEMMA UsersFinite == IsFiniteSet(Users)
  BY RewardsAssumption

\* A live distribution.
LEMMA LiveDist ==
    ASSUME NEW s, DistInv(s), NEW id \in 1 .. s.count
    PROVE  /\ Sound(s.dist[id]) /\ Updatable(s.dist[id]) /\ s.dist[id] \in Dist /\ id \in Ids
           /\ s.dist[id].denom \in Denoms /\ s.dist[id].vp_contract \in VpContracts
           /\ Earned(s.dist[id]) \in Nat /\ Left(s.dist[id]) \in Int /\ s.count \in Nat
           /\ \A u \in Users : /\ s.pending[u][id] \in Int /\ s.accounted[u][id] \in Nat
                               /\ s.accounted[u][id] <= Earned(s.dist[id])
  <1>1. Updatable(s.dist[id]) /\ id \in Ids /\ s \in DistStores /\ s.count \in Nat
    BY RewardsAssumption DEF DistInv, DistStores, Ids
  <1>2. Sound(s.dist[id]) /\ s.dist[id] \in Dist
    BY <1>1 DEF Updatable, Sound
  <1>3. s.dist[id].denom \in Denoms /\ s.dist[id].vp_contract \in VpContracts
    BY <1>2 DEF Dist
  <1>4. Earned(s.dist[id]) \in Nat /\ Left(s.dist[id]) \in Int
    BY <1>2, EarnedNat, LeftInt
  <1>5. \A u \in Users : s.pending[u][id] \in Int /\ s.accounted[u][id] \in Nat
    BY <1>1 DEF DistStores
  <1>6. \A u \in Users : s.accounted[u][id] <= Earned(s.dist[id])
    BY <1>1 DEF DistInv, AccountedFor
  <1> QED BY <1>1, <1>2, <1>3, <1>4, <1>5, <1>6

LEMMA OwedInt ==
    ASSUME NEW s, DistInv(s), NEW b \in BlockType, NEW id \in 1 .. s.count
    PROVE  /\ \A u \in Users :
                  /\ Due(s, b, id)[u] \in Int
                  /\ Due(s, b, id)[u] = ScaleFactor * s.pending[u][id]
                         + PeakAt(b, s.dist[id].vp_contract)[u]
                               * (Earned(s.dist[id]) - s.accounted[u][id])
           /\ SumOver(Due(s, b, id), Users) \in Int /\ Owed(s, b, id) \in Int
           /\ Owed(s, b, id) = SumOver(Due(s, b, id), Users) + ScaleFactor * Left(s.dist[id])
           /\ ScaleFactor * Left(s.dist[id]) \in Int
  <1> DEFINE d == s.dist[id]
             peak == PeakAt(b, d.vp_contract)
  <1>1. /\ d.vp_contract \in VpContracts /\ Earned(d) \in Nat /\ Left(d) \in Int
        /\ \A u \in Users : s.pending[u][id] \in Int /\ s.accounted[u][id] \in Nat
    BY LiveDist
  <1>2. \A u \in Users : peak[u] \in Nat
    BY <1>1, PeakNat DEF Power
  <1>3. ScaleFactor \in Nat
    BY RewardsAssumption
  <1>4. \A u \in Users :
            Due(s, b, id)[u] = ScaleFactor * s.pending[u][id] + peak[u] * (Earned(d) - s.accounted[u][id])
    BY DEF Due
  <1>5. \A u \in Users : Due(s, b, id)[u] \in Int
    <2>1. SUFFICES ASSUME NEW u \in Users PROVE Due(s, b, id)[u] \in Int
      BY Zenon
    <2>2. ScaleFactor * s.pending[u][id] \in Int /\ Earned(d) - s.accounted[u][id] \in Int /\ peak[u] \in Int
      BY <1>1, <1>2, <1>3
    <2>3. peak[u] * (Earned(d) - s.accounted[u][id]) \in Int
      BY <2>2
    <2> HIDE DEF peak, d
    <2> QED BY <1>4, <2>2, <2>3
  <1>6. SumOver(Due(s, b, id), Users) \in Int
    BY <1>5, UsersFinite, SumInt
  <1>7. ScaleFactor * Left(d) \in Int
    BY <1>1, <1>3
  <1> QED BY <1>4, <1>5, <1>6, <1>7 DEF Owed

\* What is owed grows by no more than what is added.
LEMMA OwedFollows ==
    ASSUME NEW s, DistInv(s), NEW t, DistInv(t), NEW b \in BlockType,
           NEW id \in 1 .. s.count, id \in 1 .. t.count, NEW amount \in Int,
           t.dist[id].vp_contract = s.dist[id].vp_contract,
           Affords(s.dist[id], t.dist[id], b, amount),
           Earned(t.dist[id]) = Earned(s.dist[id]) \/ Fair(b, s.dist[id].vp_contract),
           \A u \in Users :
               Due(t, b, id)[u] <= Due(s, b, id)[u]
                   + (Earned(t.dist[id]) - Earned(s.dist[id])) * PeakAt(b, s.dist[id].vp_contract)[u]
    PROVE  Owed(t, b, id) <= Owed(s, b, id) + ScaleFactor * amount
  <1> DEFINE d == s.dist[id]
             e == t.dist[id]
             c == d.vp_contract
             peak == PeakAt(b, c)
             total == Total(peak)
             gain == Earned(e) - Earned(d)
  <1>1. c \in VpContracts /\ Earned(d) \in Nat /\ Earned(e) \in Nat /\ Left(d) \in Int /\ Left(e) \in Int
    BY LiveDist
  <1>2. total \in Nat /\ total = SumOver(peak, Users) /\ \A u \in Users : peak[u] \in Int
    BY <1>1, PeakNat DEF Power
  <1>3. /\ \A u \in Users : Due(s, b, id)[u] \in Int /\ Due(t, b, id)[u] \in Int
        /\ SumOver(Due(s, b, id), Users) \in Int /\ SumOver(Due(t, b, id), Users) \in Int
        /\ Owed(s, b, id) = SumOver(Due(s, b, id), Users) + ScaleFactor * Left(d)
        /\ Owed(t, b, id) = SumOver(Due(t, b, id), Users) + ScaleFactor * Left(e)
    BY OwedInt
  <1>4. gain \in Int
    BY <1>1
  <1>5. Earned(e) = Earned(d) \/ total <= get_prev_block_total_vp(b, c)
    BY DEF Fair
  <1>6. total * gain + ScaleFactor * Left(e) <= ScaleFactor * (Left(d) + amount)
    BY <1>2, <1>5 DEF Affords
  <1>7. \A u \in Users : Due(t, b, id)[u] <= Due(s, b, id)[u] + gain * peak[u]
    OBVIOUS
  <1> HIDE DEF d, e, c, peak, total, gain
  <1>8. SumOver(Due(t, b, id), Users) <= SumOver(Due(s, b, id), Users) + gain * SumOver(peak, Users)
    BY <1>2, <1>3, <1>4, <1>7, UsersFinite, SumAtMost
  <1>9. gain * total = total * gain /\ total * gain \in Int
    BY <1>2, <1>4
  <1>10. ScaleFactor * (Left(d) + amount) = ScaleFactor * Left(d) + ScaleFactor * amount
         /\ ScaleFactor * Left(d) \in Int /\ ScaleFactor * amount \in Int /\ ScaleFactor * Left(e) \in Int
    BY <1>1, RewardsAssumption
  <1> QED BY <1>2, <1>3, <1>6, <1>8, <1>9, <1>10

\* Nothing but distribution id changes, but for the hooks.
OnlyAt(s, t, id) ==
    /\ t.count = s.count
    /\ \A i \in 1 .. s.count : i # id => t.dist[i] = s.dist[i]
    /\ \A u \in Users : \A i \in Ids :
           i # id => t.pending[u][i] = s.pending[u][i] /\ t.accounted[u][i] = s.accounted[u][i]

\* amount is added to distribution id, or taken from it if it is negative.
Moves(s, t, b, id, amount) ==
    /\ DistInv(t) /\ OnlyAt(s, t, id)
    /\ t.dist[id].denom = s.dist[id].denom
    /\ t.balance = [s.balance EXCEPT ![s.dist[id].denom] = @ + amount]
    /\ Timely(t.dist[id], b)
    /\ t.dist[id].vp_contract = s.dist[id].vp_contract
              /\ (Earned(t.dist[id]) = Earned(s.dist[id]) \/ Fair(b, s.dist[id].vp_contract)) =>
           Owed(t, b, id) <= Owed(s, b, id) + ScaleFactor * amount

LEMMA SameOwed ==
    ASSUME NEW s, NEW t, NEW b, NEW c, NEW id, t.dist[id] = s.dist[id],
           \A u \in Users : t.pending[u][id] = s.pending[u][id] /\ t.accounted[u][id] = s.accounted[u][id],
           PeakAt(c, s.dist[id].vp_contract) = PeakAt(b, s.dist[id].vp_contract)
    PROVE  Owed(t, c, id) = Owed(s, b, id) /\ Due(t, c, id) = Due(s, b, id)
  <1>1. Due(t, c, id) = Due(s, b, id)
    BY DEF Due
  <1> QED BY <1>1 DEF Owed

LEMMA PayingFinite ==
    ASSUME NEW s, DistInv(s), NEW denom
    PROVE  IsFiniteSet(Paying(s, denom)) /\ Paying(s, denom) \subseteq 1 .. s.count
  <1>1. s.count \in Nat /\ IsFiniteSet(1 .. s.count)
    BY FS_Interval DEF DistInv, DistStores
  <1>2. Paying(s, denom) \subseteq 1 .. s.count
    BY DEF Paying
  <1> QED BY <1>1, <1>2, FS_Subset

\* One of several amounts grows by k, or by less.
LEMMA OneGrows ==
    ASSUME NEW S, IsFiniteSet(S), NEW f, NEW g, NEW y \in S, NEW k \in Int,
           \A x \in S : f[x] \in Int, g[y] \in Int, \A x \in S \ {y} : g[x] = f[x], g[y] <= f[y] + k
    PROVE  SumOver(g, S) <= SumOver(f, S) + k
  <1>1. SumOver(g, S) = SumOver(f, S) + (g[y] - f[y])
    BY SumUpdate
  <1>2. SumOver(f, S) \in Int
    BY SumInt
  <1> QED BY <1>1, <1>2

\* The balance goes on covering what is owed.
LEMMA EnoughKept ==
    ASSUME NEW s, DistInv(s), NEW t, DistInv(t), NEW b \in BlockType, NEW id \in 1 .. s.count,
           NEW amount \in Int, OnlyAt(s, t, id), t.dist[id].denom = s.dist[id].denom,
           t.balance = [s.balance EXCEPT ![s.dist[id].denom] = @ + amount],
           NEW denom \in Denoms,
           denom = s.dist[id].denom => Owed(t, b, id) <= Owed(s, b, id) + ScaleFactor * amount,
           Enough(s, b, denom)
    PROVE  Enough(t, b, denom)
  <1> DEFINE P == Paying(s, denom)
             f == [i \in P |-> Owed(s, b, i)]
             g == [i \in P |-> Owed(t, b, i)]
  <1>1. P = Paying(t, denom)
    BY DEF Paying, OnlyAt
  <1>2. IsFiniteSet(P) /\ P \subseteq 1 .. s.count /\ t.count = s.count
    BY PayingFinite DEF OnlyAt
  <1>3. \A i \in P : f[i] \in Int /\ g[i] \in Int
    BY <1>2, OwedInt
  <1>4. \A i \in P : i # id => g[i] = f[i]
    <2>1. SUFFICES ASSUME NEW i \in P, i # id PROVE Owed(t, b, i) = Owed(s, b, i)
      OBVIOUS
    <2>2. i \in Ids /\ i \in 1 .. s.count
      BY <1>2, LiveDist
    <2> QED BY <2>1, <2>2, SameOwed DEF OnlyAt
  <1>5. SumOver(f, P) <= ScaleFactor * s.balance[denom]
    BY DEF Enough, OwedOf
  <1>6. s.balance \in [Denoms -> Int] /\ s.dist[id].denom \in Denoms /\ ScaleFactor \in Nat
    BY LiveDist, RewardsAssumption DEF DistInv, DistStores
  <1>7. SumOver(g, P) <= ScaleFactor * t.balance[denom]
    <2>1. CASE denom # s.dist[id].denom
      <3>1. id \notin P
        BY <2>1 DEF Paying
      <3>2. t.balance[denom] = s.balance[denom]
        BY <1>6, <2>1
      <3>3. \A i \in P : g[i] = f[i]
        BY <1>4, <3>1
      <3> HIDE DEF f, g, P
      <3>4. SumOver(g, P) = SumOver(f, P)
        BY <1>2, <3>3, SumSame
      <3> QED BY <1>5, <3>2, <3>4
    <2>2. CASE denom = s.dist[id].denom
      <3>1. id \in P
        BY <2>2 DEF Paying
      <3>2. t.balance[denom] = s.balance[denom] + amount /\ s.balance[denom] \in Int
        BY <1>6, <2>2
      <3>3. g[id] <= f[id] + ScaleFactor * amount
        BY <2>2, <3>1
      <3>4. \A i \in P \ {id} : g[i] = f[i]
        BY <1>4
      <3>5. f[id] \in Int /\ g[id] \in Int
        BY <1>3, <3>1
      <3>6. \A i \in P : f[i] \in Int
        BY <1>3
      <3> HIDE DEF f, g, P
      <3>7. SumOver(g, P) <= SumOver(f, P) + ScaleFactor * amount
        <4>1. ScaleFactor * amount \in Int
          BY <1>6
        <4> QED BY <1>2, <3>1, <3>3, <3>4, <3>5, <3>6, <4>1, OneGrows
      <3>8. SumOver(f, P) \in Int
        BY <1>2, <3>6, SumInt
      <3>9. ScaleFactor * (s.balance[denom] + amount)
                = ScaleFactor * s.balance[denom] + ScaleFactor * amount
            /\ ScaleFactor * s.balance[denom] \in Int /\ ScaleFactor * amount \in Int
        BY <1>6, <3>2
      <3>10. SumOver(g, P) \in Int
        <4>1. \A i \in P : g[i] \in Int
          BY <1>3 DEF g
        <4> QED BY <1>2, <4>1, SumInt
      <3> QED BY <1>5, <3>2, <3>7, <3>8, <3>9, <3>10
    <2> QED BY <2>1, <2>2
  <1> QED BY <1>1, <1>7 DEF Enough, OwedOf

LEMMA MovesCover ==
    ASSUME NEW s, DistInv(s), NEW b \in BlockType, NEW ev, DistCovers(s, b, ev), NEW id \in 1 .. s.count,
           NEW amount \in Int, NEW t, Moves(s, t, b, id, amount), Reported(t),
           NEW later, \A i \in Ids : later[i] => ev[i],
           later[id] => /\ t.dist[id].vp_contract = s.dist[id].vp_contract
                        /\ Earned(t.dist[id]) = Earned(s.dist[id]) \/ Fair(b, s.dist[id].vp_contract)
    PROVE  DistCovers(t, b, later)
  <1>1. DistInv(t) /\ OnlyAt(s, t, id) /\ id \in Ids /\ t.count = s.count /\ s.count \in Nat
    BY LiveDist DEF Moves, OnlyAt
  <1>2. \A i \in 1 .. t.count : Timely(t.dist[i], b)
    BY <1>1 DEF Moves, OnlyAt, DistCovers
  <1>3. \A u \in Users, i \in Ids : ~(i <= t.count) => t.pending[u][i] = 0
    <2>1. SUFFICES ASSUME NEW u \in Users, NEW i \in Ids, ~(i <= t.count) PROVE t.pending[u][i] = 0
      BY Zenon
    <2>2. i # id
      BY <1>1, <2>1
    <2> QED BY <1>1, <2>1, <2>2 DEF OnlyAt, DistCovers
  <1>4. \A denom \in Denoms : (\A i \in Paying(t, denom) : later[i]) => Enough(t, b, denom)
    <2>1. SUFFICES ASSUME NEW denom \in Denoms, \A i \in Paying(t, denom) : later[i]
                   PROVE  Enough(t, b, denom)
      BY Zenon
    <2>2. Paying(t, denom) = Paying(s, denom)
      BY <1>1 DEF Paying, OnlyAt, Moves
    <2>3. \A i \in Paying(s, denom) : ev[i]
      <3>1. \A i \in Paying(s, denom) : i \in Ids
        BY LiveDist DEF Paying
      <3> QED BY <2>1, <2>2, <3>1
    <2>4. Enough(s, b, denom)
      BY <2>3 DEF DistCovers
    <2>5. denom = s.dist[id].denom => Owed(t, b, id) <= Owed(s, b, id) + ScaleFactor * amount
      <3>1. SUFFICES ASSUME denom = s.dist[id].denom
                     PROVE  Owed(t, b, id) <= Owed(s, b, id) + ScaleFactor * amount
        OBVIOUS
      <3>2. later[id]
        BY <2>1, <2>2, <3>1 DEF Paying
      <3> QED BY <3>2 DEF Moves
    <2> QED BY <1>1, <2>4, <2>5, EnoughKept DEF Moves
  <1> QED BY <1>2, <1>3, <1>4 DEF DistCovers

\* A distribution that is brought up to date.
LEMMA UpToDateAffords ==
    ASSUME NEW d, Updatable(d), NEW b \in BlockType, Timely(d, b), NEW e, e = UpToDate(d, b)
    PROVE  /\ Affords(d, e, b, 0) /\ Timely(e, b) /\ Sound(e) /\ e.denom = d.denom
           /\ e.vp_contract = d.vp_contract /\ e.hook_caller = d.hook_caller
           /\ Earned(d) <= Earned(e) /\ Earned(d) \in Nat /\ Earned(e) \in Nat
           /\ Earned(e) = get_active_total_earned_puvp(d, b) + d.historical
           /\ get_active_total_earned_puvp(e, b) = e.total_earned
  <1> DEFINE total == get_active_total_earned_puvp(d, b)
  <1>1. Sound(d) /\ d.vp_contract \in VpContracts
    BY DEF Updatable, Sound, Dist
  <1>2. total \in Nat /\ (d.rate.kind = "paused" => total = 0)
    BY <1>1, Accrues
  <1>3. e = bump_last_updated([d EXCEPT !.total_earned = total], b)
    BY DEF UpToDate
  <1>4. InTime(d, b)
    BY <1>1, TimelyInTime
  <1>5. Affords(d, e, b, 0) /\ Timely(e, b)
    BY <1>1, <1>3, <1>4, BumpAffords DEF Timely
  <1> HIDE DEF total
  <1>6. /\ Sound(e) /\ e.total_earned = total /\ e.rate = d.rate /\ e.ends_at = d.ends_at
        /\ e.last_updated = (IF d.ends_at = Never THEN Never ELSE UpTo(b, d.ends_at))
        /\ e.historical = d.historical /\ e.denom = d.denom
        /\ e.vp_contract = d.vp_contract /\ e.hook_caller = d.hook_caller
    BY <1>1, <1>2, <1>3, BumpForm
  <1>7. Earned(d) <= Earned(e) /\ Earned(d) \in Nat /\ Earned(e) \in Nat
    BY BroughtUpToDate
  <1>8. get_active_total_earned_puvp(e, b) = e.total_earned
    <2>1. get_latest_reward_distribution_time(e, b) = e.last_updated
      BY <1>6 DEF get_latest_reward_distribution_time
    <2>2. get_exp_diff(e.last_updated, e.last_updated) = 0
      <3>1. e.last_updated.at \in Nat
        BY <1>6 DEF Sound, Dist, Exp
      <3> QED BY <3>1 DEF get_exp_diff
    <2>3. e.rate = Paused => e.total_earned = 0
      BY <1>6 DEF Sound, Paused
    <2> QED BY <2>1, <2>2, <2>3 DEF get_active_total_earned_puvp
  <1> QED BY <1>5, <1>6, <1>7, <1>8 DEF Earned, total

\* Member u has all that was earned so far accounted for, and nothing more is earned in this block.
Settled(s, b, u, id) ==
    /\ s.accounted[u][id] = Earned(s.dist[id])
    /\ get_active_total_earned_puvp(s.dist[id], b) = s.dist[id].total_earned

\* The storage after the rewards of a member are brought up to date.
LEMMA UpdateRewardsForm ==
    ASSUME NEW s, DistInv(s), NEW b \in BlockType, NEW u \in Users, NEW id \in Ids,
           NEW t, t \in update_rewards(s, b, u, id)
    PROVE  /\ id \in 1 .. s.count /\ DistInv(t) /\ OnlyAt(s, t, id)
           /\ t.dist[id] = UpToDate(s.dist[id], b) /\ t.hooks = s.hooks /\ t.balance = s.balance
           /\ t.accounted[u][id] = Earned(t.dist[id])
           /\ t.pending[u][id] = s.pending[u][id]
                  + (b.voting[s.dist[id].vp_contract].start[u]
                         * (Earned(t.dist[id]) - s.accounted[u][id])) \div ScaleFactor
           /\ \A v \in Users : v # u => /\ t.pending[v][id] = s.pending[v][id]
                                        /\ t.accounted[v][id] = s.accounted[v][id]
  <1> DEFINE d == UpToDate(s.dist[id], b)
             accrued == get_accrued_rewards_not_yet_accounted_for(d, b, u, Earned(d), s.accounted[u][id])
             earned == Earned(d)
  <1>1. id \in 1 .. s.count /\ s \in DistStores /\ s.dist \in Seq(Dist) /\ Len(s.dist) = s.count
    BY DEF update_rewards, Ok, Ids, DistInv, DistStores
  <1>2. t = [s EXCEPT !.dist[id] = d, !.pending[u][id] = @ + accrued, !.accounted[u][id] = earned]
    BY DEF update_rewards, Ok
  <1>3. DistInv(t)
    BY UpdateRewardsKeeps
  <1>4. Updatable(s.dist[id])
    BY <1>1, LiveDist
  <1>5. d.vp_contract = s.dist[id].vp_contract
    <2>1. s.dist[id] \in Dist
      BY <1>4 DEF Updatable, Sound
    <2> QED BY <2>1 DEF UpToDate, bump_last_updated, Dist
  <1>6. accrued = (b.voting[s.dist[id].vp_contract].start[u] * (earned - s.accounted[u][id])) \div ScaleFactor
    BY <1>5 DEF get_accrued_rewards_not_yet_accounted_for, get_voting_power_at_block
  <1> HIDE DEF d, accrued, earned
  <1>7. /\ t.count = s.count /\ t.hooks = s.hooks /\ t.balance = s.balance
        /\ t.dist = [s.dist EXCEPT ![id] = d]
        /\ t.pending = [s.pending EXCEPT ![u][id] = @ + accrued]
        /\ t.accounted = [s.accounted EXCEPT ![u][id] = earned]
    BY <1>1, <1>2 DEF DistStores
  <1>8. t.dist[id] = d /\ \A i \in 1 .. s.count : i # id => t.dist[i] = s.dist[i]
    <2> HIDE DEF Dist
    <2> QED BY <1>1, <1>7
  <1>9. s.pending \in [Users -> [Ids -> Int]] /\ s.accounted \in [Users -> [Ids -> Nat]]
    BY <1>1 DEF DistStores
  <1>10. /\ t.pending[u][id] = s.pending[u][id] + accrued /\ t.accounted[u][id] = earned
         /\ \A v \in Users : \A i \in Ids :
                v # u \/ i # id => t.pending[v][i] = s.pending[v][i] /\ t.accounted[v][i] = s.accounted[v][i]
    BY <1>7, <1>9
  <1>11. OnlyAt(s, t, id)
    BY <1>7, <1>8, <1>10 DEF OnlyAt
  <1>12. earned = Earned(d)
    BY DEF earned
  <1> QED BY <1>1, <1>3, <1>6, <1>7, <1>8, <1>10, <1>11, <1>12 DEF d

\* Rewards of members that are brought up to date, one after the other.
Drawn(s, t, b) ==
    /\ DistInv(t)
    /\ t.count = s.count /\ t.hooks = s.hooks /\ t.balance = s.balance
    /\ \A id \in 1 .. s.count :
           /\ Timely(t.dist[id], b) /\ t.dist[id].denom = s.dist[id].denom
           /\ t.dist[id].vp_contract = s.dist[id].vp_contract
           /\ t.dist[id].hook_caller = s.dist[id].hook_caller
           /\ Earned(s.dist[id]) <= Earned(t.dist[id])
           /\ Earned(t.dist[id]) = Earned(s.dist[id]) \/ Fair(b, s.dist[id].vp_contract) =>
                  Owed(t, b, id) <= Owed(s, b, id)
           /\ \A u \in Users : Settled(s, b, u, id) => Settled(t, b, u, id)
    /\ \A u \in Users, id \in Ids : ~(id <= s.count) => t.pending[u][id] = s.pending[u][id]

LEMMA DrawnSame ==
    ASSUME NEW s, DistInv(s), NEW b \in BlockType, \A id \in 1 .. s.count : Timely(s.dist[id], b)
    PROVE  Drawn(s, s, b)
  <1>1. \A id \in 1 .. s.count : Earned(s.dist[id]) <= Earned(s.dist[id]) /\ Owed(s, b, id) <= Owed(s, b, id)
    BY LiveDist, OwedInt
  <1> QED BY <1>1 DEF Drawn

LEMMA DrawnTwice ==
    ASSUME NEW s, DistInv(s), NEW b \in BlockType, NEW r, Drawn(s, r, b), NEW t, Drawn(r, t, b)
    PROVE  Drawn(s, t, b)
  <1>1. DistInv(r) /\ DistInv(t) /\ r.count = s.count /\ t.count = s.count
    BY DEF Drawn
  <1>2. ASSUME NEW id \in 1 .. s.count
        PROVE  /\ Timely(t.dist[id], b) /\ t.dist[id].denom = s.dist[id].denom
               /\ t.dist[id].vp_contract = s.dist[id].vp_contract
               /\ t.dist[id].hook_caller = s.dist[id].hook_caller
               /\ Earned(s.dist[id]) <= Earned(t.dist[id])
               /\ Earned(t.dist[id]) = Earned(s.dist[id]) \/ Fair(b, s.dist[id].vp_contract) =>
                      Owed(t, b, id) <= Owed(s, b, id)
               /\ \A u \in Users : Settled(s, b, u, id) => Settled(t, b, u, id)
    <2>1. /\ Earned(s.dist[id]) \in Nat /\ Earned(r.dist[id]) \in Nat /\ Earned(t.dist[id]) \in Nat
          /\ Owed(s, b, id) \in Int /\ Owed(r, b, id) \in Int /\ Owed(t, b, id) \in Int
      BY <1>1, LiveDist, OwedInt
    <2>2. id \in 1 .. r.count
      BY <1>1
    <2>3. Earned(s.dist[id]) <= Earned(r.dist[id]) /\ Earned(r.dist[id]) <= Earned(t.dist[id])
      BY <2>2 DEF Drawn
    <2>4. ASSUME Earned(t.dist[id]) = Earned(s.dist[id]) \/ Fair(b, s.dist[id].vp_contract)
          PROVE  Owed(t, b, id) <= Owed(s, b, id)
      <3>1. Earned(r.dist[id]) = Earned(s.dist[id]) \/ Fair(b, s.dist[id].vp_contract)
        BY <2>1, <2>3, <2>4
      <3>2. Earned(t.dist[id]) = Earned(r.dist[id]) \/ Fair(b, r.dist[id].vp_contract)
        <4>1. r.dist[id].vp_contract = s.dist[id].vp_contract
          BY DEF Drawn
        <4> QED BY <2>1, <2>3, <2>4, <4>1
      <3>3. Owed(r, b, id) <= Owed(s, b, id)
        BY <3>1 DEF Drawn
      <3>4. Owed(t, b, id) <= Owed(r, b, id)
        BY <2>2, <3>2 DEF Drawn
      <3> QED BY <2>1, <3>3, <3>4
    <2>5. Earned(s.dist[id]) <= Earned(t.dist[id])
      BY <2>1, <2>3
    <2> QED BY <2>2, <2>4, <2>5 DEF Drawn
  <1> QED BY <1>1, <1>2 DEF Drawn

\* Rewards are rounded down, to the power that may claim them.
LEMMA DueRounded ==
    ASSUME NEW pending \in Int, NEW start \in Nat, NEW peak \in Nat, start <= peak, NEW more \in Nat
    PROVE  /\ (start * more) \div ScaleFactor \in Nat
           /\ ScaleFactor * (pending + (start * more) \div ScaleFactor)
                  <= ScaleFactor * pending + peak * more
           /\ ScaleFactor * ((start * more) \div ScaleFactor) <= start * more
  <1> DEFINE accrued == (start * more) \div ScaleFactor
  <1>1. start * more \in Nat /\ peak * more \in Nat /\ ScaleFactor \in Nat \ {0}
    BY RewardsAssumption, Product
  <1>2. accrued \in Nat /\ ScaleFactor * accrued <= start * more
    BY <1>1, FloorBounds
  <1> HIDE DEF accrued
  <1>3. start * more <= peak * more
    <2>1. more * start <= more * peak
      <3>1. start \in Int /\ peak \in Int
        OBVIOUS
      <3> QED BY <3>1, Scale
    <2>2. more * start = start * more /\ more * peak = peak * more
      OBVIOUS
    <2> QED BY <2>1, <2>2
  <1>4. ScaleFactor * (pending + accrued) = ScaleFactor * pending + ScaleFactor * accrued
        /\ ScaleFactor * pending \in Int /\ ScaleFactor * accrued \in Int
    BY <1>1, <1>2
  <1>5. ScaleFactor * (pending + accrued) <= ScaleFactor * pending + peak * more
    BY <1>1, <1>2, <1>3, <1>4
  <1> QED BY <1>2, <1>5 DEF accrued

LEMMA UpdateRewardsDraws ==
    ASSUME NEW s, DistInv(s), NEW b \in BlockType, \A i \in 1 .. s.count : Timely(s.dist[i], b),
           NEW u \in Users, NEW id \in Ids, NEW t, t \in update_rewards(s, b, u, id)
    PROVE  Drawn(s, t, b) /\ id \in 1 .. s.count /\ Settled(t, b, u, id)
  <1> DEFINE d == s.dist[id]
             e == t.dist[id]
             peak == PeakAt(b, d.vp_contract)
             start == b.voting[d.vp_contract].start
             gain == Earned(e) - Earned(d)
  <1>1. /\ id \in 1 .. s.count /\ DistInv(t) /\ OnlyAt(s, t, id)
        /\ e = UpToDate(d, b) /\ t.hooks = s.hooks /\ t.balance = s.balance
        /\ t.accounted[u][id] = Earned(e)
        /\ t.pending[u][id] = s.pending[u][id]
               + (start[u] * (Earned(e) - s.accounted[u][id])) \div ScaleFactor
        /\ \A v \in Users : v # u => /\ t.pending[v][id] = s.pending[v][id]
                                     /\ t.accounted[v][id] = s.accounted[v][id]
    BY UpdateRewardsForm
  <1>2. /\ Sound(d) /\ Updatable(d) /\ d.vp_contract \in VpContracts /\ Earned(d) \in Nat /\ s.count \in Nat
        /\ \A v \in Users : /\ s.pending[v][id] \in Int /\ s.accounted[v][id] \in Nat
                            /\ s.accounted[v][id] <= Earned(d)
    BY <1>1, LiveDist
  <1>3. /\ Affords(d, e, b, 0) /\ Timely(e, b) /\ Sound(e) /\ e.denom = d.denom
        /\ e.vp_contract = d.vp_contract /\ e.hook_caller = d.hook_caller
        /\ Earned(d) <= Earned(e) /\ Earned(e) \in Nat
        /\ Earned(e) = get_active_total_earned_puvp(d, b) + d.historical
        /\ get_active_total_earned_puvp(e, b) = e.total_earned
    BY <1>1, <1>2, UpToDateAffords
  <1>4. t.count = s.count /\ id \in 1 .. t.count
    BY <1>1 DEF OnlyAt
  <1>5. \A v \in Users : /\ peak[v] \in Nat /\ start[v] \in Nat /\ start[v] <= peak[v]
    BY <1>2, PeakNat DEF Power
  <1>6. \A v \in Users :
            /\ Due(s, b, id)[v] = ScaleFactor * s.pending[v][id] + peak[v] * (Earned(d) - s.accounted[v][id])
            /\ Due(t, b, id)[v] = ScaleFactor * t.pending[v][id] + peak[v] * (Earned(e) - t.accounted[v][id])
    BY <1>1, <1>3, <1>4, OwedInt
  <1> HIDE DEF d, e, peak, start
  <1>7. \A v \in Users : Due(t, b, id)[v] <= Due(s, b, id)[v] + gain * peak[v]
    <2>1. SUFFICES ASSUME NEW v \in Users PROVE Due(t, b, id)[v] <= Due(s, b, id)[v] + gain * peak[v]
      BY Zenon
    <2> DEFINE pending == s.pending[v][id]
               accounted == s.accounted[v][id]
               more == Earned(e) - accounted
    <2>2. /\ pending \in Int /\ accounted \in Nat /\ more \in Nat /\ gain \in Nat
          /\ Earned(d) - accounted \in Nat /\ more = (Earned(d) - accounted) + gain
      BY <1>2, <1>3
    <2>3. Due(s, b, id)[v] + gain * peak[v] = ScaleFactor * pending + peak[v] * more
      <3>1. peak[v] * ((Earned(d) - accounted) + gain) = peak[v] * (Earned(d) - accounted) + gain * peak[v]
        <4> DEFINE before == Earned(d) - accounted
        <4>1. before \in Nat
          BY <2>2
        <4> HIDE DEF before, gain
        <4>2. peak[v] * (before + gain) = peak[v] * before + gain * peak[v]
          BY <1>5, <2>2, <4>1
        <4> QED BY <4>2 DEF before
      <3>2. /\ peak[v] * (Earned(d) - accounted) \in Int /\ gain * peak[v] \in Int
            /\ ScaleFactor * pending \in Int
        <4>1. ScaleFactor \in Nat
          BY RewardsAssumption
        <4> DEFINE before == Earned(d) - accounted
        <4>2. before \in Nat
          BY <2>2
        <4> HIDE DEF before, gain, pending
        <4>3. peak[v] * before \in Int /\ gain * peak[v] \in Int /\ ScaleFactor * pending \in Int
          BY <1>5, <2>2, <4>1, <4>2
        <4> QED BY <4>3 DEF before
      <3>3. Due(s, b, id)[v] = ScaleFactor * pending + peak[v] * (Earned(d) - accounted)
        BY <1>6
      <3> HIDE DEF pending, accounted, gain
      <3> QED BY <2>2, <3>1, <3>2, <3>3
    <2>4. CASE v # u
      <3>1. Due(t, b, id)[v] = ScaleFactor * pending + peak[v] * more
        BY <1>1, <1>6, <2>4 DEF e
      <3> HIDE DEF gain, pending, more
      <3>2. ScaleFactor * pending + peak[v] * more \in Int
        BY <1>5, <2>2, RewardsAssumption
      <3> QED BY <2>3, <3>1, <3>2
    <2>5. CASE v = u
      <3>1. Due(t, b, id)[v] = ScaleFactor * (pending + (start[v] * more) \div ScaleFactor)
                                   + peak[v] * (Earned(e) - Earned(e))
        BY <1>1, <1>6, <2>5 DEF d, e, start
      <3>2. peak[v] * (Earned(e) - Earned(e)) = 0
        <4>1. Earned(e) - Earned(e) = 0
          BY <1>3
        <4> QED BY <1>5, <4>1
      <3> HIDE DEF gain, pending, more
      <3>3. /\ (start[v] * more) \div ScaleFactor \in Nat
            /\ ScaleFactor * (pending + (start[v] * more) \div ScaleFactor)
                   <= ScaleFactor * pending + peak[v] * more
        BY <1>5, <2>2, DueRounded
      <3>4. ScaleFactor * (pending + (start[v] * more) \div ScaleFactor) \in Int
        <4> DEFINE accrued == (start[v] * more) \div ScaleFactor
        <4>1. accrued \in Nat
          BY <3>3
        <4> HIDE DEF accrued
        <4>2. ScaleFactor * (pending + accrued) \in Int
          BY <2>2, <4>1, RewardsAssumption
        <4> QED BY <4>2 DEF accrued
      <3> QED BY <2>3, <3>1, <3>2, <3>3, <3>4
    <2> QED BY <2>4, <2>5
  <1>8. Earned(e) = Earned(d) \/ Fair(b, d.vp_contract) => Owed(t, b, id) <= Owed(s, b, id)
    <2>1. SUFFICES ASSUME Earned(e) = Earned(d) \/ Fair(b, d.vp_contract)
                   PROVE  Owed(t, b, id) <= Owed(s, b, id)
      OBVIOUS
    <2>2. 0 \in Int /\ ScaleFactor * 0 = 0 /\ Owed(s, b, id) \in Int
      BY <1>1, OwedInt, RewardsAssumption
    <2>3. Owed(t, b, id) <= Owed(s, b, id) + ScaleFactor * 0
      BY <1>1, <1>3, <1>4, <1>7, <2>1, <2>2, OwedFollows DEF d, e, peak
    <2> QED BY <2>2, <2>3
  <1>9. Settled(t, b, u, id)
    BY <1>1, <1>3 DEF Settled, e
  <1>10. ASSUME NEW i \in 1 .. s.count
         PROVE  /\ Timely(t.dist[i], b) /\ t.dist[i].denom = s.dist[i].denom
                /\ t.dist[i].vp_contract = s.dist[i].vp_contract
                /\ t.dist[i].hook_caller = s.dist[i].hook_caller
                /\ Earned(s.dist[i]) <= Earned(t.dist[i])
                /\ Earned(t.dist[i]) = Earned(s.dist[i]) \/ Fair(b, s.dist[i].vp_contract) =>
                       Owed(t, b, i) <= Owed(s, b, i)
                /\ \A v \in Users : Settled(s, b, v, i) => Settled(t, b, v, i)
    <2>1. CASE i = id
      <3>1. ASSUME NEW v \in Users, Settled(s, b, v, id) PROVE Settled(t, b, v, id)
        <4>1. CASE v = u
          BY <1>9, <4>1
        <4>2. CASE v # u
          <5>1. s.accounted[v][id] = Earned(d) /\ get_active_total_earned_puvp(d, b) = d.total_earned
            BY <3>1 DEF Settled, d
          <5>2. t.accounted[v][id] = s.accounted[v][id]
            BY <1>1, <4>2
          <5>3. Earned(e) = Earned(d)
            BY <1>3, <5>1 DEF Earned
          <5> QED BY <1>3, <5>1, <5>2, <5>3 DEF Settled, e
        <4> QED BY <4>1, <4>2
      <3> QED BY <1>3, <1>8, <2>1, <3>1 DEF d, e
    <2>2. CASE i # id
      <3>1. /\ t.dist[i] = s.dist[i] /\ i \in Ids
            /\ \A v \in Users : t.pending[v][i] = s.pending[v][i] /\ t.accounted[v][i] = s.accounted[v][i]
        BY <1>1, <2>2, LiveDist DEF OnlyAt
      <3>2. Owed(t, b, i) = Owed(s, b, i) /\ Owed(s, b, i) \in Int /\ Earned(s.dist[i]) \in Nat
        BY <3>1, SameOwed, OwedInt, LiveDist
      <3> QED BY <3>1, <3>2 DEF Settled
    <2> QED BY <2>1, <2>2
  <1>11. \A v \in Users, i \in Ids : ~(i <= s.count) => t.pending[v][i] = s.pending[v][i]
    <2>1. SUFFICES ASSUME NEW v \in Users, NEW i \in Ids, ~(i <= s.count)
                   PROVE  t.pending[v][i] = s.pending[v][i]
      BY Zenon
    <2>2. i # id
      BY <1>1, <1>2, <2>1
    <2> QED BY <1>1, <2>2 DEF OnlyAt
  <1> QED BY <1>1, <1>4, <1>9, <1>10, <1>11 DEF Drawn

LEMMA DrawnCovers ==
    ASSUME NEW s, DistInv(s), NEW b \in BlockType, NEW ev, DistCovers(s, b, ev), NEW t, Drawn(s, t, b),
           NEW later, \A i \in Ids : later[i] => ev[i],
           \A i \in 1 .. s.count :
               later[i] => Earned(t.dist[i]) = Earned(s.dist[i]) \/ Fair(b, s.dist[i].vp_contract)
    PROVE  DistCovers(t, b, later)
  <1>1. DistInv(t) /\ t.count = s.count /\ t.hooks = s.hooks /\ t.balance = s.balance
    BY DEF Drawn
  <1>2. Reported(t) /\ \A i \in 1 .. t.count : Timely(t.dist[i], b)
    <2>1. \A i \in 1 .. s.count : Timely(t.dist[i], b) /\ t.dist[i].hook_caller = s.dist[i].hook_caller
      BY DEF Drawn
    <2> QED BY <1>1, <2>1 DEF Reported, DistCovers
  <1>3. \A u \in Users, i \in Ids : ~(i <= t.count) => t.pending[u][i] = 0
    BY <1>1 DEF Drawn, DistCovers
  <1>4. \A denom \in Denoms : (\A i \in Paying(t, denom) : later[i]) => Enough(t, b, denom)
    <2>1. SUFFICES ASSUME NEW denom \in Denoms, \A i \in Paying(t, denom) : later[i]
                   PROVE  Enough(t, b, denom)
      BY Zenon
    <2> DEFINE P == Paying(s, denom)
               f == [i \in P |-> Owed(s, b, i)]
               g == [i \in P |-> Owed(t, b, i)]
    <2>2. P = Paying(t, denom)
      BY <1>1 DEF Paying, Drawn
    <2>3. IsFiniteSet(P) /\ P \subseteq 1 .. s.count
      BY PayingFinite
    <2>4. \A i \in P : ev[i]
      <3>1. \A i \in P : i \in Ids
        BY <2>3, LiveDist
      <3> QED BY <2>1, <2>2, <3>1
    <2>5. SumOver(f, P) <= ScaleFactor * s.balance[denom]
      BY <2>4 DEF DistCovers, Enough, OwedOf
    <2>6. \A i \in P : Owed(s, b, i) \in Int /\ Owed(t, b, i) \in Int /\ Owed(t, b, i) <= Owed(s, b, i)
      <3>1. SUFFICES ASSUME NEW i \in P
                     PROVE  Owed(s, b, i) \in Int /\ Owed(t, b, i) \in Int /\ Owed(t, b, i) <= Owed(s, b, i)
        BY Zenon
      <3>2. i \in 1 .. s.count /\ i \in 1 .. t.count /\ later[i]
        BY <1>1, <2>1, <2>2, <2>3
      <3>3. Owed(s, b, i) \in Int /\ Owed(t, b, i) \in Int
        BY <1>1, <3>2, OwedInt
      <3> QED BY <3>2, <3>3 DEF Drawn
    <2>7. \A i \in P : f[i] \in Int /\ g[i] \in Int /\ g[i] <= f[i]
      BY <2>6
    <2>8. ScaleFactor * s.balance[denom] \in Int
      BY RewardsAssumption DEF DistInv, DistStores
    <2>9. SumOver(g, P) <= ScaleFactor * t.balance[denom]
      <3> HIDE DEF f, g, P
      <3>1. SumOver(g, P) <= SumOver(f, P)
        BY <2>3, <2>7, SumMonotone
      <3>2. SumOver(f, P) \in Int /\ SumOver(g, P) \in Int
        BY <2>3, <2>7, SumInt
      <3> QED BY <1>1, <2>5, <2>8, <3>1, <3>2
    <2> QED BY <2>2, <2>9 DEF Enough, OwedOf
  <1> QED BY <1>2, <1>3, <1>4 DEF DistCovers

\* Storages in which rewards were brought up to date, among them user's of those of ids in U.
StakeDrawn(s, b, user, ids, U) ==
    {t \in SafeStores : /\ Drawn(s, t, b)
                        /\ \A n \in U : ids[n] \in 1 .. s.count /\ Settled(t, b, user, ids[n])}

\* A member's rewards are brought up to date for several distributions.
LEMMA StakeDraws ==
    ASSUME NEW s, DistInv(s), NEW b \in BlockType, \A i \in 1 .. s.count : Timely(s.dist[i], b),
           NEW user \in Users, NEW ids \in Seq(Ids), NEW t, t \in update_for_stake(s, b, user, ids)
    PROVE  /\ Drawn(s, t, b)
           /\ \A n \in DOMAIN ids : ids[n] \in 1 .. s.count /\ Settled(t, b, user, ids[n])
  <1> DEFINE S == 1 .. Len(ids)
             D(U) == StakeDrawn(s, b, user, ids, U)
             R == [U \in SUBSET S |-> SUBSET D(U)]
             h == CHOOSE k : StakeUpdates(k, s, b, user, ids)
  <1>1. S = DOMAIN ids /\ Len(ids) \in Nat /\ {} \in SUBSET S /\ S \in SUBSET S
    OBVIOUS
  <1>2. StakeUpdates(h, s, b, user, ids)
    BY StakeUpdatesExist
  <1>3. t \in h[S]
    <2> HIDE DEF h
    <2>1. update_for_stake(s, b, user, ids) = h[S]
      BY <1>1, StakeUpdatesUnfold DEF h
    <2> QED BY <2>1
  <1> HIDE DEF h
  <1>4. s \in D({})
    BY DrawnSame, SafeStore DEF StakeDrawn
  <1>5. ASSUME NEW U \in SUBSET S, U # {}, h[U \ {Latest(U)}] \in SUBSET D(U \ {Latest(U)})
        PROVE  h[U] \in SUBSET D(U)
    <2> DEFINE i == ids[Latest(U)]
               V == U \ {Latest(U)}
               Q == h[V]
    <2>1. i \in Ids /\ Latest(U) \in U
      BY <1>1, <1>5, LatestOf
    <2>2. h[U] = UNION {update_rewards(r, b, user, i) : r \in Q}
      BY <1>1, <1>2, <1>5 DEF StakeUpdates
    <2> HIDE DEF D
    <2>3. SUFFICES ASSUME NEW r \in Q, NEW q \in update_rewards(r, b, user, i) PROVE q \in D(U)
      BY <2>2
    <2>4. r \in D(V)
      BY <1>5, <2>3
    <2>5. DistInv(r) /\ Drawn(s, r, b) /\ \A n \in V : ids[n] \in 1 .. s.count /\ Settled(r, b, user, ids[n])
      BY <2>4, SafeStore DEF D, StakeDrawn
    <2>6. r.count = s.count /\ \A k \in 1 .. r.count : Timely(r.dist[k], b)
      BY <2>5 DEF Drawn
    <2> HIDE DEF i, V, Q
    <2>7. Drawn(r, q, b) /\ i \in 1 .. r.count /\ Settled(q, b, user, i)
      BY <2>1, <2>3, <2>5, <2>6, UpdateRewardsDraws
    <2>8. Drawn(s, q, b)
      BY <2>5, <2>7, DrawnTwice
    <2>9. \A n \in U : ids[n] \in 1 .. s.count /\ Settled(q, b, user, ids[n])
      <3>1. \A n \in V : ids[n] \in 1 .. s.count /\ Settled(q, b, user, ids[n])
        BY <2>5, <2>6, <2>7 DEF Drawn
      <3>2. ids[Latest(U)] \in 1 .. s.count /\ Settled(q, b, user, ids[Latest(U)])
        BY <2>6, <2>7 DEF i
      <3>3. \A n \in U : n \in V \/ n = Latest(U)
        BY DEF V
      <3> QED BY <3>1, <3>2, <3>3
    <2>10. q \in SafeStores
      BY <2>8, SafeStore DEF Drawn
    <2> QED BY <2>8, <2>9, <2>10 DEF D, StakeDrawn
  <1> HIDE DEF D
  <1>6. h[{}] \in R[{}]
    <2>1. h[{}] = {s}
      BY <1>1, <1>2 DEF StakeUpdates
    <2> QED BY <1>1, <1>4, <2>1
  <1>7. \A U \in SUBSET S : U # {} /\ h[U \ {Latest(U)}] \in R[U \ {Latest(U)}] => h[U] \in R[U]
    BY <1>5
  <1> HIDE DEF R
  <1>8. h[S] \in R[S]
    BY <1>1, <1>6, <1>7, FoldReaches
  <1>9. t \in D(S)
    BY <1>1, <1>3, <1>8 DEF R
  <1> QED BY <1>1, <1>9 DEF D, StakeDrawn

\* Storages in which rewards were brought up to date, among them those of the members in U.
MembersDrawn(s, b, ids, members, U) ==
    {t \in SafeStores :
         /\ Drawn(s, t, b)
         /\ \A m \in U : \A n \in DOMAIN ids :
                ids[n] \in 1 .. s.count /\ Settled(t, b, members[m], ids[n])}

\* The weights of several members change.
LEMMA MembershipDraws ==
    ASSUME NEW s, DistInv(s), NEW b \in BlockType, \A i \in 1 .. s.count : Timely(s.dist[i], b),
           NEW c \in VpContracts, NEW members \in Seq(Users),
           NEW t, t \in execute_membership_changed(s, b, c, members)
    PROVE  /\ Drawn(s, t, b)
           /\ \A m \in DOMAIN members : \A n \in DOMAIN s.hooks[c] :
                  s.hooks[c][n] \in 1 .. s.count /\ Settled(t, b, members[m], s.hooks[c][n])
  <1> DEFINE ids == s.hooks[c]
             S == 1 .. Len(members)
             D(U) == MembersDrawn(s, b, ids, members, U)
             R == [U \in SUBSET S |-> SUBSET D(U)]
             h == CHOOSE k : MemberUpdates(k, s, b, ids, members)
  <1>1. S = DOMAIN members /\ Len(members) \in Nat /\ {} \in SUBSET S /\ S \in SUBSET S
    OBVIOUS
  <1>2. ids \in Seq(Ids)
    BY DEF DistInv, DistStores
  <1>3. MemberUpdates(h, s, b, ids, members)
    BY <1>2, MemberUpdatesExist
  <1>4. t \in h[S]
    <2>1. ids # <<>>
      BY DEF execute_membership_changed, get_hook_caller_registered_distribution_ids
    <2>2. execute_membership_changed(s, b, c, members) = h[DOMAIN members]
      BY <2>1, MemberUpdatesUnfold
    <2> HIDE DEF h
    <2> QED BY <1>1, <2>2
  <1> HIDE DEF h, ids
  <1>5. s \in D({})
    BY DrawnSame, SafeStore DEF MembersDrawn
  <1>6. ASSUME NEW U \in SUBSET S, U # {}, h[U \ {Latest(U)}] \in SUBSET D(U \ {Latest(U)})
        PROVE  h[U] \in SUBSET D(U)
    <2> DEFINE u == members[Latest(U)]
               V == U \ {Latest(U)}
               Q == h[V]
    <2>1. u \in Users /\ Latest(U) \in U
      BY <1>1, <1>6, LatestOf
    <2>2. h[U] = UNION {update_for_stake(r, b, u, ids) : r \in Q}
      BY <1>1, <1>3, <1>6 DEF MemberUpdates
    <2> HIDE DEF D
    <2>3. SUFFICES ASSUME NEW r \in Q, NEW q \in update_for_stake(r, b, u, ids) PROVE q \in D(U)
      BY <2>2
    <2>4. r \in D(V)
      BY <1>6, <2>3
    <2>5. /\ DistInv(r) /\ Drawn(s, r, b)
          /\ \A m \in V : \A n \in DOMAIN ids :
                 ids[n] \in 1 .. s.count /\ Settled(r, b, members[m], ids[n])
      BY <2>4, SafeStore DEF D, MembersDrawn
    <2>6. r.count = s.count /\ \A k \in 1 .. r.count : Timely(r.dist[k], b)
      BY <2>5 DEF Drawn
    <2>7. \A m \in V : members[m] \in Users
      BY <1>1
    <2> HIDE DEF u, V, Q
    <2>8. Drawn(r, q, b) /\ \A n \in DOMAIN ids : ids[n] \in 1 .. r.count /\ Settled(q, b, u, ids[n])
      BY <1>2, <2>1, <2>3, <2>5, <2>6, StakeDraws
    <2>9. Drawn(s, q, b)
      BY <2>5, <2>8, DrawnTwice
    <2>10. \A m \in U : \A n \in DOMAIN ids : ids[n] \in 1 .. s.count /\ Settled(q, b, members[m], ids[n])
      <3>1. \A m \in V : \A n \in DOMAIN ids : ids[n] \in 1 .. s.count /\ Settled(q, b, members[m], ids[n])
        BY <2>5, <2>6, <2>7, <2>8 DEF Drawn
      <3>2. \A n \in DOMAIN ids : ids[n] \in 1 .. s.count /\ Settled(q, b, members[Latest(U)], ids[n])
        BY <2>6, <2>8 DEF u
      <3>3. \A m \in U : m \in V \/ m = Latest(U)
        BY DEF V
      <3> QED BY <3>1, <3>2, <3>3
    <2>11. q \in SafeStores
      BY <2>9, SafeStore DEF Drawn
    <2> QED BY <2>9, <2>10, <2>11 DEF D, MembersDrawn
  <1> HIDE DEF D
  <1>7. h[{}] \in R[{}]
    <2>1. h[{}] = {s}
      BY <1>1, <1>3 DEF MemberUpdates
    <2> QED BY <1>1, <1>5, <2>1
  <1>8. \A U \in SUBSET S : U # {} /\ h[U \ {Latest(U)}] \in R[U \ {Latest(U)}] => h[U] \in R[U]
    BY <1>6
  <1> HIDE DEF R
  <1>9. h[S] \in R[S]
    BY <1>1, <1>7, <1>8, FoldReaches
  <1>10. t \in D(S)
    BY <1>1, <1>4, <1>9 DEF R
  <1> QED BY <1>1, <1>10 DEF D, MembersDrawn, ids

\* A stake grows or shrinks.
LEMMA StakeChangeDraws ==
    ASSUME NEW s, DistInv(s), NEW b \in BlockType, \A i \in 1 .. s.count : Timely(s.dist[i], b),
           NEW c \in VpContracts, NEW user \in Users, NEW grew,
           NEW t, t \in execute_stake_changed(s, b, c, user, grew)
                            \cup execute_nft_stake_changed(s, b, c, user, grew)
    PROVE  /\ Drawn(s, t, b)
           /\ \A n \in DOMAIN s.hooks[c] :
                  s.hooks[c][n] \in 1 .. s.count /\ Settled(t, b, user, s.hooks[c][n])
  <1>1. s.hooks[c] \in Seq(Ids)
    BY DEF DistInv, DistStores
  <1>2. t \in update_for_stake(s, b, user, s.hooks[c])
    BY DEF execute_nft_stake_changed, execute_stake_changed, execute_unstake,
           get_hook_caller_registered_distribution_ids
  <1> QED BY <1>1, <1>2, StakeDraws

\* What more has been earned by a power.
LEMMA MoreEarned ==
    ASSUME NEW p \in Int, NEW before \in Int, NEW after \in Int, NEW accounted \in Int
    PROVE  /\ p * (after - accounted) = p * (before - accounted) + (after - before) * p
           /\ p * (after - accounted) \in Int /\ p * (before - accounted) \in Int
           /\ (after - before) * p \in Int
  <1> DEFINE m == before - accounted
             k == after - before
  <1>1. m \in Int /\ k \in Int /\ after - accounted = m + k
    OBVIOUS
  <1> HIDE DEF m, k
  <1>2. p * (m + k) = p * m + k * p /\ p * (m + k) \in Int /\ p * m \in Int /\ k * p \in Int
    BY <1>1
  <1> QED BY <1>1, <1>2 DEF m, k

\* Another distribution takes the place of one, and the balance follows.
Replaces(s, t, id, e, amount) ==
    /\ t.count = s.count /\ t.dist = [s.dist EXCEPT ![id] = e]
    /\ t.pending = s.pending /\ t.accounted = s.accounted
    /\ t.balance = [s.balance EXCEPT ![s.dist[id].denom] = @ + amount]

LEMMA ReplacedMoves ==
    ASSUME NEW s, DistInv(s), NEW b \in BlockType, NEW id \in 1 .. s.count, NEW e, NEW amount \in Int,
           Timely(e, b), e.denom = s.dist[id].denom,
           e.vp_contract = s.dist[id].vp_contract => Affords(s.dist[id], e, b, amount),
           NEW t, DistInv(t), Replaces(s, t, id, e, amount)
    PROVE  Moves(s, t, b, id, amount) /\ t.dist[id] = e
  <1> DEFINE d == s.dist[id]
             peak == PeakAt(b, d.vp_contract)
  <1>1. s.dist \in Seq(Dist) /\ Len(s.dist) = s.count
    BY DEF DistInv, DistStores
  <1>2. /\ t.dist[id] = e /\ \A i \in 1 .. s.count : i # id => t.dist[i] = s.dist[i]
        /\ t.count = s.count /\ t.pending = s.pending /\ t.accounted = s.accounted
    <2> HIDE DEF Dist
    <2> QED BY <1>1 DEF Replaces
  <1>3. OnlyAt(s, t, id)
    BY <1>2 DEF OnlyAt
  <1>4. ASSUME e.vp_contract = d.vp_contract, Earned(e) = Earned(d) \/ Fair(b, d.vp_contract)
        PROVE  Owed(t, b, id) <= Owed(s, b, id) + ScaleFactor * amount
    <2>1. \A u \in Users : Due(t, b, id)[u] <= Due(s, b, id)[u] + (Earned(e) - Earned(d)) * peak[u]
      <3>1. SUFFICES ASSUME NEW u \in Users
                     PROVE  Due(t, b, id)[u] <= Due(s, b, id)[u] + (Earned(e) - Earned(d)) * peak[u]
        BY Zenon
      <3>2. id \in 1 .. t.count /\ d.vp_contract \in VpContracts
        BY <1>2, LiveDist
      <3>3. /\ Due(s, b, id)[u] = ScaleFactor * s.pending[u][id]
                                      + peak[u] * (Earned(d) - s.accounted[u][id])
            /\ Due(t, b, id)[u] = ScaleFactor * s.pending[u][id]
                                      + peak[u] * (Earned(e) - s.accounted[u][id])
        <4>1. Due(s, b, id)[u] = ScaleFactor * s.pending[u][id]
                                     + PeakAt(b, s.dist[id].vp_contract)[u]
                                           * (Earned(s.dist[id]) - s.accounted[u][id])
          BY OwedInt
        <4>2. Due(t, b, id)[u] = ScaleFactor * t.pending[u][id]
                                     + PeakAt(b, t.dist[id].vp_contract)[u]
                                           * (Earned(t.dist[id]) - t.accounted[u][id])
          BY DEF Due
        <4> QED BY <1>2, <1>4, <4>1, <4>2
      <3>4. /\ peak[u] \in Int /\ Earned(d) \in Int /\ Earned(e) \in Int /\ s.accounted[u][id] \in Int
            /\ ScaleFactor * s.pending[u][id] \in Int
        BY <1>2, <3>2, LiveDist, PeakNat, RewardsAssumption DEF Power
      <3> HIDE DEF peak, d
      <3>5. /\ peak[u] * (Earned(e) - s.accounted[u][id])
                   = peak[u] * (Earned(d) - s.accounted[u][id]) + (Earned(e) - Earned(d)) * peak[u]
            /\ peak[u] * (Earned(d) - s.accounted[u][id]) \in Int
            /\ (Earned(e) - Earned(d)) * peak[u] \in Int
        BY <3>4, MoreEarned
      <3> QED BY <3>3, <3>4, <3>5
    <2>2. id \in 1 .. t.count
      BY <1>2
    <2> QED BY <1>2, <1>4, <2>1, <2>2, OwedFollows
  <1> QED BY <1>2, <1>3, <1>4 DEF Moves, Replaces

\* Funding, with what the contract has received.
LEMMA FundMoves ==
    ASSUME NEW s, DistInv(s), NEW b \in BlockType, NEW id \in 1 .. s.count, Timely(s.dist[id], b),
           NEW amount \in Nat,
           NEW t, t \in execute_fund(Receives(s, s.dist[id].denom, amount), b, id, amount)
    PROVE  /\ Moves(s, t, b, id, amount) /\ t.hooks = s.hooks
           /\ t.dist[id].hook_caller = s.dist[id].hook_caller
           /\ t.dist[id].vp_contract = s.dist[id].vp_contract
  <1> DEFINE d == s.dist[id]
             r == Receives(s, d.denom, amount)
  <1>1. Sound(d) /\ d.denom \in Denoms /\ id \in Ids /\ s.count \in Nat
    BY LiveDist
  <1>2. DistInv(r) /\ r.count = s.count /\ r.dist = s.dist
    BY <1>1, ReceivesKeeps
  <1>3. /\ r.pending = s.pending /\ r.accounted = s.accounted /\ r.hooks = s.hooks
        /\ r.balance = [s.balance EXCEPT ![d.denom] = @ + amount]
    BY DEF Receives, DistInv, DistStores
  <1> HIDE DEF r
  <1>4. PICK f \in Fundings(r.dist[id], b, amount) : t = [r EXCEPT !.dist[id] = bump_last_updated(f, b)]
    BY Zenon DEF execute_fund, Fundings, r, d
  <1> DEFINE e == bump_last_updated(f, b)
  <1>5. /\ Affords(d, e, b, amount) /\ Timely(e, b) /\ e.denom = d.denom
        /\ e.vp_contract = d.vp_contract /\ e.hook_caller = d.hook_caller
    BY <1>1, <1>2, <1>4, FundingAffords
  <1>6. t = [r EXCEPT !.dist[id] = e]
    BY <1>4
  <1> HIDE DEF e
  <1>7. /\ t.count = r.count /\ t.dist = [r.dist EXCEPT ![id] = e] /\ t.pending = r.pending
        /\ t.accounted = r.accounted /\ t.balance = r.balance /\ t.hooks = r.hooks
    BY <1>2, <1>6 DEF DistInv, DistStores
  <1>8. DistInv(t)
    <2>1. t \in SafeStores
      <3>1. id <= r.count
        BY <1>1, <1>2
      <3>2. t \in execute_fund(r, b, id, amount)
        BY DEF r
      <3> QED BY <1>1, <1>2, <3>1, <3>2, FundKeeps
    <2> QED BY <2>1, SafeStore
  <1>9. Moves(s, t, b, id, amount) /\ t.dist[id] = e
    <2>1. amount \in Int /\ Replaces(s, t, id, e, amount)
      BY <1>2, <1>3, <1>7 DEF Replaces
    <2> QED BY <1>5, <1>8, <2>1, ReplacedMoves
  <1> QED BY <1>3, <1>5, <1>7, <1>9

LEMMA SubscribesLists ==
    ASSUME NEW s \in DistStores, NEW id \in Ids, NEW hook,
           NEW t, t = subscribe_distribution_to_hook(s, id, hook)
    PROVE  /\ t.pending = s.pending /\ t.balance = s.balance
           /\ hook \in VpContracts => Listed(t.hooks[hook], id)
           /\ \A c \in VpContracts : \A i : Listed(s.hooks[c], i) => Listed(t.hooks[c], i)
  <1>1. s.hooks \in HookLists
    BY DEF DistStores, HookLists
  <1> DEFINE more == Append(s.hooks[hook], id)
  <1>2. t = [s EXCEPT !.hooks = [s.hooks EXCEPT ![hook] = more]]
    BY DEF subscribe_distribution_to_hook
  <1>3. hook \in VpContracts =>
            /\ Listed(more, id)
            /\ \A i : Listed(s.hooks[hook], i) => Listed(more, i)
    <2>1. SUFFICES ASSUME hook \in VpContracts
                   PROVE  /\ Listed(more, id)
                          /\ \A i : Listed(s.hooks[hook], i) => Listed(more, i)
      BY Zenon
    <2>2. s.hooks[hook] \in Seq(Ids)
      BY <1>1, <2>1 DEF HookLists
    <2> QED BY <2>2, AppendLists
  <1> HIDE DEF more
  <1>4. /\ t.hooks = [s.hooks EXCEPT ![hook] = more] /\ t.pending = s.pending /\ t.balance = s.balance
    BY <1>2 DEF DistStores
  <1>5. \A c \in VpContracts : t.hooks[c] = IF c = hook THEN more ELSE s.hooks[c]
    <2> DEFINE T == Seq(Ids)
    <2> HIDE DEF T
    <2>1. s.hooks \in [VpContracts -> T]
      BY <1>1 DEF HookLists, T
    <2> QED BY <1>4, <2>1
  <1> QED BY <1>3, <1>4, <1>5

LEMMA UnsubscribesLists ==
    ASSUME NEW s \in DistStores, NEW id \in Ids, NEW hook,
           NEW t, t = unsubscribe_distribution_from_hook(s, id, hook)
    PROVE  /\ t.pending = s.pending /\ t.balance = s.balance
           /\ \A c \in VpContracts : \A i : i # id /\ Listed(s.hooks[c], i) => Listed(t.hooks[c], i)
  <1>1. s.hooks \in HookLists
    BY DEF DistStores, HookLists
  <1> DEFINE less == Kept(id, s.hooks[hook])
  <1>2. t = [s EXCEPT !.hooks = [s.hooks EXCEPT ![hook] = less]]
    BY DEF unsubscribe_distribution_from_hook, Kept
  <1>3. hook \in VpContracts => \A i : i # id /\ Listed(s.hooks[hook], i) => Listed(less, i)
    <2>1. SUFFICES ASSUME hook \in VpContracts, NEW i, i # id, Listed(s.hooks[hook], i)
                   PROVE  Listed(less, i)
      BY Zenon
    <2>2. s.hooks[hook] \in Seq(Ids)
      BY <1>1, <2>1 DEF HookLists
    <2> DEFINE ids == s.hooks[hook]
    <2>3. ids \in Seq(Ids) /\ Listed(ids, i)
      BY <2>1, <2>2
    <2> HIDE DEF ids
    <2>4. Listed(Kept(id, ids), i)
      BY <2>1, <2>3, KeptOthers
    <2> QED BY <2>4 DEF ids
  <1> HIDE DEF less
  <1>4. /\ t.hooks = [s.hooks EXCEPT ![hook] = less] /\ t.pending = s.pending /\ t.balance = s.balance
    BY <1>2 DEF DistStores
  <1>5. \A c \in VpContracts : t.hooks[c] = IF c = hook THEN less ELSE s.hooks[c]
    <2> DEFINE T == Seq(Ids)
    <2> HIDE DEF T
    <2>1. s.hooks \in [VpContracts -> T]
      BY <1>1 DEF HookLists, T
    <2> QED BY <1>4, <2>1
  <1> QED BY <1>3, <1>4, <1>5

\* A distribution that was never funded.
LEMMA NewDistribution ==
    ASSUME NEW d, Sound(d), NEW b \in BlockType, d.funded = 0, d.started_at = Never, d.ends_at = Never,
           d.last_updated = Never, d.total_earned = 0, d.historical = 0
    PROVE  Timely(d, b) /\ Left(d) = 0 /\ Earned(d) = 0
  <1>1. get_exp_diff(Never, Never) = 0
    BY DEF get_exp_diff, Never
  <1>2. d.rate \in Rates /\ 0 = 0 \div 1
    BY DEF Sound, Dist
  <1>3. d.rate = Paused \/ d.rate = Immediate \/ (IsLinear(d.rate) /\ d.rate # Paused /\ d.rate # Immediate)
    BY <1>2, RateForms
  <1>4. Earned(d) = 0
    BY DEF Earned
  <1>5. Follows(d)
    BY DEF Follows
  <1>6. IsLinear(d.rate) =>
            /\ d.rate.amount * (0 \div d.rate.duration) = 0
            /\ (d.rate.amount * 0) \div d.rate.duration = 0
    <2>1. SUFFICES ASSUME IsLinear(d.rate)
                   PROVE  /\ d.rate.amount * (0 \div d.rate.duration) = 0
                          /\ (d.rate.amount * 0) \div d.rate.duration = 0
      BY Zenon
    <2>2. d.rate.amount \in Nat /\ d.rate.duration \in Nat \ {0}
      BY <1>2, <2>1 DEF Sound, Rates, Paused, Immediate, IsLinear
    <2> DEFINE a == d.rate.amount
               q == d.rate.duration
    <2>3. a \in Nat /\ q \in Nat \ {0}
      BY <2>2
    <2> HIDE DEF a, q
    <2>4. 0 \div q = 0 /\ a * 0 = 0
      BY <2>3
    <2> QED BY <2>3, <2>4 DEF a, q
  <1>7. get_total_rewards(d) = 0 /\ Distributed(d) = 0
    BY <1>1, <1>3, <1>6 DEF get_total_rewards, Distributed
  <1>8. Timely(d, b)
    BY <1>5, <1>7 DEF Timely
  <1> QED BY <1>4, <1>7, <1>8 DEF Left

\* A new distribution owes nothing.
LEMMA CreatedCovers ==
    ASSUME NEW s, DistInv(s), NEW b \in BlockType, NEW ev, DistCovers(s, b, ev),
           NEW d, Timely(d, b), Left(d) = 0, Earned(d) = 0,
           NEW t, DistInv(t), t.count = s.count + 1, t.dist = Append(s.dist, d),
           t.pending = s.pending, t.accounted = s.accounted, t.balance = s.balance, Reported(t)
    PROVE  DistCovers(t, b, ev)
  <1> DEFINE new == s.count + 1
  <1>1. s.dist \in Seq(Dist) /\ Len(s.dist) = s.count /\ s.count \in Nat /\ d \in Dist
    <2>1. s.dist \in Seq(Dist) /\ Len(s.dist) = s.count /\ s.count \in Nat
      BY DEF DistInv, DistStores
    <2>2. new \in 1 .. t.count
      BY <2>1
    <2>3. t.dist[new] \in Dist
      BY <2>2, LiveDist
    <2>4. t.dist[new] = d
      <3> HIDE DEF Dist
      <3> QED BY <2>1
    <2> QED BY <2>1, <2>3, <2>4
  <1>2. t.dist[new] = d /\ \A i \in 1 .. s.count : t.dist[i] = s.dist[i]
    <2> HIDE DEF Dist
    <2> QED BY <1>1, AppendProperties
  <1>3. \A i \in 1 .. t.count : i \in 1 .. s.count \/ i = new
    BY <1>1
  <1>4. \A i \in 1 .. t.count : Timely(t.dist[i], b)
    BY <1>2, <1>3 DEF DistCovers
  <1>5. new \in 1 .. t.count /\ new \in Ids /\ ~(new <= s.count)
    <2>1. new \in 1 .. t.count /\ ~(new <= s.count)
      BY <1>1
    <2> QED BY <2>1, LiveDist
  <1>6. Owed(t, b, new) = 0
    <2>1. \A u \in Users : s.pending[u][new] = 0 /\ s.accounted[u][new] = 0
      <3>1. SUFFICES ASSUME NEW u \in Users PROVE s.pending[u][new] = 0 /\ s.accounted[u][new] = 0
        BY Zenon
      <3>2. s.accounted[u][new] \in Nat /\ s.accounted[u][new] <= 0
        BY <1>5 DEF DistInv, DistStores, AccountedFor
      <3> QED BY <1>5, <3>2 DEF DistCovers
    <2>2. \A u \in Users : Due(t, b, new)[u] = 0
      <3>1. SUFFICES ASSUME NEW u \in Users PROVE Due(t, b, new)[u] = 0
        BY Zenon
      <3>2. Due(t, b, new)[u] = ScaleFactor * 0 + PeakAt(b, d.vp_contract)[u] * (0 - 0)
        BY <1>2, <2>1 DEF Due
      <3>3. PeakAt(b, d.vp_contract)[u] \in Nat /\ ScaleFactor \in Nat
        BY <1>1, PeakNat, RewardsAssumption DEF Dist, Power
      <3> QED BY <3>2, <3>3
    <2> HIDE DEF new
    <2>3. SumOver(Due(t, b, new), Users) = 0
      BY <2>2, UsersFinite, SumZero
    <2> QED BY <1>2, <2>3, RewardsAssumption DEF Owed
  <1> HIDE DEF new
  <1>7. \A u \in Users, i \in Ids : ~(i <= t.count) => t.pending[u][i] = 0
    <2>1. \A i \in Ids : ~(i <= t.count) => ~(i <= s.count)
      BY <1>1 DEF Ids
    <2> QED BY <2>1 DEF DistCovers
  <1>8. \A i \in 1 .. s.count : Owed(t, b, i) = Owed(s, b, i)
    <2>1. SUFFICES ASSUME NEW i \in 1 .. s.count PROVE Owed(t, b, i) = Owed(s, b, i)
      BY Zenon
    <2>2. t.dist[i] = s.dist[i]
      BY <1>2
    <2> QED BY <2>2 DEF Owed, Due
  <1>9. \A denom \in Denoms : (\A i \in Paying(t, denom) : ev[i]) => Enough(t, b, denom)
    <2>1. SUFFICES ASSUME NEW denom \in Denoms, \A i \in Paying(t, denom) : ev[i] PROVE Enough(t, b, denom)
      BY Zenon
    <2> DEFINE P == Paying(s, denom)
               Q == Paying(t, denom)
               f == [i \in P |-> Owed(s, b, i)]
               g == [i \in Q |-> Owed(t, b, i)]
    <2>2. IsFiniteSet(P) /\ P \subseteq 1 .. s.count /\ IsFiniteSet(Q) /\ Q \subseteq 1 .. t.count
      BY PayingFinite
    <2>3. P \subseteq Q /\ Q \subseteq P \cup {new} /\ new \notin P
      <3>1. \A i \in 1 .. s.count : i \in 1 .. t.count
        BY <1>1
      <3>2. new \notin 1 .. s.count
        BY <1>1, <1>5
      <3> QED BY <1>2, <1>3, <2>2, <3>1, <3>2 DEF Paying
    <2>4. Enough(s, b, denom)
      BY <2>1, <2>3 DEF DistCovers
    <2>5. SumOver(f, P) <= ScaleFactor * s.balance[denom]
      BY <2>4 DEF Enough, OwedOf
    <2>6. \A i \in Q : g[i] \in Int
      BY <2>2, OwedInt
    <2>7. \A i \in P : f[i] = g[i]
      BY <1>8, <2>2, <2>3
    <2>8. new \in Q => g[new] = 0
      BY <1>6
    <2> HIDE DEF P, Q, f, g
    <2>9. SumOver(f, P) = SumOver(g, P)
      BY <2>2, <2>7, SumSame
    <2>10. SumOver(g, Q) = SumOver(g, P)
      <3>1. CASE new \in Q
        <4>1. Q \ {new} = P
          BY <2>3
        <4>2. SumOver(g, Q) = g[new] + SumOver(g, Q \ {new})
          BY <2>2, <2>6, <3>1, SumRemove
        <4>3. SumOver(g, P) \in Int
          <5>1. \A i \in P : g[i] \in Int
            BY <2>3, <2>6
          <5> QED BY <2>2, <5>1, SumInt
        <4>4. SumOver(g, Q) = 0 + SumOver(g, P)
          BY <2>8, <3>1, <4>1, <4>2
        <4> QED BY <4>3, <4>4
      <3>2. CASE new \notin Q
        <4>1. Q = P
          BY <2>3, <3>2
        <4> QED BY <4>1
      <3> QED BY <3>1, <3>2
    <2>11. SumOver(g, Q) <= ScaleFactor * t.balance[denom]
      BY <2>5, <2>9, <2>10
    <2> QED BY <2>11 DEF Enough, OwedOf, Q, g
  <1> QED BY <1>4, <1>7, <1>9 DEF DistCovers

\* After a step within a block, later still says that every share counted enough power.
StaysEven(s, t, b, ev, later) ==
    \A id \in Ids :
        later[id] =>
            /\ ev[id]
            /\ id <= t.count => EarnedBy(t, id) = EarnedBy(s, id) \/ Fair(b, t.dist[id].vp_contract)
            /\ id <= s.count => t.dist[id].vp_contract = s.dist[id].vp_contract

LEMMA FewerCover ==
    ASSUME NEW s, DistInv(s), NEW b, NEW ev, DistCovers(s, b, ev), NEW later, \A id \in Ids : later[id] => ev[id]
    PROVE  DistCovers(s, b, later)
  <1>1. \A denom : \A id \in Paying(s, denom) : id \in Ids
    BY LiveDist DEF Paying
  <1> QED BY <1>1 DEF DistCovers

LEMMA FundCovers ==
    ASSUME NEW s, DistInv(s), NEW b \in BlockType, NEW ev, DistCovers(s, b, ev), NEW id \in 1 .. s.count,
           NEW amount \in Nat,
           NEW t, t \in execute_fund(Receives(s, s.dist[id].denom, amount), b, id, amount),
           NEW later, StaysEven(s, t, b, ev, later)
    PROVE  DistCovers(t, b, later)
  <1>1. /\ Moves(s, t, b, id, amount) /\ t.hooks = s.hooks
        /\ t.dist[id].hook_caller = s.dist[id].hook_caller
        /\ t.dist[id].vp_contract = s.dist[id].vp_contract
    BY FundMoves DEF DistCovers
  <1>2. t.count = s.count /\ \A i \in 1 .. s.count : t.dist[i].hook_caller = s.dist[i].hook_caller
    BY <1>1 DEF Moves, OnlyAt
  <1>3. Reported(t)
    BY <1>1, <1>2 DEF Reported, DistCovers
  <1>4. id \in Ids /\ id <= s.count /\ id <= t.count
    BY <1>2, LiveDist
  <1>5. later[id] => Earned(t.dist[id]) = Earned(s.dist[id]) \/ Fair(b, s.dist[id].vp_contract)
    BY <1>1, <1>4 DEF StaysEven, EarnedBy
  <1>6. \A i \in Ids : later[i] => ev[i]
    BY DEF StaysEven
  <1>7. amount \in Int
    OBVIOUS
  <1> QED BY <1>1, <1>3, <1>5, <1>6, <1>7, MovesCover

LEMMA FundNativeCovers ==
    ASSUME NEW s, DistInv(s), NEW b \in BlockType, NEW ev, DistCovers(s, b, ev), NEW id \in Ids,
           NEW amount \in Nat, NEW t, t \in execute_fund_native(s, b, id, amount),
           NEW later, StaysEven(s, t, b, ev, later)
    PROVE  DistCovers(t, b, later)
  <1>1. id <= s.count /\ t \in execute_fund(Receives(s, s.dist[id].denom, amount), b, id, amount)
    BY DEF execute_fund_native
  <1>2. id \in 1 .. s.count
    BY <1>1 DEF Ids, DistInv, DistStores
  <1> QED BY <1>1, <1>2, FundCovers

LEMMA FundCw20Covers ==
    ASSUME NEW s, DistInv(s), NEW b \in BlockType, NEW ev, DistCovers(s, b, ev), NEW id \in Ids,
           NEW amount \in Nat, NEW denom, NEW t, t \in execute_receive_cw20(s, b, denom, id, amount),
           NEW later, StaysEven(s, t, b, ev, later)
    PROVE  DistCovers(t, b, later)
  <1>1. /\ id <= s.count /\ denom = s.dist[id].denom
        /\ t \in execute_fund(Receives(s, denom, amount), b, id, amount)
    BY DEF execute_receive_cw20
  <1>2. id \in 1 .. s.count
    BY <1>1 DEF Ids, DistInv, DistStores
  <1> QED BY <1>1, <1>2, FundCovers

LEMMA CreateCovers ==
    ASSUME NEW s, DistInv(s), s.count < MaxDistributions, NEW b \in BlockType, NEW ev, DistCovers(s, b, ev),
           NEW sender \in Senders, NEW msg \in Creations, NEW amount \in Nat,
           NEW t, t \in execute_create(s, b, sender, msg, amount),
           NEW later, StaysEven(s, t, b, ev, later)
    PROVE  DistCovers(t, b, later)
  <1> DEFINE id == s.count + 1
             d == [denom |-> msg.denom, rate |-> msg.emission_rate, started_at |-> Never, ends_at |-> Never,
                   total_earned |-> 0, last_updated |-> Never, vp_contract |-> msg.vp_contract,
                   hook_caller |-> msg.hook_caller, funded |-> 0,
                   withdraw_destination |-> Given(msg.withdraw_destination, sender), historical |-> 0]
             r == [s EXCEPT !.count = id, !.dist = Append(@, d)]
             created == subscribe_distribution_to_hook(r, id, msg.hook_caller)
  <1>1. validate(msg.emission_rate)
        /\ (t = created \/ t \in execute_fund_native(created, b, id, amount))
    BY DEF execute_create
  <1>2. /\ msg.denom \in Denoms /\ msg.emission_rate \in Rates /\ msg.vp_contract \in VpContracts
        /\ msg.hook_caller \in HookCallers
    BY RewardInputAssumption DEF HookCallers
  <1>3. Given(msg.withdraw_destination, sender) \in Destinations
    BY DEF Given, Destinations
  <1>4. d \in Dist
    BY <1>2, <1>3, NeverType DEF Dist
  <1>5. /\ d.rate = msg.emission_rate /\ d.started_at = Never /\ d.ends_at = Never
        /\ d.total_earned = 0 /\ d.historical = 0 /\ d.funded = 0 /\ d.last_updated = Never
        /\ d.hook_caller = msg.hook_caller
    OBVIOUS
  <1> HIDE DEF d
  <1>6. Updatable(d) /\ Earned(d) = 0
    BY <1>1, <1>4, <1>5 DEF Updatable, Sound, Earned, validate
  <1>7. DistInv(r) /\ r.count = id
    BY <1>6, Created
  <1>8. id \in Ids /\ s.count \in Nat
    BY RewardsAssumption DEF DistInv, DistStores, Ids
  <1>9. /\ r.dist = Append(s.dist, d) /\ r.pending = s.pending /\ r.accounted = s.accounted
        /\ r.balance = s.balance /\ r.hooks = s.hooks /\ r \in DistStores
    BY <1>7 DEF DistInv, DistStores
  <1> HIDE DEF r
  <1>10. /\ created.count = r.count /\ created.dist = r.dist /\ created.accounted = r.accounted
         /\ created \in DistStores
    BY <1>8, <1>9, Subscribes
  <1>11. /\ created.pending = r.pending /\ created.balance = r.balance
         /\ msg.hook_caller \in VpContracts => Listed(created.hooks[msg.hook_caller], id)
         /\ \A c \in VpContracts : \A i : Listed(r.hooks[c], i) => Listed(created.hooks[c], i)
    <2> DEFINE hook == msg.hook_caller
    <2>1. created = subscribe_distribution_to_hook(r, id, hook)
      OBVIOUS
    <2> HIDE DEF created, id, hook
    <2>2. /\ created.pending = r.pending /\ created.balance = r.balance
          /\ hook \in VpContracts => Listed(created.hooks[hook], id)
          /\ \A c \in VpContracts : \A i : Listed(r.hooks[c], i) => Listed(created.hooks[c], i)
      <3>1. r \in DistStores /\ id \in Ids
        BY <1>8, <1>9
      <3>2. created.pending = r.pending /\ created.balance = r.balance
        BY <2>1, <3>1, SubscribesLists
      <3>3. hook \in VpContracts => Listed(created.hooks[hook], id)
        BY <2>1, <3>1, SubscribesLists
      <3>4. \A c \in VpContracts : \A i : Listed(r.hooks[c], i) => Listed(created.hooks[c], i)
        BY <2>1, <3>1, SubscribesLists
      <3> QED BY <3>2, <3>3, <3>4
    <2> QED BY <2>2 DEF hook
  <1> HIDE DEF created
  <1>12. DistInv(created)
    BY <1>7, <1>10, SameDistributions
  <1>13. /\ created.dist[id] = d /\ \A i \in 1 .. s.count : created.dist[i] = s.dist[i]
    <2>1. s.dist \in Seq(Dist) /\ Len(s.dist) = s.count
      BY DEF DistInv, DistStores
    <2> HIDE DEF Dist
    <2> QED BY <1>4, <1>9, <1>10, <2>1, AppendProperties
  <1>14. id \in 1 .. created.count /\ \A i \in 1 .. created.count : i \in 1 .. s.count \/ i = id
    BY <1>7, <1>8, <1>10
  <1>15. Reported(created)
    <2>1. SUFFICES ASSUME NEW i \in 1 .. created.count, created.dist[i].hook_caller \in VpContracts
                   PROVE  Listed(created.hooks[created.dist[i].hook_caller], i)
      BY DEF Reported
    <2>2. CASE i = id
      <3> HIDE DEF id
      <3> QED BY <1>5, <1>11, <1>13, <2>1, <2>2
    <2>3. CASE i \in 1 .. s.count
      <3>1. created.dist[i] = s.dist[i]
        BY <1>13, <2>3
      <3>2. Listed(s.hooks[s.dist[i].hook_caller], i)
        BY <2>1, <2>3, <3>1 DEF DistCovers, Reported
      <3> QED BY <1>9, <1>11, <2>1, <3>1, <3>2
    <2> QED BY <1>14, <2>2, <2>3
  <1>16. Timely(d, b) /\ Left(d) = 0
    <2>1. Sound(d)
      BY <1>6 DEF Updatable
    <2> QED BY <1>5, <2>1, NewDistribution
  <1>17. DistCovers(created, b, ev)
    BY <1>6, <1>7, <1>9, <1>10, <1>11, <1>12, <1>15, <1>16, CreatedCovers
  <1>18. CASE t = created
    <2>1. \A i \in Ids : later[i] => ev[i]
      BY DEF StaysEven
    <2> QED BY <1>12, <1>17, <1>18, <2>1, FewerCover
  <1>19. CASE t \in execute_fund_native(created, b, id, amount)
    <2>1. ASSUME NEW i \in Ids, later[i]
          PROVE  /\ ev[i]
                 /\ i <= t.count => EarnedBy(t, i) = EarnedBy(created, i) \/ Fair(b, t.dist[i].vp_contract)
                 /\ i <= created.count => t.dist[i].vp_contract = created.dist[i].vp_contract
      <3>1. /\ ev[i]
            /\ i <= t.count => EarnedBy(t, i) = EarnedBy(s, i) \/ Fair(b, t.dist[i].vp_contract)
            /\ i <= s.count => t.dist[i].vp_contract = s.dist[i].vp_contract
        BY <2>1 DEF StaysEven
      <3>2. EarnedBy(created, i) = EarnedBy(s, i)
        <4>1. CASE i \in 1 .. s.count
          <5>1. i <= s.count /\ i <= created.count
            BY <1>7, <1>8, <1>10, <4>1
          <5> QED BY <1>13, <4>1, <5>1 DEF EarnedBy
        <4>2. CASE i = id
          <5>1. ~(i <= s.count) /\ i <= created.count
            BY <1>7, <1>8, <1>10, <4>2
          <5> QED BY <1>6, <1>13, <4>2, <5>1 DEF EarnedBy
        <4>3. CASE i \notin 1 .. s.count /\ i # id
          <5>1. ~(i <= s.count) /\ ~(i <= created.count)
            BY <1>7, <1>8, <1>10, <4>3 DEF Ids
          <5> QED BY <5>1 DEF EarnedBy
        <4> QED BY <4>1, <4>2, <4>3
      <3>3. i <= created.count => t.dist[i].vp_contract = created.dist[i].vp_contract
        <4>1. CASE i \in 1 .. s.count
          <5>1. i <= s.count
            BY <1>8, <4>1
          <5> QED BY <1>13, <3>1, <4>1, <5>1
        <4>2. CASE i = id
          <5>1. t \in execute_fund(Receives(created, created.dist[id].denom, amount), b, id, amount)
            BY <1>19 DEF execute_fund_native
          <5>2. Timely(created.dist[id], b)
            BY <1>13, <1>16
          <5> HIDE DEF id
          <5>3. t.dist[id].vp_contract = created.dist[id].vp_contract
            BY <1>12, <1>14, <5>1, <5>2, FundMoves
          <5> QED BY <4>2, <5>3
        <4>3. CASE i \notin 1 .. s.count /\ i # id
          <5>1. ~(i <= created.count)
            BY <1>7, <1>8, <1>10, <4>3 DEF Ids
          <5> QED BY <5>1
        <4> QED BY <4>1, <4>2, <4>3
      <3> QED BY <3>1, <3>2, <3>3
    <2>2. StaysEven(created, t, b, ev, later)
      BY <2>1 DEF StaysEven
    <2> HIDE DEF id
    <2> QED BY <1>8, <1>12, <1>17, <1>19, <2>2, FundNativeCovers
  <1> QED BY <1>1, <1>18, <1>19

\* Taking back what is not distributed.
LEMMA WithdrawCovers ==
    ASSUME NEW s, DistInv(s), NEW b \in BlockType, NEW ev, DistCovers(s, b, ev), NEW id \in Ids,
           NEW sender, NEW t, t \in execute_withdraw(s, b, sender, id),
           NEW later, StaysEven(s, t, b, ev, later)
    PROVE  DistCovers(t, b, later)
  <1> DEFINE d == s.dist[id]
             e == [d EXCEPT !.ends_at = StoppedAt(d, b)]
             distributed == get_total_rewards(e)
             f == [e EXCEPT !.funded = distributed]
             r == [s EXCEPT !.dist[id] = f]
             amount == distributed - d.funded
  <1>1. /\ ~(id > s.count) /\ ~(distributed > d.funded)
        /\ t \in get_transfer_msg(r, d.denom, d.funded - distributed)
    BY Zenon DEF execute_withdraw
  <1>2. id \in 1 .. s.count
    BY <1>1 DEF DistInv, DistStores, Ids
  <1>3. Updatable(d) /\ Sound(d) /\ d.denom \in Denoms /\ d.funded \in Nat
    BY <1>2, LiveDist DEF Dist
  <1>4. Timely(d, b)
    BY <1>2 DEF DistCovers
  <1>5. Sound(e)
    <2>1. 0 \in Nat
      OBVIOUS
    <2> HIDE DEF d
    <2> QED BY <1>3, <2>1, WithdrawnKeeps
  <1>6. distributed \in Nat
    <2> HIDE DEF e
    <2> QED BY <1>5, RewardsNat
  <1>7. Sound(f)
    <2>1. Succeeds(d, f)
      <3> HIDE DEF d, distributed
      <3> QED BY <1>3, <1>6, WithdrawnKeeps
    <2> QED BY <2>1 DEF Succeeds, Updatable
  <1>8. /\ Affords(d, f, b, amount) /\ Timely(f, b) /\ f.denom = d.denom
        /\ f.vp_contract = d.vp_contract /\ f.hook_caller = d.hook_caller
    <2>1. e = [d EXCEPT !.ends_at = StoppedAt(d, b)] /\ f = [e EXCEPT !.funded = get_total_rewards(e)]
      OBVIOUS
    <2>2. get_total_rewards(e) <= d.funded /\ amount = get_total_rewards(e) - d.funded
      BY <1>1, <1>3, <1>6
    <2> HIDE DEF d, e, f, amount
    <2>3. Affords(d, f, b, amount)
      BY <1>3, <1>4, <1>5, <1>7, <2>1, <2>2, WithdrawalAffords
    <2>4. Timely(f, b)
      BY <1>3, <1>4, <1>5, <1>7, <2>1, <2>2, WithdrawalAffords
    <2>5. f.denom = d.denom /\ f.vp_contract = d.vp_contract /\ f.hook_caller = d.hook_caller
      BY <1>3, <2>1 DEF Dist
    <2> QED BY <2>3, <2>4, <2>5
  <1>9. amount \in Int
    BY <1>3, <1>6
  <1>10. t = [r EXCEPT !.balance[d.denom] = @ - (d.funded - distributed)]
    BY <1>1 DEF get_transfer_msg, Ok
  <1>11. DistInv(t)
    <2>1. t \in SafeStores
      BY Zenon, WithdrawKeeps
    <2> QED BY <2>1, SafeStore
  <1> HIDE DEF f, distributed, amount
  <1>12. /\ t.count = s.count /\ t.dist = [s.dist EXCEPT ![id] = f] /\ t.pending = s.pending
         /\ t.accounted = s.accounted /\ t.hooks = s.hooks
         /\ t.balance = [s.balance EXCEPT ![d.denom] = @ - (d.funded - distributed)]
    BY <1>10 DEF DistInv, DistStores
  <1>13. t.balance = [s.balance EXCEPT ![d.denom] = @ + amount]
    <2>1. s.balance[d.denom] \in Int
      BY <1>3 DEF DistInv, DistStores
    <2>2. s.balance[d.denom] - (d.funded - distributed) = s.balance[d.denom] + amount
      BY <1>3, <1>6, <2>1 DEF amount
    <2> QED BY <1>12, <2>2
  <1>14. Replaces(s, t, id, f, amount)
    BY <1>12, <1>13 DEF Replaces
  <1>15. Moves(s, t, b, id, amount) /\ t.dist[id] = f
    BY <1>2, <1>8, <1>9, <1>11, <1>14, ReplacedMoves
  <1>16. Reported(t)
    <2>1. \A i \in 1 .. s.count : t.dist[i].hook_caller = s.dist[i].hook_caller
      BY <1>8, <1>15 DEF Moves, OnlyAt
    <2> QED BY <1>12, <2>1 DEF Reported, DistCovers
  <1>17. later[id] => Earned(t.dist[id]) = Earned(s.dist[id]) \/ Fair(b, s.dist[id].vp_contract)
    <2>1. id <= s.count /\ id <= t.count
      BY <1>2, <1>12, LiveDist
    <2>2. t.dist[id].vp_contract = s.dist[id].vp_contract
      BY <1>8, <1>15
    <2> QED BY <2>1, <2>2 DEF StaysEven, EarnedBy
  <1>18. \A i \in Ids : later[i] => ev[i]
    BY DEF StaysEven
  <1>19. t.dist[id].vp_contract = s.dist[id].vp_contract
    BY <1>8, <1>15
  <1> QED BY <1>2, <1>9, <1>15, <1>16, <1>17, <1>18, <1>19, MovesCover

\* A claim pays what was pending.
LEMMA ClaimCovers ==
    ASSUME NEW s, DistInv(s), NEW b \in BlockType, NEW ev, DistCovers(s, b, ev), NEW id \in Ids,
           NEW u \in Users, NEW t, t \in execute_claim(s, b, u, id),
           NEW later, StaysEven(s, t, b, ev, later)
    PROVE  DistCovers(t, b, later)
  <1>1. PICK r \in update_rewards(s, b, u, id) :
            t \in IF r.pending[u][id] = 0 THEN {}
                  ELSE get_transfer_msg([r EXCEPT !.pending[u][id] = 0,
                                                  !.paid[u][id] = @ + r.pending[u][id]],
                                        r.dist[id].denom, r.pending[u][id])
    BY DEF execute_claim
  <1> DEFINE amount == r.pending[u][id]
             denom == r.dist[id].denom
             vp == r.dist[id].vp_contract
  <1>2. Drawn(s, r, b) /\ id \in 1 .. s.count
    BY UpdateRewardsDraws DEF DistCovers
  <1>3. DistInv(r) /\ r.count = s.count /\ id \in 1 .. r.count
    BY <1>2 DEF Drawn
  <1>4. denom \in Denoms /\ amount \in Int /\ vp \in VpContracts /\ r.balance \in [Denoms -> Int]
        /\ r.pending \in [Users -> [Ids -> Int]]
    BY <1>3, LiveDist DEF DistInv, DistStores
  <1>5. /\ t.count = r.count /\ t.dist = r.dist /\ t.accounted = r.accounted /\ t.hooks = r.hooks
        /\ t.pending = [r.pending EXCEPT ![u][id] = 0]
        /\ t.balance = [r.balance EXCEPT ![denom] = @ - amount]
    BY <1>1, <1>3 DEF get_transfer_msg, Ok, DistInv, DistStores
  <1>6. DistInv(t)
    BY ClaimKeeps
  <1>7. /\ t.pending[u][id] = 0
        /\ \A v \in Users : \A i \in Ids : v # u \/ i # id => t.pending[v][i] = r.pending[v][i]
    BY <1>4, <1>5
  <1>8. OnlyAt(r, t, id)
    BY <1>5, <1>7 DEF OnlyAt
  <1>9. /\ \A i \in 1 .. s.count : later[i] =>
               Earned(r.dist[i]) = Earned(s.dist[i]) \/ Fair(b, s.dist[i].vp_contract)
        /\ \A i \in Ids : later[i] => ev[i]
    <2>1. ASSUME NEW i \in 1 .. s.count, later[i]
          PROVE  Earned(r.dist[i]) = Earned(s.dist[i]) \/ Fair(b, s.dist[i].vp_contract)
      <3>1. i \in Ids /\ i <= s.count /\ i <= t.count
        BY <1>3, <1>5, LiveDist
      <3>2. t.dist[i] = r.dist[i] /\ r.dist[i].vp_contract = s.dist[i].vp_contract
        BY <1>2, <1>5 DEF Drawn
      <3> QED BY <2>1, <3>1, <3>2 DEF StaysEven, EarnedBy
    <2> QED BY <2>1 DEF StaysEven
  <1>10. DistCovers(r, b, later)
    BY <1>2, <1>9, DrawnCovers
  <1>11. Owed(t, b, id) <= Owed(r, b, id) + ScaleFactor * (0 - amount)
    <2> DEFINE f == Due(r, b, id)
               g == Due(t, b, id)
               k == ScaleFactor * (0 - amount)
    <2>1. id \in 1 .. t.count
      BY <1>3, <1>5
    <2>2. /\ \A v \in Users : f[v] \in Int
          /\ SumOver(f, Users) \in Int
          /\ Owed(r, b, id) = SumOver(f, Users) + ScaleFactor * Left(r.dist[id])
          /\ ScaleFactor * Left(r.dist[id]) \in Int
      BY <1>3, OwedInt
    <2>3. \A v \in Users : g[v] \in Int
      BY <1>6, <2>1, OwedInt
    <2>4. Owed(t, b, id) = SumOver(g, Users) + ScaleFactor * Left(r.dist[id])
      BY <1>5 DEF Owed
    <2>5. k \in Int
      BY <1>4, RewardsAssumption
    <2>6. \A v \in Users \ {u} : g[v] = f[v]
      BY <1>5, <1>7 DEF Due
    <2>7. g[u] <= f[u] + k
      <3> DEFINE more == PeakAt(b, vp)[u] * (Earned(r.dist[id]) - r.accounted[u][id])
      <3>1. f[u] = ScaleFactor * amount + more /\ g[u] = ScaleFactor * 0 + more
        BY <1>5, <1>7 DEF Due
      <3>2. more \in Int
        <4> DEFINE gap == Earned(r.dist[id]) - r.accounted[u][id]
                   p == PeakAt(b, vp)[u]
        <4>1. gap \in Int /\ p \in Int
          BY <1>3, <1>4, LiveDist, PeakNat DEF Power
        <4> HIDE DEF gap, p
        <4>2. p * gap \in Int
          BY <4>1
        <4> QED BY <4>2 DEF gap, p
      <3> HIDE DEF more, f, g, amount
      <3>3. /\ ScaleFactor * (0 - amount) = 0 - ScaleFactor * amount /\ ScaleFactor * 0 = 0
            /\ ScaleFactor * amount \in Int
        BY <1>4, RewardsAssumption
      <3> QED BY <3>1, <3>2, <3>3
    <2> HIDE DEF f, g, k
    <2>8. SumOver(g, Users) <= SumOver(f, Users) + k
      BY <2>2, <2>3, <2>5, <2>6, <2>7, UsersFinite, OneGrows
    <2>9. SumOver(g, Users) \in Int
      BY <2>3, UsersFinite, SumInt
    <2>10. Owed(t, b, id) <= Owed(r, b, id) + k
      BY <2>2, <2>4, <2>5, <2>8, <2>9
    <2> QED BY <2>10 DEF k
  <1>12. t.balance = [r.balance EXCEPT ![denom] = @ + (0 - amount)]
    <2>1. r.balance[denom] - amount = r.balance[denom] + (0 - amount)
      BY <1>4
    <2> QED BY <1>5, <2>1
  <1>13. Moves(r, t, b, id, 0 - amount)
    <2>1. Timely(t.dist[id], b) /\ t.dist[id].denom = r.dist[id].denom
      BY <1>2, <1>5 DEF Drawn
    <2> QED BY <1>6, <1>8, <1>11, <1>12, <2>1 DEF Moves
  <1>14. Reported(t)
    BY <1>5, <1>10 DEF Reported, DistCovers
  <1>15. 0 - amount \in Int /\ t.dist[id] = r.dist[id]
    BY <1>4, <1>5
  <1> HIDE DEF amount
  <1> QED BY <1>3, <1>10, <1>13, <1>14, <1>15, MovesCover

LEMMA AffordsRenamed ==
    ASSUME NEW d, NEW e, NEW f, NEW b, NEW amount, Earned(f) = Earned(e), Left(f) = Left(e),
           Affords(d, e, b, amount)
    PROVE  Affords(d, f, b, amount)
  BY DEF Affords

\* Another rate, contract, hook caller or destination.
LEMMA UpdateCovers ==
    ASSUME NEW s, DistInv(s), NEW b \in BlockType, NEW ev, DistCovers(s, b, ev), NEW id \in Ids,
           NEW sender, NEW msg \in Updates, NEW t, t \in execute_update(s, b, sender, id, msg),
           NEW later, StaysEven(s, t, b, ev, later)
    PROVE  DistCovers(t, b, later)
  <1> DEFINE d == s.dist[id]
             Updated(x) ==
                 [x EXCEPT !.vp_contract = Given(msg.vp_contract, @),
                           !.hook_caller = Given(msg.hook_caller, @),
                           !.withdraw_destination = Given(msg.withdraw_destination, @)]
             Subscribed(r, x) ==
                 IF msg.hook_caller = {} THEN r
                 ELSE subscribe_distribution_to_hook(
                          unsubscribe_distribution_from_hook(r, id, d.hook_caller), id, x.hook_caller)
             Transitioned ==
                 IF msg.emission_rate = {} THEN {d}
                 ELSE UNION {transition_epoch(d, r, b) : r \in {q \in msg.emission_rate : validate(q)}}
  <1>1. /\ ~(id > s.count)
        /\ \E e \in Transitioned : t = Subscribed([s EXCEPT !.dist[id] = Updated(e)], Updated(e))
    <2> DEFINE Result(x) == Subscribed([s EXCEPT !.dist[id] = x], x)
    <2>1. execute_update(s, b, sender, id, msg) =
              IF sender # s.owner \/ id > s.count THEN {}
              ELSE {Result(x) : x \in {Updated(e) : e \in Transitioned}}
      BY Zenon DEF execute_update
    <2>2. ~(id > s.count) /\ \E e \in Transitioned : t = Result(Updated(e))
      <3> HIDE DEF Result, Updated, Transitioned
      <3> QED BY <2>1
    <2> QED BY Zenon, <2>2
  <1>2. PICK e \in Transitioned : t = Subscribed([s EXCEPT !.dist[id] = Updated(e)], Updated(e))
    BY Zenon, <1>1
  <1>3. id \in 1 .. s.count
    BY <1>1 DEF DistInv, DistStores, Ids
  <1>4. Updatable(d) /\ Sound(d) /\ Timely(d, b) /\ Left(d) \in Int /\ Earned(d) \in Nat
    BY <1>3, LiveDist DEF DistCovers
  <1>5. /\ Succeeds(d, e) /\ Affords(d, e, b, 0) /\ Timely(e, b) /\ e.denom = d.denom
        /\ e.hook_caller = d.hook_caller
    <2>1. CASE e = d
      <3>1. Affords(d, d, b, 0)
        <4>1. Left(d) <= Left(d) + 0 /\ 0 \in Int
          BY <1>4
        <4> HIDE DEF d
        <4> QED BY <1>4, <4>1, NothingEarned
      <3> HIDE DEF d
      <3> QED BY <1>4, <2>1, <3>1 DEF Succeeds
    <2>2. CASE e # d
      <3>1. PICK r \in msg.emission_rate : validate(r) /\ e \in transition_epoch(d, r, b)
        BY <1>2, <2>2
      <3>2. r \in Rates
        BY RewardInputAssumption
      <3> HIDE DEF d
      <3>3. Succeeds(d, e)
        BY <1>4, <3>1, <3>2, TransitionKeeps
      <3>4. Sound(e)
        BY <3>3 DEF Succeeds, Updatable
      <3>5. Affords(d, e, b, 0) /\ Timely(e, b)
        BY <1>4, <3>1, <3>2, <3>4, TransitionAffords
      <3>6. e.denom = d.denom /\ e.hook_caller = d.hook_caller
        BY <1>4, <3>1, <3>2, <3>4, TransitionAffords
      <3> QED BY <3>3, <3>5, <3>6
    <2> QED BY <2>1, <2>2
  <1> DEFINE c == Given(msg.vp_contract, e.vp_contract)
             k == Given(msg.hook_caller, e.hook_caller)
             w == Given(msg.withdraw_destination, e.withdraw_destination)
             f == Updated(e)
             r == [s EXCEPT !.dist[id] = f]
             q == unsubscribe_distribution_from_hook(r, id, d.hook_caller)
  <1>6. f = [e EXCEPT !.vp_contract = c, !.hook_caller = k, !.withdraw_destination = w]
    OBVIOUS
  <1>7. t = IF msg.hook_caller = {} THEN r ELSE subscribe_distribution_to_hook(q, id, f.hook_caller)
    BY <1>2
  <1>8. msg.hook_caller = {} => k = d.hook_caller
    BY <1>5 DEF Given
  <1>9. Sound(e)
    BY <1>5 DEF Succeeds, Updatable
  <1> HIDE DEF c, k, w, f
  <1>10. /\ Timely(f, b) /\ Left(f) = Left(e) /\ Earned(f) = Earned(e)
         /\ f.denom = e.denom /\ f.vp_contract = c /\ f.hook_caller = k
    <2> HIDE DEF d, Transitioned, Updated, Subscribed, r, q
    <2>1. Timely(e, b)
      BY <1>5
    <2>2. f = Redirected(e, c, k, w)
      BY <1>6 DEF Redirected
    <2> QED BY <1>9, <2>1, <2>2, RenamedAffords
  <1>11. f.denom = d.denom /\ f.vp_contract = c /\ f.hook_caller = k
    BY <1>5, <1>10
  <1>12. Affords(d, f, b, 0)
    BY <1>5, <1>10, AffordsRenamed
  <1>13. DistInv(t)
    <2>1. t \in SafeStores
      BY Zenon, UpdateKeeps
    <2> QED BY <2>1, SafeStore
  <1>14. r \in DistStores
    <2>1. f \in Dist
      <3>1. c \in VpContracts /\ k \in HookCallers /\ w \in Destinations
        <4>1. e.vp_contract \in VpContracts /\ e.hook_caller \in HookCallers /\ e.withdraw_destination \in Destinations
          BY <1>9 DEF Sound, Dist
        <4>2. msg.vp_contract \subseteq VpContracts
          BY RewardInputAssumption
        <4>3. msg.hook_caller \subseteq HookCallers
          BY DEF HookCallers
        <4>4. msg.withdraw_destination \subseteq Destinations
          BY DEF Destinations
        <4> QED BY <4>1, <4>2, <4>3, <4>4, GivenIn DEF c, k, w
      <3>2. Succeeds(d, [e EXCEPT !.vp_contract = c, !.hook_caller = k, !.withdraw_destination = w])
        BY <1>5, <3>1, RenamedKeeps
      <3> QED BY <1>6, <3>2 DEF Succeeds, Updatable, Sound
    <2>2. s.dist \in Seq(Dist) /\ Len(s.dist) = s.count /\ s \in DistStores
      BY DEF DistInv, DistStores
    <2> DEFINE dist == [s.dist EXCEPT ![id] = f]
    <2>3. dist \in Seq(Dist)
      <3> HIDE DEF Dist
      <3> QED BY <1>3, <2>1, <2>2, ExceptSeq
    <2>4. r = [s EXCEPT !.dist = dist]
      OBVIOUS
    <2> HIDE DEF dist, r
    <2> QED BY <2>2, <2>3, <2>4 DEF DistStores
  <1>15. /\ r.count = s.count /\ r.dist = [s.dist EXCEPT ![id] = f] /\ r.pending = s.pending
         /\ r.accounted = s.accounted /\ r.balance = s.balance /\ r.hooks = s.hooks
    BY DEF DistInv, DistStores
  <1> HIDE DEF r
  <1>16. /\ q \in DistStores /\ q.count = r.count /\ q.dist = r.dist /\ q.accounted = r.accounted
    BY <1>14, Unsubscribes
  <1>17. q.pending = r.pending /\ q.balance = r.balance
    <2> DEFINE hook == d.hook_caller
    <2> HIDE DEF hook
    <2>1. q = unsubscribe_distribution_from_hook(r, id, hook)
      BY DEF hook
    <2> HIDE DEF q
    <2> QED BY <1>14, <2>1, UnsubscribesLists
  <1>18. \A v \in VpContracts : \A i : i # id /\ Listed(r.hooks[v], i) => Listed(q.hooks[v], i)
    <2> DEFINE hook == d.hook_caller
    <2>1. q = unsubscribe_distribution_from_hook(r, id, hook)
      OBVIOUS
    <2> HIDE DEF q, hook
    <2> QED BY <1>14, <2>1, UnsubscribesLists
  <1> HIDE DEF q
  <1> DEFINE p == subscribe_distribution_to_hook(q, id, k)
  <1>19. t = IF msg.hook_caller = {} THEN r ELSE p
    BY <1>7, <1>11
  <1>20. p \in DistStores /\ p.count = q.count /\ p.dist = q.dist /\ p.accounted = q.accounted
    BY <1>16, Subscribes
  <1>21. p.pending = q.pending /\ p.balance = q.balance
    <2>1. q \in DistStores /\ p = subscribe_distribution_to_hook(q, id, k)
      BY <1>16
    <2> HIDE DEF p
    <2> QED BY <2>1, SubscribesLists
  <1>22. k \in VpContracts => Listed(p.hooks[k], id)
    <2>1. q \in DistStores /\ p = subscribe_distribution_to_hook(q, id, k)
      BY <1>16
    <2> HIDE DEF p
    <2> QED BY <2>1, SubscribesLists
  <1>23. \A v \in VpContracts : \A i : Listed(q.hooks[v], i) => Listed(p.hooks[v], i)
    <2>1. q \in DistStores /\ p = subscribe_distribution_to_hook(q, id, k)
      BY <1>16
    <2> HIDE DEF p
    <2> QED BY <2>1, SubscribesLists
  <1> HIDE DEF p
  <1>24. /\ t.count = s.count /\ t.dist = [s.dist EXCEPT ![id] = f] /\ t.pending = s.pending
         /\ t.accounted = s.accounted /\ t.balance = s.balance
    BY <1>15, <1>16, <1>17, <1>19, <1>20, <1>21
  <1>25. t.balance = [s.balance EXCEPT ![d.denom] = @ + 0]
    <2>1. s.balance \in [Denoms -> Int] /\ d.denom \in Denoms
      BY <1>3, LiveDist DEF DistInv, DistStores
    <2>2. s.balance[d.denom] + 0 = s.balance[d.denom]
      BY <2>1
    <2> QED BY <1>24, <2>1, <2>2
  <1>26. Replaces(s, t, id, f, 0)
    BY <1>24, <1>25 DEF Replaces
  <1>27. Moves(s, t, b, id, 0) /\ t.dist[id] = f
    <2>1. 0 \in Int
      OBVIOUS
    <2> QED BY <1>3, <1>10, <1>11, <1>12, <1>13, <1>26, <2>1, ReplacedMoves
  <1>28. \A i \in 1 .. s.count : i # id => t.dist[i] = s.dist[i]
    BY <1>27 DEF Moves, OnlyAt
  <1>29. Reported(t)
    <2>1. SUFFICES ASSUME NEW i \in 1 .. s.count, t.dist[i].hook_caller \in VpContracts
                   PROVE  Listed(t.hooks[t.dist[i].hook_caller], i)
      BY <1>24 DEF Reported
    <2>2. CASE i = id
      <3>1. t.dist[i].hook_caller = k
        BY <1>11, <1>27, <2>2
      <3>2. CASE msg.hook_caller = {}
        <4>1. Listed(s.hooks[d.hook_caller], id)
          BY <1>3, <1>8, <2>1, <3>1, <3>2 DEF DistCovers, Reported
        <4> QED BY <1>8, <1>15, <1>19, <2>2, <3>1, <3>2, <4>1
      <3>3. CASE msg.hook_caller # {}
        BY <1>19, <1>22, <2>1, <2>2, <3>1, <3>3
      <3> QED BY <3>2, <3>3
    <2>3. CASE i # id
      <3>1. t.dist[i].hook_caller = s.dist[i].hook_caller
        BY <1>28, <2>3
      <3>2. Listed(r.hooks[t.dist[i].hook_caller], i)
        BY <1>15, <2>1, <3>1 DEF DistCovers, Reported
      <3> QED BY <1>18, <1>19, <1>23, <2>1, <2>3, <3>2
    <2> QED BY <2>2, <2>3
  <1>30. /\ later[id] => /\ t.dist[id].vp_contract = s.dist[id].vp_contract
                         /\ Earned(t.dist[id]) = Earned(s.dist[id]) \/ Fair(b, s.dist[id].vp_contract)
         /\ \A i \in Ids : later[i] => ev[i]
    <2>1. id <= s.count /\ id <= t.count
      BY <1>3, <1>24, LiveDist
    <2> QED BY <2>1 DEF StaysEven, EarnedBy
  <1>31. 0 \in Int
    OBVIOUS
  <1> QED BY <1>3, <1>27, <1>29, <1>30, <1>31, MovesCover

\* Voting power falls, or grows for members who have all that was earned accounted for.
LEMMA PowerCovers ==
    ASSUME NEW s, DistInv(s), NEW b \in BlockType, NEW ev, DistCovers(s, b, ev),
           NEW c \in BlockType, b.height <= c.height, NEW later, \A i \in Ids : later[i] => ev[i],
           \A i \in 1 .. s.count : later[i] =>
               \A u \in Users : \/ PeakAt(c, s.dist[i].vp_contract)[u] <= PeakAt(b, s.dist[i].vp_contract)[u]
                                \/ s.accounted[u][i] = Earned(s.dist[i])
    PROVE  DistCovers(s, c, later)
  <1>1. \A i \in 1 .. s.count : Timely(s.dist[i], c)
    <2>1. \A i \in 1 .. s.count : Timely(s.dist[i], b) /\ Sound(s.dist[i])
      BY LiveDist DEF DistCovers
    <2> QED BY <2>1, TimelyLater
  <1>2. ASSUME NEW i \in 1 .. s.count, later[i]
        PROVE  Owed(s, c, i) <= Owed(s, b, i)
    <2> DEFINE d == s.dist[i]
               v == d.vp_contract
               f == Due(s, b, i)
               g == Due(s, c, i)
    <2>1. v \in VpContracts /\ Earned(d) \in Nat
          /\ \A u \in Users : s.accounted[u][i] \in Nat /\ s.accounted[u][i] <= Earned(d) /\ s.pending[u][i] \in Int
      BY LiveDist
    <2>2. \A u \in Users : f[u] \in Int /\ g[u] \in Int
      BY OwedInt
    <2>3. \A u \in Users : g[u] <= f[u]
      <3>1. SUFFICES ASSUME NEW u \in Users PROVE g[u] <= f[u]
        BY Zenon
      <3> DEFINE more == Earned(d) - s.accounted[u][i]
                 before == PeakAt(b, v)[u]
                 after == PeakAt(c, v)[u]
                 base == ScaleFactor * s.pending[u][i]
      <3>2. f[u] = base + before * more /\ g[u] = base + after * more
        BY OwedInt
      <3>3. before \in Nat /\ after \in Nat
        BY <2>1, PeakNat DEF Power
      <3>4. more \in Nat /\ base \in Int
        BY <2>1, RewardsAssumption
      <3>5. after <= before \/ more = 0
        BY <1>2, <2>1
      <3>6. before * more = more * before /\ after * more = more * after
            /\ before * more \in Int /\ after * more \in Int
        <4> HIDE DEF more, before, after
        <4> QED BY <3>3, <3>4
      <3>7. after * more <= before * more
        <4> HIDE DEF more, before, after
        <4>1. CASE after <= before
          <5>1. after \in Int /\ before \in Int
            BY <3>3
          <5> QED BY <3>4, <3>6, <4>1, <5>1, Scale
        <4>2. CASE more = 0
          BY <3>3, <3>6, <4>2
        <4> QED BY <3>5, <4>1, <4>2
      <3> HIDE DEF more, before, after, base, f, g
      <3> QED BY <3>2, <3>4, <3>6, <3>7
    <2>4. SumOver(g, Users) <= SumOver(f, Users)
      <3> HIDE DEF f, g
      <3> QED BY <2>2, <2>3, UsersFinite, SumMonotone
    <2>5. /\ Owed(s, b, i) = SumOver(f, Users) + ScaleFactor * Left(d)
          /\ Owed(s, c, i) = SumOver(g, Users) + ScaleFactor * Left(d)
          /\ SumOver(f, Users) \in Int /\ SumOver(g, Users) \in Int /\ ScaleFactor * Left(d) \in Int
      BY OwedInt
    <2> HIDE DEF d, f, g
    <2> QED BY <2>4, <2>5
  <1>3. \A denom \in Denoms : (\A i \in Paying(s, denom) : later[i]) => Enough(s, c, denom)
    <2>1. SUFFICES ASSUME NEW denom \in Denoms, \A i \in Paying(s, denom) : later[i]
                   PROVE  Enough(s, c, denom)
      BY Zenon
    <2> DEFINE P == Paying(s, denom)
               f == [i \in P |-> Owed(s, b, i)]
               g == [i \in P |-> Owed(s, c, i)]
    <2>2. IsFiniteSet(P) /\ P \subseteq 1 .. s.count
      BY PayingFinite
    <2>3. \A i \in P : ev[i]
      <3>1. \A i \in P : i \in Ids
        BY <2>2, LiveDist
      <3> QED BY <2>1, <3>1
    <2>4. SumOver(f, P) <= ScaleFactor * s.balance[denom]
      BY <2>3 DEF DistCovers, Enough, OwedOf
    <2>5. \A i \in P : Owed(s, b, i) \in Int /\ Owed(s, c, i) \in Int /\ Owed(s, c, i) <= Owed(s, b, i)
      BY <1>2, <2>1, <2>2, OwedInt
    <2>6. \A i \in P : f[i] \in Int /\ g[i] \in Int /\ g[i] <= f[i]
      BY <2>5
    <2>7. ScaleFactor * s.balance[denom] \in Int
      BY RewardsAssumption DEF DistInv, DistStores
    <2>8. SumOver(g, P) <= ScaleFactor * s.balance[denom]
      <3> HIDE DEF f, g, P
      <3>1. SumOver(g, P) <= SumOver(f, P)
        BY <2>2, <2>6, SumMonotone
      <3>2. SumOver(f, P) \in Int /\ SumOver(g, P) \in Int
        BY <2>2, <2>6, SumInt
      <3> QED BY <2>4, <2>7, <3>1, <3>2
    <2> QED BY <2>8 DEF Enough, OwedOf
  <1> QED BY <1>1, <1>3 DEF DistCovers

\* What a distribution holds that is not earned yet.
Rest(d, b) ==
    d.funded - get_total_rewards(
                   [d EXCEPT !.ends_at = IF d.ends_at = Never THEN Never ELSE UpTo(b, d.ends_at)])

\* It is no more than what the distribution has left once it is up to date.
LEMMA RestIsLeft ==
    ASSUME NEW d, Updatable(d), NEW b \in BlockType, NEW e, e = UpToDate(d, b)
    PROVE  Rest(d, b) \in Int /\ Rest(d, b) <= Left(e)
  <1> DEFINE ends == IF d.ends_at = Never THEN Never ELSE UpTo(b, d.ends_at)
             f == [d EXCEPT !.ends_at = ends]
             total == get_active_total_earned_puvp(d, b)
  <1>1. Sound(d) /\ d \in Dist
    BY DEF Updatable, Sound
  <1>2. total \in Nat /\ (d.rate.kind = "paused" => total = 0)
    BY <1>1, Accrues
  <1>3. e = bump_last_updated([d EXCEPT !.total_earned = total], b)
    BY DEF UpToDate
  <1> HIDE DEF total
  <1>4. /\ Sound(e) /\ e.rate = d.rate /\ e.started_at = d.started_at /\ e.last_updated = ends
        /\ e.funded = d.funded
    BY <1>1, <1>2, <1>3, BumpForm
  <1>5. ends \in Exp
    BY <1>1, NeverType, Times DEF Dist
  <1> HIDE DEF ends
  <1>6. f.rate = d.rate /\ f.started_at = d.started_at /\ f.ends_at = ends /\ f.funded = d.funded
    BY <1>1 DEF Dist
  <1>7. Rest(d, b) = d.funded - get_total_rewards(f)
    BY DEF Rest, ends
  <1>8. Left(e) = d.funded - Distributed(e) /\ Distributed(e) \in Nat /\ d.funded \in Nat
    BY <1>4, LeftInt
  <1> HIDE DEF f
  <1>9. get_total_rewards(f) \in Nat /\ Distributed(e) <= get_total_rewards(f)
    <2>1. CASE ~IsLinear(d.rate)
      <3>1. d.rate = Paused \/ d.rate = Immediate
        BY <1>1, <2>1, OtherForm
      <3>2. Distributed(e) = get_total_rewards(f)
        BY <1>4, <1>6, <3>1 DEF Distributed, get_total_rewards
      <3> QED BY <1>8, <3>2
    <2>2. CASE IsLinear(d.rate)
      <3> DEFINE x == get_exp_diff(ends, d.started_at)
                 a == d.rate.amount
                 q == d.rate.duration
      <3>1. a \in Nat /\ q \in Nat \ {0} /\ d.rate # Paused /\ d.rate # Immediate
        BY <1>1, <2>2, RateForms DEF Sound, Dist
      <3>2. x \in Nat
        BY <1>1, <1>5, TimesDiffer DEF Dist
      <3>3. get_total_rewards(f) = (a * x) \div q /\ Distributed(e) = a * (x \div q)
        BY <1>4, <1>6, <3>1 DEF Distributed, get_total_rewards
      <3> HIDE DEF x, a, q
      <3> QED BY <3>1, <3>2, <3>3, PeriodsFit
    <2> QED BY <2>1, <2>2
  <1> QED BY <1>7, <1>8, <1>9

\* What members may claim of a distribution, with what it holds that is not earned yet, is no
\* more than what is owed, if their power at the start of the block counts.
LEMMA OwedByMost ==
    ASSUME NEW s, DistInv(s), NEW b \in BlockType, NEW id \in 1 .. s.count, Timely(s.dist[id], b),
           Total(b.voting[s.dist[id].vp_contract].start) <= get_prev_block_total_vp(b, s.dist[id].vp_contract),
           NEW due, due = [u \in Users |-> query_pending_rewards(s, b, u, id)]
    PROVE  /\ Total(due) + Rest(s.dist[id], b) \in Int
           /\ ScaleFactor * (Total(due) + Rest(s.dist[id], b)) <= Owed(s, b, id)
  <1> DEFINE d == s.dist[id]
             e == UpToDate(d, b)
             c == d.vp_contract
             start == b.voting[c].start
             peak == PeakAt(b, c)
             gain == Earned(e) - Earned(d)
             most == [u \in Users |-> ScaleFactor * due[u]]
             owed == Due(s, b, id)
             rest == Rest(d, b)
  <1>1. /\ Updatable(d) /\ Sound(d) /\ c \in VpContracts /\ Earned(d) \in Nat /\ Left(d) \in Int
        /\ \A u \in Users : /\ s.pending[u][id] \in Int /\ s.accounted[u][id] \in Nat
                            /\ s.accounted[u][id] <= Earned(d)
    BY LiveDist
  <1>2. /\ Affords(d, e, b, 0) /\ Sound(e) /\ Earned(d) <= Earned(e) /\ Earned(e) \in Nat
        /\ Earned(e) = get_active_total_earned_puvp(d, b) + d.historical
    <2>1. Timely(d, b)
      OBVIOUS
    <2> HIDE DEF d
    <2> QED BY <1>1, <2>1, UpToDateAffords
  <1>3. /\ \A u \in Users : start[u] \in Nat /\ peak[u] \in Nat /\ start[u] <= peak[u]
        /\ Total(start) \in Nat /\ Total(start) = SumOver(start, Users)
    BY <1>1, PeakNat DEF Power
  <1>4. Total(start) * gain + ScaleFactor * Left(e) <= ScaleFactor * (Left(d) + 0)
    BY <1>2, <1>3 DEF Affords
  <1>5. rest \in Int /\ rest <= Left(e) /\ Left(e) \in Int
    <2> HIDE DEF d
    <2> QED BY <1>1, <1>2, RestIsLeft, LeftInt
  <1>6. ScaleFactor \in Nat \ {0} /\ gain \in Nat
    BY <1>1, <1>2, RewardsAssumption
  <1>7. /\ \A u \in Users : owed[u] \in Int
        /\ \A u \in Users : owed[u] = ScaleFactor * s.pending[u][id]
                                          + peak[u] * (Earned(d) - s.accounted[u][id])
        /\ SumOver(owed, Users) \in Int
        /\ Owed(s, b, id) = SumOver(owed, Users) + ScaleFactor * Left(d) /\ Owed(s, b, id) \in Int
    BY OwedInt
  <1>8. \A u \in Users :
            due[u] = s.pending[u][id] + (start[u] * (Earned(e) - s.accounted[u][id])) \div ScaleFactor
    <2>1. \A u \in Users : due[u] = query_pending_rewards(s, b, u, id)
      OBVIOUS
    <2>2. \A u \in Users : query_pending_rewards(s, b, u, id)
              = s.pending[u][id] + (start[u] * (Earned(e) - s.accounted[u][id])) \div ScaleFactor
      <3> HIDE DEF e
      <3> QED BY <1>2 DEF query_pending_rewards, get_accrued_rewards_not_yet_accounted_for,
                          get_voting_power_at_block
    <2> QED BY <2>1, <2>2
  <1> HIDE DEF d, e, c, start, peak, gain, owed, rest
  <1>9. ASSUME NEW u \in Users
        PROVE  due[u] \in Int /\ ScaleFactor * due[u] <= owed[u] + gain * start[u]
    <2> DEFINE acc == s.accounted[u][id]
               pending == s.pending[u][id]
               less == Earned(d) - acc
               more == Earned(e) - acc
               p == start[u]
               q == peak[u]
    <2>1. /\ less \in Nat /\ more \in Nat /\ pending \in Int /\ p \in Nat /\ q \in Nat /\ p <= q
          /\ acc \in Int /\ Earned(d) \in Int /\ Earned(e) \in Int
      BY <1>1, <1>2, <1>3
    <2>2. due[u] = pending + (p * more) \div ScaleFactor
      BY <1>8
    <2>3. owed[u] = ScaleFactor * pending + q * less
      BY <1>7
    <2>4. p * more = p * less + gain * p
      BY <2>1, MoreEarned DEF gain
    <2> HIDE DEF acc, pending, less, more, p, q
    <2>5. (p * more) \div ScaleFactor \in Nat
          /\ ScaleFactor * (pending + (p * more) \div ScaleFactor) <= ScaleFactor * pending + p * more
      <3>1. p <= p
        BY <2>1
      <3> QED BY <2>1, <3>1, DueRounded
    <2>6. less * p <= less * q
      <3>1. p \in Int /\ q \in Int
        BY <2>1
      <3> QED BY <2>1, <3>1, Scale
    <2>7. p * less = less * p /\ q * less = less * q /\ less * p \in Int /\ less * q \in Int
      BY <2>1
    <2>8. ScaleFactor * pending \in Int /\ gain * p \in Int
      BY <1>6, <2>1
    <2>9. due[u] \in Int
      BY <2>1, <2>2, <2>5
    <2>10. ScaleFactor * due[u] \in Int
      BY <1>6, <2>9
    <2>11. ScaleFactor * due[u] <= ScaleFactor * pending + p * more
      BY <2>2, <2>5
    <2>12. ScaleFactor * due[u] <= owed[u] + gain * p
      BY <2>3, <2>4, <2>6, <2>7, <2>8, <2>10, <2>11
    <2> QED BY <2>9, <2>12 DEF p
  <1>10. \A u \in Users : due[u] \in Int /\ owed[u] \in Int /\ start[u] \in Int
    BY <1>3, <1>7, <1>9
  <1>11. \A u \in Users : most[u] = ScaleFactor * due[u] /\ most[u] \in Int
                          /\ most[u] <= owed[u] + gain * start[u]
    BY <1>6, <1>9
  <1> HIDE DEF most
  <1>12. SumOver(most, Users) <= SumOver(owed, Users) + gain * SumOver(start, Users)
    <2>1. gain \in Int
      BY <1>6
    <2> QED BY <1>10, <1>11, <2>1, UsersFinite, SumAtMost
  <1>13. SumOver(most, Users) = ScaleFactor * SumOver(due, Users)
    <2>1. ScaleFactor \in Int
      BY <1>6
    <2> QED BY <1>10, <1>11, <2>1, UsersFinite, SumScaled
  <1>14. Total(due) = SumOver(due, Users) /\ Total(due) \in Int
    BY <1>10, UsersFinite, SumInt, TotalOfPowers
  <1>15. ScaleFactor * rest <= ScaleFactor * Left(e)
    BY <1>5, <1>6, Scale
  <1>16. ScaleFactor * (Total(due) + rest) <= Owed(s, b, id)
    <2>1. ScaleFactor * (Total(due) + rest) = ScaleFactor * Total(due) + ScaleFactor * rest
      BY <1>5, <1>6, <1>14
    <2>2. gain * Total(start) = Total(start) * gain /\ gain * Total(start) \in Int
      BY <1>3, <1>6
    <2>3. ScaleFactor * rest \in Int /\ ScaleFactor * Left(e) \in Int /\ ScaleFactor * Left(d) \in Int
          /\ ScaleFactor * Total(due) \in Int
      BY <1>1, <1>5, <1>6, <1>14
    <2>4. Left(d) + 0 = Left(d)
      BY <1>1
    <2>5. ScaleFactor * Total(due) <= SumOver(owed, Users) + Total(start) * gain
      BY <1>3, <1>12, <1>13, <1>14, <2>2
    <2>6. Total(start) * gain + ScaleFactor * Left(e) <= ScaleFactor * Left(d)
      BY <1>4, <2>4
    <2> QED BY <1>7, <1>15, <2>1, <2>2, <2>3, <2>5, <2>6
  <1> QED BY <1>5, <1>14, <1>16 DEF rest, d

\* The balance covers what members may claim of all distributions of a token.
LEMMA DistCovered ==
    ASSUME NEW s, DistInv(s), NEW b \in BlockType, NEW ev, DistCovers(s, b, ev), NEW denom \in Denoms,
           \A id \in Paying(s, denom) :
               ev[id] /\ Total(b.voting[s.dist[id].vp_contract].start)
                             <= get_prev_block_total_vp(b, s.dist[id].vp_contract),
           NEW due, \A id \in Paying(s, denom) :
               due[id] = Total([u \in Users |-> query_pending_rewards(s, b, u, id)]) + Rest(s.dist[id], b)
    PROVE  SumOver(due, Paying(s, denom)) <= s.balance[denom]
  <1> DEFINE P == Paying(s, denom)
             f == [id \in P |-> Owed(s, b, id)]
  <1>1. IsFiniteSet(P) /\ P \subseteq 1 .. s.count
    BY PayingFinite
  <1>2. ASSUME NEW id \in P
        PROVE  due[id] \in Int /\ ScaleFactor * due[id] <= Owed(s, b, id) /\ Owed(s, b, id) \in Int
    <2>1. id \in 1 .. s.count /\ Timely(s.dist[id], b)
      BY <1>1 DEF DistCovers
    <2>2. Total(b.voting[s.dist[id].vp_contract].start) <= get_prev_block_total_vp(b, s.dist[id].vp_contract)
      OBVIOUS
    <2> DEFINE mine == [u \in Users |-> query_pending_rewards(s, b, u, id)]
    <2>3. due[id] = Total(mine) + Rest(s.dist[id], b)
      OBVIOUS
    <2>4. Total(mine) + Rest(s.dist[id], b) \in Int
          /\ ScaleFactor * (Total(mine) + Rest(s.dist[id], b)) <= Owed(s, b, id)
      BY Zenon, <2>1, <2>2, OwedByMost
    <2> HIDE DEF mine
    <2> QED BY <2>1, <2>3, <2>4, OwedInt
  <1>3. SumOver(f, P) <= ScaleFactor * s.balance[denom]
    BY DEF DistCovers, Enough, OwedOf
  <1>4. \A id \in P : due[id] \in Int /\ f[id] \in Int /\ ScaleFactor * due[id] <= 1 * f[id]
    BY <1>2
  <1>5. ScaleFactor \in Nat \ {0} /\ ScaleFactor \in Int /\ 1 \in Int /\ s.balance[denom] \in Int
    BY RewardsAssumption DEF DistInv, DistStores
  <1> HIDE DEF f, P
  <1>6. ScaleFactor * SumOver(due, P) <= 1 * SumOver(f, P)
    BY <1>1, <1>4, <1>5, SumRatio
  <1>7. SumOver(due, P) \in Int /\ SumOver(f, P) \in Int
    BY <1>1, <1>4, SumInt
  <1>8. ScaleFactor * SumOver(due, P) <= ScaleFactor * s.balance[denom]
    <2>1. ScaleFactor * SumOver(due, P) \in Int /\ ScaleFactor * s.balance[denom] \in Int
      BY <1>5, <1>7
    <2> QED BY <1>3, <1>6, <1>7, <2>1
  <1> QED BY <1>5, <1>7, <1>8, Cancel DEF P

----------------------------------------------------------------------------
(* The three contracts *)

\* By kind of contract: what makes bringing rewards up to date succeed.
StoreInv(s, b, fits) ==
    \/ s.kind = "distributor" /\ DistInv(s)
    \/ s.kind = "external" /\ ExtInv(s, b.height)
    \/ s.kind = "fund" /\ FundInv(s, b, fits)
    \/ s = NoFund

\* cw-fund-distributor can ask for the power at any block so far.
PastKnown(s, b) ==
    s.kind \in {"fund", "no fund"} => \A c \in VpContracts : Len(b.voting[c].past) = b.height

\* The inductive invariant.
RInv ==
    /\ height \in Nat \ {0}
    /\ voting \in VotingType
    /\ even \in [Ids -> BOOLEAN]
    /\ StoreInv(store, blk, even[1])
    /\ PastKnown(store, blk)

LEMMA StoreOfKind ==
    ASSUME NEW s, NEW b, NEW fits, StoreInv(s, b, fits)
    PROVE  /\ s.kind = "distributor" => DistInv(s)
           /\ s.kind = "external" => ExtInv(s, b.height)
           /\ s.kind = "fund" => FundInv(s, b, fits)
           /\ s.kind \notin {"distributor", "external", "fund"} => s = NoFund /\ s.kind = "no fund"
  <1>1. NoFund.kind = "no fund"
    BY DEF NoFund
  <1> QED BY <1>1 DEF StoreInv

\* In a state of the invariant.
LEMMA KindOfStore ==
    ASSUME RInv
    PROVE  /\ kind = "distributor" => DistInv(store)
           /\ kind = "external" => ExtInv(store, blk.height)
           /\ kind = "fund" => FundInv(store, blk, even[1])
           /\ kind \notin {"distributor", "external", "fund"} => store = NoFund /\ kind = "no fund"
  <1>1. StoreInv(store, blk, even[1]) /\ kind = store.kind
    BY DEF RInv, kind
  <1> QED BY <1>1, StoreOfKind

LEMMA FirstId == 1 \in Ids
  BY RewardsAssumption DEF Ids

LEMMA BlockTyped ==
    ASSUME RInv
    PROVE  blk \in BlockType /\ blk.height = height /\ blk.voting = voting
  BY DEF RInv, blk, BlockType

\* The invariant is enough.
LEMMA UpdatesSucceedNow ==
    ASSUME RInv
    PROVE  UpdatesNeverFail
  <1>1. blk \in BlockType /\ blk.height = height
    BY BlockTyped
  <1>2. \A id \in Live, user \in Users : update_rewards(store, blk, user, id) # {}
    <2>1. SUFFICES ASSUME NEW id \in Live, NEW user \in Users PROVE update_rewards(store, blk, user, id) # {}
      BY Zenon
    <2>2. kind = "distributor" /\ id \in 1 .. store.count
      BY DEF Live
    <2>3. DistInv(store)
      BY <2>2, KindOfStore
    <2> QED BY <1>1, <2>2, <2>3, UpdateRewardsSucceeds
  <1>3. kind = "external" => \A a \in Senders : ER!update_rewards(store, blk, a) # {}
    <2>1. SUFFICES ASSUME kind = "external", NEW a \in Senders PROVE ER!update_rewards(store, blk, a) # {}
      BY Zenon
    <2>2. ExtInv(store, blk.height)
      BY <2>1, KindOfStore
    <2>3. a \in ER!Accounts
      BY DEF Senders, ER!Accounts
    <2> QED BY <1>1, <2>2, <2>3, ExtUpdateSucceeds
  <1>4. kind = "fund" /\ even[1] =>
            \A user \in Users, denom \in Denoms : FD!CanClaim(store, blk, user, denom)
    BY KindOfStore DEF FundInv, Fits
  <1> QED BY <1>2, <1>3, <1>4 DEF UpdatesNeverFail

LEMMA RInit ==
    ASSUME Init
    PROVE  RInv
  <1>1. /\ store \in {instantiate, NoFund} \cup UNION {ER!instantiate(msg) : msg \in Externals}
        /\ height = 1
        /\ voting = [c \in VpContracts |->
                        [now |-> InitialPower[c], start |-> InitialPower[c],
                         past |-> IF store = NoFund THEN <<InitialPower[c]>> ELSE <<>>,
                         prev_total |-> Total(InitialPower[c])]]
        /\ even = [id \in Ids |-> TRUE]
    BY DEF Init
  <1>2. \A c \in VpContracts : InitialPower[c] \in Power /\ Total(InitialPower[c]) \in Nat
    <2>1. SUFFICES ASSUME NEW c \in VpContracts PROVE InitialPower[c] \in Power /\ Total(InitialPower[c]) \in Nat
      BY Zenon
    <2>2. InitialPower[c] \in Power
      BY RewardInputAssumption DEF Power
    <2> QED BY <2>2, TotalNat
  <1>3. voting \in VotingType /\ (store = NoFund => \A c \in VpContracts : Len(voting[c].past) = 1)
    <2> DEFINE past(c) == IF store = NoFund THEN <<InitialPower[c]>> ELSE <<>>
    <2>1. \A c \in VpContracts : past(c) \in Seq(Power) /\ (store = NoFund => Len(past(c)) = 1)
      <3>1. SUFFICES ASSUME NEW c \in VpContracts
                     PROVE  past(c) \in Seq(Power) /\ (store = NoFund => Len(past(c)) = 1)
        BY Zenon
      <3>2. InitialPower[c] \in Power
        BY <1>2
      <3> HIDE DEF Power
      <3> QED BY <3>2
    <2>2. voting = [c \in VpContracts |->
                       [now |-> InitialPower[c], start |-> InitialPower[c], past |-> past(c),
                        prev_total |-> Total(InitialPower[c])]]
      BY <1>1
    <2> HIDE DEF past, Power
    <2> QED BY <1>2, <2>1, <2>2 DEF VotingType
  <1>4. even \in [Ids -> BOOLEAN] /\ height \in Nat \ {0}
    BY <1>1
  <1>5. StoreInv(store, blk, even[1])
    <2>1. CASE store = instantiate
      <3>1. store.kind = "distributor"
        BY <2>1 DEF instantiate
      <3> QED BY <2>1, <3>1, InstantiateSafe DEF StoreInv
    <2>2. CASE store = NoFund
      BY <2>2 DEF StoreInv
    <2>3. CASE store \in UNION {ER!instantiate(msg) : msg \in Externals}
      <3>1. PICK msg \in Externals : store \in ER!instantiate(msg)
        BY <2>3
      <3>2. blk.height \in Nat
        BY <1>1 DEF blk
      <3>3. ExtInv(store, blk.height)
        BY <3>1, <3>2, ExtInstantiateSafe
      <3>4. store.kind = "external"
        BY <3>3 DEF ExtInv, ExtStores
      <3> QED BY <3>3, <3>4 DEF StoreInv
    <2> QED BY <1>1, <2>1, <2>2, <2>3
  <1>6. PastKnown(store, blk)
    <2>1. CASE store = NoFund
      BY <1>1, <1>3, <2>1 DEF PastKnown, blk
    <2>2. CASE store # NoFund
      <3>1. store.kind = "distributor" \/ store.kind = "external"
        BY <1>1, <2>2 DEF instantiate, ER!instantiate, ER!Ok
      <3> QED BY <3>1 DEF PastKnown
    <2> QED BY <2>1, <2>2
  <1> QED BY <1>3, <1>4, <1>5, <1>6 DEF RInv

----------------------------------------------------------------------------
(* Every step *)

\* A step within a block that leaves voting power alone.
LEMMA WithinBlock ==
    ASSUME RInv, voting' = voting, height' = height, even' \in [Ids -> BOOLEAN],
           StoreInv(store', blk, even'[1]),
           store'.kind \in {"fund", "no fund"} => store.kind \in {"fund", "no fund"}
    PROVE  RInv'
  <1>1. blk' = blk
    BY DEF blk
  <1>2. PastKnown(store', blk)
    BY DEF RInv, PastKnown
  <1> QED BY <1>1, <1>2 DEF RInv

LEMMA SafeStoreInv ==
    ASSUME NEW s \in SafeStores, NEW b, NEW fits
    PROVE  StoreInv(s, b, fits) /\ s.kind = "distributor"
  <1>1. s.kind = "distributor"
    BY DEF SafeStores, DistStores
  <1> QED BY <1>1, SafeStore DEF StoreInv

LEMMA ExtSafeInv ==
    ASSUME NEW b, NEW s \in ExtSafe(b.height), NEW fits
    PROVE  StoreInv(s, b, fits) /\ s.kind = "external"
  <1>1. s.kind = "external"
    BY DEF ExtSafe, ExtStores
  <1> QED BY <1>1, ExtSafeStore DEF StoreInv

LEMMA FundSafeInv ==
    ASSUME NEW b, NEW fits, NEW s \in FundSafe(b, fits)
    PROVE  StoreInv(s, b, fits) /\ s.kind = "fund"
  <1>1. s.kind = "fund"
    BY DEF FundSafe, FundStores
  <1> QED BY <1>1, FundSafeStore DEF StoreInv

\* Handlers of dao-rewards-distributor, but for reports of voting power.
LEMMA BecomesKeeps ==
    ASSUME RInv, NEW results, results \subseteq SafeStores, Becomes(results)
    PROVE  RInv'
  <1>1. store' \in SafeStores /\ voting' = voting /\ height' = height
    BY DEF Becomes
  <1>2. even' \in [Ids -> BOOLEAN]
    BY DEF Becomes
  <1>3. StoreInv(store', blk, even'[1]) /\ store'.kind = "distributor"
    BY <1>1, SafeStoreInv
  <1> QED BY <1>1, <1>2, <1>3, WithinBlock

LEMMA CreateStep ==
    ASSUME RInv, NEW sender \in Senders, NEW msg \in Creations, NEW amount \in Amounts \cup {0},
           Create(sender, msg, amount)
    PROVE  RInv'
  <1>1. /\ kind = "distributor" /\ store.count < MaxDistributions
        /\ Becomes(execute_create(store, blk, sender, msg, amount))
    BY DEF Create
  <1>2. amount \in Nat
    BY RewardInputAssumption
  <1>3. execute_create(store, blk, sender, msg, amount) \in SUBSET SafeStores
    BY <1>1, <1>2, BlockTyped, KindOfStore, CreateKeeps
  <1> QED BY <1>1, <1>3, BecomesKeeps

LEMMA FundNativeStep ==
    ASSUME RInv, NEW id \in Ids, NEW amount \in Amounts, FundNative(id, amount)
    PROVE  RInv'
  <1>1. kind = "distributor" /\ Becomes(execute_fund_native(store, blk, id, amount))
    BY DEF FundNative
  <1>2. amount \in Nat
    BY RewardInputAssumption
  <1>3. execute_fund_native(store, blk, id, amount) \in SUBSET SafeStores
    BY <1>1, <1>2, BlockTyped, KindOfStore, FundNativeKeeps
  <1> QED BY <1>1, <1>3, BecomesKeeps

LEMMA FundCw20Step ==
    ASSUME RInv, NEW id \in Ids, NEW amount \in Amounts, NEW denom \in Denoms, FundCw20(denom, id, amount)
    PROVE  RInv'
  <1>1. kind = "distributor" /\ Becomes(execute_receive_cw20(store, blk, denom, id, amount))
    BY DEF FundCw20
  <1>2. amount \in Nat
    BY RewardInputAssumption
  <1>3. execute_receive_cw20(store, blk, denom, id, amount) \in SUBSET SafeStores
    BY <1>1, <1>2, BlockTyped, KindOfStore, FundCw20Keeps
  <1> QED BY <1>1, <1>3, BecomesKeeps

LEMMA UpdateStep ==
    ASSUME RInv, NEW sender \in Senders, NEW id \in Ids, NEW msg \in Updates, Update(sender, id, msg)
    PROVE  RInv'
  <1>1. kind = "distributor" /\ Becomes(execute_update(store, blk, sender, id, msg))
    BY DEF Update
  <1>2. execute_update(store, blk, sender, id, msg) \in SUBSET SafeStores
    BY <1>1, BlockTyped, KindOfStore, UpdateKeeps
  <1> QED BY <1>1, <1>2, BecomesKeeps

LEMMA WithdrawStep ==
    ASSUME RInv, NEW sender \in Senders, NEW id \in Ids, Withdraw(sender, id)
    PROVE  RInv'
  <1>1. kind = "distributor" /\ Becomes(execute_withdraw(store, blk, sender, id))
    BY DEF Withdraw
  <1>2. execute_withdraw(store, blk, sender, id) \in SUBSET SafeStores
    BY <1>1, BlockTyped, KindOfStore, WithdrawKeeps
  <1> QED BY <1>1, <1>2, BecomesKeeps

LEMMA ClaimStep ==
    ASSUME RInv, NEW user \in Users, NEW id \in Ids, Claim(user, id)
    PROVE  RInv'
  <1>1. kind = "distributor" /\ Becomes(execute_claim(store, blk, user, id))
    BY DEF Claim
  <1>2. \A t \in execute_claim(store, blk, user, id) : t \in SafeStores
    BY <1>1, BlockTyped, KindOfStore, ClaimKeeps, SafeStore
  <1> QED BY <1>1, <1>2, BecomesKeeps

\* Handlers of cw20-stake-external-rewards.
LEMMA ExternalKeeps ==
    ASSUME RInv, store' \in ExtSafe(blk.height), UNCHANGED <<voting, height, even>>
    PROVE  RInv'
  <1>1. voting' = voting /\ height' = height /\ even' = even /\ even \in [Ids -> BOOLEAN]
    BY DEF RInv
  <1>2. StoreInv(store', blk, even'[1]) /\ store'.kind = "external"
    BY ExtSafeInv
  <1> QED BY <1>1, <1>2, WithinBlock

LEMMA FundExternalStep ==
    ASSUME RInv, NEW sender \in Senders, NEW amount \in Amounts, FundExternal(sender, amount)
    PROVE  RInv'
  <1>1. /\ kind = "external" /\ UNCHANGED <<voting, height, even>>
        /\ store' \in ER!execute_fund_native(store, blk, sender, amount)
                          \cup ER!execute_receive(store, blk, store.reward_token, sender, amount)
    BY DEF FundExternal
  <1>2. amount \in Nat /\ sender \in ER!Accounts
    BY RewardInputAssumption DEF Senders, ER!Accounts
  <1>3. ER!execute_fund(store, blk, sender, amount) \in SUBSET ExtSafe(blk.height)
    BY <1>1, <1>2, BlockTyped, KindOfStore, ExtFundKeeps
  <1>4. store' \in ExtSafe(blk.height)
    BY <1>1, <1>3 DEF ER!execute_fund_native, ER!execute_receive
  <1> QED BY <1>1, <1>4, ExternalKeeps

LEMMA ClaimExternalStep ==
    ASSUME RInv, NEW user \in Senders, ClaimExternal(user)
    PROVE  RInv'
  <1>1. /\ kind = "external" /\ UNCHANGED <<voting, height, even>>
        /\ store' \in ER!execute_claim(store, blk, user)
    BY DEF ClaimExternal
  <1>2. user \in ER!Accounts
    BY DEF Senders, ER!Accounts
  <1>3. ER!execute_claim(store, blk, user) \in SUBSET ExtSafe(blk.height)
    BY <1>1, <1>2, BlockTyped, KindOfStore, ExtClaimKeeps
  <1> QED BY <1>1, <1>3, ExternalKeeps

LEMMA UpdateRewardDurationStep ==
    ASSUME RInv, NEW sender \in Senders, NEW duration \in Durations, UpdateRewardDuration(sender, duration)
    PROVE  RInv'
  <1>1. /\ kind = "external" /\ UNCHANGED <<voting, height, even>>
        /\ store' \in ER!execute_update_reward_duration(store, blk, sender, duration)
    BY DEF UpdateRewardDuration
  <1>2. duration \in Nat
    BY RewardInputAssumption
  <1>3. ER!execute_update_reward_duration(store, blk, sender, duration) \in SUBSET ExtSafe(blk.height)
    BY <1>1, <1>2, BlockTyped, KindOfStore, ExtDurationKeeps
  <1> QED BY <1>1, <1>3, ExternalKeeps

\* Handlers of cw-fund-distributor.
LEMMA FundKeepsInv ==
    ASSUME RInv, kind = "fund", store' \in FundSafe(blk, even[1]), UNCHANGED <<voting, height, even>>
    PROVE  RInv' /\ store'.kind = "fund"
  <1>1. voting' = voting /\ height' = height /\ even' = even /\ even \in [Ids -> BOOLEAN]
    BY DEF RInv
  <1>2. StoreInv(store', blk, even'[1]) /\ store'.kind = "fund"
    BY <1>1, FundSafeInv
  <1> QED BY <1>1, <1>2, WithinBlock DEF kind

LEMMA FundSharesStep ==
    ASSUME RInv, NEW denom \in Denoms, NEW amount \in Amounts, FundShares(denom, amount)
    PROVE  RInv' /\ store'.kind = "fund"
  <1>1. /\ kind = "fund" /\ UNCHANGED <<voting, height, even>>
        /\ store' \in IF denom.kind = "cw20" THEN FD!execute_fund_cw20(store, blk, denom, amount)
                      ELSE FD!execute_fund_native(store, blk, <<denom>>, amount)
    BY DEF FundShares
  <1>2. amount \in Nat /\ even[1] \in BOOLEAN
    BY RewardInputAssumption, FirstId DEF RInv
  <1>3. /\ FD!execute_fund_cw20(store, blk, denom, amount) \in SUBSET FundSafe(blk, even[1])
        /\ FD!execute_fund_native(store, blk, <<denom>>, amount) \in SUBSET FundSafe(blk, even[1])
    BY <1>1, <1>2, BlockTyped, KindOfStore, FundSharesKeep
  <1>4. store' \in FundSafe(blk, even[1])
    BY <1>1, <1>3
  <1> QED BY <1>1, <1>4, FundKeepsInv

LEMMA ClaimSharesStep ==
    ASSUME RInv, NEW denom \in Denoms, NEW user \in Users, ClaimShares(user, denom)
    PROVE  RInv' /\ store'.kind = "fund"
  <1>1. /\ kind = "fund" /\ UNCHANGED <<voting, height, even>>
        /\ store' \in IF denom.kind = "cw20" THEN FD!execute_claim_cw20s(store, blk, user, <<denom>>)
                      ELSE FD!execute_claim_natives(store, blk, user, <<denom>>)
    BY DEF ClaimShares
  <1>2. even[1] \in BOOLEAN
    BY FirstId DEF RInv
  <1>3. /\ FD!execute_claim_cw20s(store, blk, user, <<denom>>) \in SUBSET FundSafe(blk, even[1])
        /\ FD!execute_claim_natives(store, blk, user, <<denom>>) \in SUBSET FundSafe(blk, even[1])
    BY <1>1, <1>2, BlockTyped, KindOfStore, ClaimSharesKeep
  <1>4. store' \in FundSafe(blk, even[1])
    BY <1>1, <1>3
  <1> QED BY <1>1, <1>4, FundKeepsInv

LEMMA ClaimAllStep ==
    ASSUME RInv, NEW user \in Users, ClaimAll(user)
    PROVE  RInv' /\ store'.kind = "fund"
  <1>1. /\ kind = "fund" /\ UNCHANGED <<voting, height, even>>
        /\ store' \in FD!execute_claim_all(store, blk, user)
    BY DEF ClaimAll
  <1>2. even[1] \in BOOLEAN
    BY FirstId DEF RInv
  <1>3. FD!execute_claim_all(store, blk, user) \in SUBSET FundSafe(blk, even[1])
    BY <1>1, <1>2, BlockTyped, KindOfStore, ClaimAllKeeps
  <1> QED BY <1>1, <1>3, FundKeepsInv

LEMMA InstantiateFundStep ==
    ASSUME RInv, NEW msg \in Funds, InstantiateFund(msg)
    PROVE  RInv' /\ store'.kind = "fund"
  <1>1. /\ store = NoFund /\ store' \in FD!instantiate(blk, msg) /\ voting' = voting /\ height' = height
        /\ even' = [id \in Ids |-> SharesFit(store')]
    BY DEF InstantiateFund
  <1> DEFINE fits == SharesFit(store')
  <1>2. fits \in BOOLEAN /\ (fits => SharesKnown(store', blk))
    BY BlockTyped DEF SharesFit, SharesKnown
  <1>3. even' \in [Ids -> BOOLEAN] /\ even'[1] = fits
    BY <1>1, <1>2, FirstId
  <1> HIDE DEF fits
  <1>4. FundInv(store', blk, fits)
    BY <1>1, <1>2, BlockTyped, FundInstantiateSafe
  <1>5. store'.kind = "fund"
    BY <1>4 DEF FundInv, FundStores
  <1>6. StoreInv(store', blk, even'[1])
    BY <1>3, <1>4, <1>5 DEF StoreInv
  <1>7. store.kind = "no fund"
    BY <1>1 DEF NoFund
  <1> QED BY <1>1, <1>3, <1>5, <1>6, <1>7, WithinBlock

LEMMA RedistributeStep ==
    ASSUME RInv, NEW h \in Heights, Redistribute(h)
    PROVE  RInv' /\ store'.kind = "fund"
  <1>1. /\ kind = "fund" /\ store' \in FD!execute_redistribute_unclaimed_funds(store, h)
        /\ voting' = voting /\ height' = height
        /\ even' = [id \in Ids |-> even[id] /\ SharesFit(store')]
    BY DEF Redistribute
  <1> DEFINE fits == even[1] /\ SharesFit(store')
  <1>2. fits \in BOOLEAN /\ (fits => SharesKnown(store', blk))
    BY BlockTyped DEF SharesFit, SharesKnown
  <1>3. even' \in [Ids -> BOOLEAN] /\ even'[1] = fits
    BY <1>1, <1>2, FirstId DEF RInv
  <1> HIDE DEF fits
  <1>4. FundInv(store, blk, FALSE) /\ h \in Nat \ {0}
    BY <1>1, KindOfStore, RewardInputAssumption DEF FundInv
  <1>5. FundInv(store', blk, fits)
    BY <1>1, <1>2, <1>4, BlockTyped, RedistributeKeeps
  <1>6. store'.kind = "fund"
    BY <1>5 DEF FundInv, FundStores
  <1>7. StoreInv(store', blk, even'[1])
    BY <1>3, <1>5, <1>6 DEF StoreInv
  <1> QED BY <1>1, <1>3, <1>6, <1>7, WithinBlock DEF kind

----------------------------------------------------------------------------
(* Voting power *)

LEMMA AskedKnown ==
    ASSUME RInv, NEW c \in Asked
    PROVE  c \in VpContracts
  <1>1. CASE kind = "distributor"
    BY <1>1 DEF Asked
  <1>2. CASE kind = "external"
    <2>1. ExtInv(store, blk.height)
      BY <1>2, KindOfStore
    <2>2. Asked = {store.staking_contract}
      BY <1>2 DEF Asked
    <2> QED BY <2>1, <2>2 DEF ExtInv, ExtStores
  <1>3. CASE kind = "fund"
    <2>1. FundInv(store, blk, even[1])
      BY <1>3, KindOfStore
    <2>2. Asked = {store.voting_contract}
      BY <1>3 DEF Asked
    <2> QED BY <2>1, <2>2 DEF FundInv, FundStores
  <1>4. CASE kind \notin {"distributor", "external", "fund"}
    <2>1. Asked = {msg.voting_contract : msg \in Funds}
      BY <1>4 DEF Asked
    <2> QED BY <2>1, RewardInputAssumption
  <1> QED BY <1>1, <1>2, <1>3, <1>4

\* Whatever moves voting power leaves the powers of the blocks so far alone.
LEMMA FundInvLater ==
    ASSUME NEW s, NEW b \in BlockType, NEW c \in BlockType, NEW fits \in BOOLEAN, NEW later \in BOOLEAN,
           FundInv(s, b, fits), later => fits, b.height <= c.height,
           \A v \in VpContracts :
               /\ Len(b.voting[v].past) = b.height /\ Len(c.voting[v].past) = c.height
               /\ \A h \in 1 .. b.height : c.voting[v].past[h] = b.voting[v].past[h]
    PROVE  FundInv(s, c, later)
  <1>1. s \in FundStores /\ IsFiniteSet(s.received) /\ s.voting_contract \in VpContracts
    BY DEF FundInv, FundStores
  <1>2. later => Fits(s, c)
    <2>1. SUFFICES ASSUME later PROVE Fits(s, c)
      BY Zenon
    <2>2. Fits(s, b)
      BY <2>1 DEF FundInv
    <2> QED BY <1>1, <2>2, FitsLater
  <1> QED BY <1>1, <1>2 DEF FundInv

\* Contract v has new powers.
LEMMA PowerChanges ==
    ASSUME RInv, NEW v \in VpContracts, NEW power \in Power, NEW results, Changes(v, power, results),
           store' \in SafeStores \/ (kind = "external" /\ store' \in ExtSafe(blk.height)) \/ store' = store
    PROVE  RInv'
  <1>1. height' = height /\ voting' = [voting EXCEPT ![v].now = power] /\ even' \in [Ids -> BOOLEAN]
    BY DEF Changes
  <1>2. even'[1] => even[1]
    BY FirstId DEF Changes
  <1>3. /\ voting' \in VotingType
        /\ \A c \in VpContracts : voting'[c].past = voting[c].past
    <2> HIDE DEF Power
    <2> QED BY <1>1 DEF RInv, VotingType
  <1>4. blk' \in BlockType /\ blk'.height = height /\ blk'.voting = voting'
    BY <1>1, <1>3 DEF blk, BlockType, RInv
  <1>5. even'[1] \in BOOLEAN /\ even[1] \in BOOLEAN
    BY <1>1, FirstId DEF RInv
  <1>6. CASE store' \in SafeStores
    <2>1. StoreInv(store', blk', even'[1]) /\ store'.kind = "distributor"
      BY <1>6, SafeStoreInv
    <2>2. PastKnown(store', blk')
      BY <2>1 DEF PastKnown
    <2> QED BY <1>1, <1>3, <2>1, <2>2 DEF RInv
  <1>7. CASE store' \in ExtSafe(blk.height)
    <2>1. store' \in ExtSafe(blk'.height)
      BY <1>4, <1>7, BlockTyped
    <2>2. StoreInv(store', blk', even'[1]) /\ store'.kind = "external"
      BY <2>1, ExtSafeInv
    <2>3. PastKnown(store', blk')
      BY <2>2 DEF PastKnown
    <2> QED BY <1>1, <1>3, <2>2, <2>3 DEF RInv
  <1>8. CASE store' = store
    <2>1. PastKnown(store', blk')
      BY <1>3, <1>4, <1>8, BlockTyped DEF PastKnown, RInv
    <2>2. kind = "fund" => FundInv(store, blk', even'[1])
      <3>1. SUFFICES ASSUME kind = "fund" PROVE FundInv(store, blk', even'[1])
        BY Zenon
      <3>2. \A c \in VpContracts : Len(voting[c].past) = height
        BY <3>1, BlockTyped DEF RInv, PastKnown, kind
      <3>3. FundInv(store, blk, even[1])
        BY <3>1, KindOfStore
      <3>4. /\ \A c \in VpContracts :
                   /\ Len(blk.voting[c].past) = blk.height /\ Len(blk'.voting[c].past) = blk'.height
                   /\ \A h \in 1 .. blk.height : blk'.voting[c].past[h] = blk.voting[c].past[h]
            /\ blk.height <= blk'.height
        BY <1>3, <1>4, <3>2, BlockTyped DEF RInv
      <3> QED BY <1>2, <1>4, <1>5, <3>3, <3>4, BlockTyped, FundInvLater
    <2>3. StoreInv(store', blk', even'[1])
      <3>1. blk'.height = blk.height
        BY <1>4, BlockTyped
      <3> QED BY <1>8, <2>2, <3>1, KindOfStore DEF StoreInv, kind
    <2> QED BY <1>1, <1>3, <2>1, <2>3 DEF RInv
  <1> QED BY <1>6, <1>7, <1>8

LEMMA ChangeStakeStep ==
    ASSUME RInv, NEW c \in Asked, NEW p \in Powers, NEW user \in Users, ChangeStake(c, user, p)
    PROVE  RInv'
  <1> DEFINE grew == p > voting[c].now[user]
             power == [voting[c].now EXCEPT ![user] = p]
             results == IF c \in Hooked /\ kind = "distributor"
                        THEN execute_stake_changed(store, blk, c, user, grew)
                                 \cup execute_nft_stake_changed(store, blk, c, user, grew)
                        ELSE IF c \in Hooked /\ kind = "external"
                        THEN ER!execute_stake_changed(store, blk, c, user, grew)
                        ELSE {store}
  <1>1. Changes(c, power, results)
    BY DEF ChangeStake
  <1>2. c \in VpContracts /\ p \in Nat
    BY AskedKnown, RewardInputAssumption
  <1>3. power \in Power
    <2>1. voting[c].now \in Power
      BY <1>2 DEF RInv, VotingType
    <2> QED BY <1>2, <2>1 DEF Power
  <1>4. user \in ER!Accounts
    BY DEF ER!Accounts
  <1>5. store' \in results
    BY <1>1 DEF Changes
  <1> HIDE DEF grew, power
  <1>6. CASE c \in Hooked /\ kind = "distributor"
    <2>1. /\ execute_stake_changed(store, blk, c, user, grew) \in SUBSET SafeStores
          /\ execute_nft_stake_changed(store, blk, c, user, grew) \in SUBSET SafeStores
      BY <1>2, <1>6, BlockTyped, KindOfStore, StakeKeeps
    <2>2. store' \in SafeStores
      BY <1>5, <1>6, <2>1
    <2> QED BY <1>1, <1>2, <1>3, <2>2, PowerChanges
  <1>7. CASE c \in Hooked /\ kind = "external"
    <2>1. ER!execute_stake_changed(store, blk, c, user, grew) \in SUBSET ExtSafe(blk.height)
      BY <1>4, <1>7, BlockTyped, KindOfStore, ExtStakeKeeps
    <2>2. store' \in ExtSafe(blk.height)
      BY <1>5, <1>7, <2>1
    <2> QED BY <1>1, <1>2, <1>3, <1>7, <2>2, PowerChanges
  <1>8. CASE ~(c \in Hooked /\ kind = "distributor") /\ ~(c \in Hooked /\ kind = "external")
    <2>1. store' = store
      BY <1>5, <1>8
    <2> QED BY <1>1, <1>2, <1>3, <2>1, PowerChanges
  <1> QED BY <1>6, <1>7, <1>8

LEMMA ChangeMembersStep ==
    ASSUME RInv, NEW c \in Asked, NEW p \in Powers, NEW members \in Seq(Users), ChangeMembers(c, members, p)
    PROVE  RInv'
  <1> DEFINE power == [u \in Users |-> IF \E i \in DOMAIN members : members[i] = u THEN p
                                       ELSE voting[c].now[u]]
             results == IF c \in Hooked THEN execute_membership_changed(store, blk, c, members) ELSE {store}
  <1>1. kind = "distributor" /\ Changes(c, power, results)
    BY Zenon DEF ChangeMembers
  <1>2. c \in VpContracts /\ p \in Nat
    BY AskedKnown, RewardInputAssumption
  <1>3. power \in Power
    <2>1. voting[c].now \in Power
      BY <1>2 DEF RInv, VotingType
    <2> QED BY <1>2, <2>1 DEF Power
  <1>4. store' \in results
    BY <1>1 DEF Changes
  <1> HIDE DEF power
  <1>5. CASE c \in Hooked
    <2>1. execute_membership_changed(store, blk, c, members) \in SUBSET SafeStores
      BY <1>1, <1>2, BlockTyped, KindOfStore, MembershipKeeps
    <2>2. store' \in SafeStores
      BY <1>4, <1>5, <2>1
    <2> QED BY <1>1, <1>2, <1>3, <2>2, PowerChanges
  <1>6. CASE c \notin Hooked
    <2>1. store' = store
      BY <1>4, <1>6
    <2> QED BY <1>1, <1>2, <1>3, <2>1, PowerChanges
  <1> QED BY <1>5, <1>6

LEMMA TickStep ==
    ASSUME RInv, Tick
    PROVE  RInv'
  <1> DEFINE later(c) == IF voting[c].past = <<>> THEN <<>> ELSE Append(voting[c].past, voting[c].now)
  <1>1. /\ height' = height + 1 /\ store' = store /\ even' = even
        /\ voting' = [c \in VpContracts |->
                         [now |-> voting[c].now, start |-> voting[c].now, past |-> later(c),
                          prev_total |-> Total(voting[c].start)]]
    BY Zenon DEF Tick
  <1>2. height \in Nat \ {0} /\ voting \in VotingType /\ even \in [Ids -> BOOLEAN]
    BY DEF RInv
  <1>3. \A c \in VpContracts : Total(voting[c].start) \in Nat
    <2>1. SUFFICES ASSUME NEW c \in VpContracts PROVE Total(voting[c].start) \in Nat
      BY Zenon
    <2>2. voting[c].start \in Power
      BY <1>2 DEF VotingType
    <2> QED BY <2>2, TotalNat
  <1>4. \A c \in VpContracts :
            /\ later(c) \in Seq(Power)
            /\ Len(voting[c].past) = height =>
                   /\ Len(later(c)) = height + 1
                   /\ \A h \in 1 .. height : later(c)[h] = voting[c].past[h]
    <2>1. SUFFICES ASSUME NEW c \in VpContracts
                   PROVE  /\ later(c) \in Seq(Power)
                          /\ Len(voting[c].past) = height =>
                                 /\ Len(later(c)) = height + 1
                                 /\ \A h \in 1 .. height : later(c)[h] = voting[c].past[h]
      BY Zenon
    <2>2. voting[c].past \in Seq(Power) /\ voting[c].now \in Power
      BY <1>2 DEF VotingType
    <2> HIDE DEF Power
    <2> QED BY <1>2, <2>2
  <1> HIDE DEF later
  <1>5. voting' \in VotingType /\ \A c \in VpContracts : voting'[c].past = later(c)
    <2> HIDE DEF Power
    <2> QED BY <1>1, <1>2, <1>3, <1>4 DEF VotingType
  <1>6. blk' \in BlockType /\ blk'.height = height + 1 /\ blk'.voting = voting'
    BY <1>1, <1>2, <1>5 DEF blk, BlockType
  <1>7. PastKnown(store', blk')
    <2>1. SUFFICES ASSUME store'.kind \in {"fund", "no fund"}, NEW c \in VpContracts
                   PROVE  Len(blk'.voting[c].past) = blk'.height
      BY DEF PastKnown
    <2>2. Len(voting[c].past) = height
      BY <1>1, <2>1, BlockTyped DEF RInv, PastKnown
    <2> QED BY <1>4, <1>5, <1>6, <2>2
  <1>8. kind = "fund" => FundInv(store, blk', even'[1])
    <2>1. SUFFICES ASSUME kind = "fund" PROVE FundInv(store, blk', even'[1])
      BY Zenon
    <2>2. \A c \in VpContracts : Len(voting[c].past) = height
      BY <2>1, BlockTyped DEF RInv, PastKnown, kind
    <2>3. FundInv(store, blk, even[1]) /\ even[1] \in BOOLEAN
      BY <1>2, <2>1, FirstId, KindOfStore
    <2>4. /\ \A c \in VpContracts :
                 /\ Len(blk.voting[c].past) = blk.height /\ Len(blk'.voting[c].past) = blk'.height
                 /\ \A h \in 1 .. blk.height : blk'.voting[c].past[h] = blk.voting[c].past[h]
          /\ blk.height <= blk'.height
      BY <1>2, <1>4, <1>5, <1>6, <2>2, BlockTyped
    <2> QED BY <1>1, <1>6, <2>3, <2>4, BlockTyped, FundInvLater
  <1>9. kind = "external" => ExtInv(store, blk'.height)
    <2>1. SUFFICES ASSUME kind = "external" PROVE ExtInv(store, blk'.height)
      BY Zenon
    <2>2. ExtInv(store, height)
      BY <2>1, BlockTyped, KindOfStore
    <2>3. store.last_update_block \in Nat
      BY <2>2 DEF ExtInv, ExtStores
    <2> QED BY <1>2, <1>6, <2>2, <2>3 DEF ExtInv
  <1>10. StoreInv(store', blk', even'[1])
    BY <1>1, <1>8, <1>9, KindOfStore DEF StoreInv, kind
  <1> QED BY <1>1, <1>2, <1>5, <1>7, <1>10 DEF RInv

LEMMA RStutter ==
    ASSUME RInv, UNCHANGED vars
    PROVE  RInv'
  BY DEF vars, RInv, blk, StoreInv, PastKnown

LEMMA RStep ==
    ASSUME RInv, [Next]_vars
    PROVE  RInv'
  <1>1. CASE UNCHANGED vars
    BY <1>1, RStutter
  <1>2. CASE \E sender \in Senders, msg \in Creations, amount \in Amounts \cup {0} : Create(sender, msg, amount)
    BY <1>2, CreateStep
  <1>3. CASE \E id \in Ids, sender \in Senders : \E msg \in Updates : Update(sender, id, msg)
    BY <1>3, UpdateStep
  <1>4. CASE \E id \in Ids, sender \in Senders : Withdraw(sender, id)
    BY <1>4, WithdrawStep
  <1>5. CASE \E id \in Ids : \E amount \in Amounts : FundNative(id, amount)
    BY <1>5, FundNativeStep
  <1>6. CASE \E id \in Ids : \E amount \in Amounts, denom \in Denoms : FundCw20(denom, id, amount)
    BY <1>6, FundCw20Step
  <1>7. CASE \E id \in Ids : \E user \in Users : Claim(user, id)
    BY <1>7, ClaimStep
  <1>8. CASE \E sender \in Senders : \E amount \in Amounts : FundExternal(sender, amount)
    BY <1>8, FundExternalStep
  <1>9. CASE \E sender \in Senders : ClaimExternal(sender)
    BY <1>9, ClaimExternalStep
  <1>10. CASE \E sender \in Senders : \E duration \in Durations : UpdateRewardDuration(sender, duration)
    BY <1>10, UpdateRewardDurationStep
  <1>11. CASE \E msg \in Funds : InstantiateFund(msg)
    BY <1>11, InstantiateFundStep
  <1>12. CASE \E denom \in Denoms : \E amount \in Amounts : FundShares(denom, amount)
    BY <1>12, FundSharesStep
  <1>13. CASE \E denom \in Denoms : \E user \in Users : ClaimShares(user, denom)
    BY <1>13, ClaimSharesStep
  <1>14. CASE \E user \in Users : ClaimAll(user)
    BY <1>14, ClaimAllStep
  <1>15. CASE \E h \in Heights : Redistribute(h)
    BY <1>15, RedistributeStep
  <1>16. CASE \E c \in Asked, p \in Powers : \E user \in Users : ChangeStake(c, user, p)
    BY <1>16, ChangeStakeStep
  <1>17. CASE \E c \in Asked, p \in Powers : \E u, v \in Users : ChangeMembers(c, <<u, v>>, p)
    <2>1. PICK c \in Asked, p \in Powers, u \in Users, v \in Users : ChangeMembers(c, <<u, v>>, p)
      BY <1>17
    <2>2. <<u, v>> \in Seq(Users)
      OBVIOUS
    <2> QED BY <2>1, <2>2, ChangeMembersStep
  <1>18. CASE Tick
    BY <1>18, TickStep
  <1> QED
    BY <1>1, <1>2, <1>3, <1>4, <1>5, <1>6, <1>7, <1>8, <1>9, <1>10, <1>11, <1>12, <1>13, <1>14, <1>15,
       <1>16, <1>17, <1>18, Zenon DEF Next

----------------------------------------------------------------------------
(* The balance covers what is owed, in every step *)

\* On top of the invariant, what makes the balances cover.
Covering ==
    /\ kind = "distributor" => DistCovers(store, blk, even)
    /\ kind = "external" /\ even[1] => ExtGood(store, blk)

LEMMA CoveredNow ==
    ASSUME RInv, Covering
    PROVE  Covered
  <1>1. blk \in BlockType /\ blk.voting = voting
    BY BlockTyped
  <1>2. ASSUME kind = "distributor", NEW denom \in Denoms, NEW paying,
               paying = {id \in Live : store.dist[id].denom = denom},
               \A id \in paying : even[id] /\ ~Ahead(store.dist[id].vp_contract)
        PROVE  TotalOver([id \in paying |-> OwedBy(id)], paying) <= store.balance[denom]
    <2> DEFINE due == [id \in paying |-> OwedBy(id)]
    <2>1. DistInv(store) /\ DistCovers(store, blk, even)
      BY <1>2, KindOfStore DEF Covering
    <2>2. paying = Paying(store, denom)
      BY <1>2 DEF Paying, Live
    <2>3. ASSUME NEW id \in paying
          PROVE  Total(blk.voting[store.dist[id].vp_contract].start)
                     <= get_prev_block_total_vp(blk, store.dist[id].vp_contract)
      <3> DEFINE c == store.dist[id].vp_contract
      <3>1. id \in 1 .. store.count
        BY <2>2 DEF Paying
      <3>2. c \in VpContracts
        BY <2>1, <3>1, LiveDist
      <3>3. ~Ahead(c)
        BY <1>2
      <3> HIDE DEF c
      <3>4. Total(blk.voting[c].start) \in Nat /\ get_prev_block_total_vp(blk, c) \in Nat
        BY <1>1, <3>2, PeakNat, PrevTotal
      <3>5. ~(get_prev_block_total_vp(blk, c) < Total(blk.voting[c].start))
        BY <1>1, <3>3 DEF Ahead, get_prev_block_total_vp
      <3>6. Total(blk.voting[c].start) <= get_prev_block_total_vp(blk, c)
        BY <3>4, <3>5
      <3> QED BY <3>6 DEF c
    <2>4. \A id \in paying : due[id] = Total([u \in Users |-> query_pending_rewards(store, blk, u, id)])
                                           + Rest(store.dist[id], blk)
      BY DEF OwedBy, Undistributed, Rest
    <2> HIDE DEF due
    <2>5. SumOver(due, paying) <= store.balance[denom]
      BY <1>1, <1>2, <2>1, <2>2, <2>3, <2>4, DistCovered
    <2>6. TotalOver(due, paying) = SumOver(due, paying)
      BY Zenon DEF TotalOver, SumOver
    <2> QED BY <2>5, <2>6 DEF due
  <1>3. ASSUME kind = "external", even[1]
        PROVE  Total([u \in Users |-> ER!query_pending_rewards(store, blk, u)]) + UndistributedExternal
                   <= store.balance
    <2>1. ExtGood(store, blk)
      BY <1>3 DEF Covering
    <2>2. ExtInv(store, blk.height) /\ ExtCovers(store, blk)
      BY <2>1 DEF ExtGood
    <2>3. Total([u \in Users |-> ER!query_pending_rewards(store, blk, u)])
              + store.reward_rate * (store.period_finish - ER!get_last_time_reward_applicable(store, blk))
                  <= store.balance
      BY Zenon, <1>1, <2>2, ExtCovered
    <2> QED BY Zenon, <2>3 DEF UndistributedExternal
  <1>4. ASSUME kind = "fund", even[1], NEW denom \in Denoms
        PROVE  Total([u \in Users |-> FD!get_entitlement(store, blk, u, denom)]) <= store.held[denom]
    <2>1. even[1] = TRUE
      BY <1>4, FirstId DEF RInv
    <2>2. FundInv(store, blk, TRUE)
      BY <1>4, <2>1, KindOfStore
    <2> QED BY Zenon, <1>1, <2>2, FundCovered
  <1> QED BY <1>2, <1>3, <1>4 DEF Covered

LEMMA NothingHeld == \A denom \in Denoms : instantiate.balance[denom] = 0
  <1>1. instantiate.balance = [d \in Denoms |-> 0]
    BY DEF instantiate, Empty
  <1> QED BY <1>1

LEMMA CoveringInit ==
    ASSUME Init
    PROVE  Covering
  <1>1. RInv
    BY RInit
  <1>2. blk \in BlockType /\ blk.voting = voting
    BY <1>1, BlockTyped
  <1>3. ASSUME kind = "distributor" PROVE DistCovers(store, blk, even)
    <2>1. store = instantiate
      <3>1. store \in {instantiate, NoFund} \cup UNION {ER!instantiate(msg) : msg \in Externals}
        BY DEF Init
      <3>2. NoFund.kind # "distributor"
        BY DEF NoFund
      <3>3. \A msg \in Externals : \A s \in ER!instantiate(msg) : s.kind # "distributor"
        BY DEF ER!instantiate, ER!Ok
      <3> QED BY <1>3, <3>1, <3>2, <3>3 DEF kind
    <2>2. DistInv(store) /\ store.count = 0 /\ \A u \in Users, id \in Ids : store.pending[u][id] = 0
      <3>1. DistInv(store)
        BY <2>1, InstantiateSafe
      <3> QED BY <2>1, <3>1 DEF instantiate
    <2>3. ASSUME NEW denom \in Denoms PROVE Enough(store, blk, denom)
      <3>1. Paying(store, denom) = {}
        BY <2>2 DEF Paying
      <3>2. OwedOf(store, blk, denom) = 0
        BY <3>1, SumEmpty DEF OwedOf
      <3>3. store.balance[denom] = 0
        BY Zenon, <2>1, NothingHeld
      <3> QED BY <3>2, <3>3, RewardsAssumption DEF Enough
    <2> QED BY <2>2, <2>3 DEF DistCovers, Reported
  <1>4. ASSUME kind = "external" PROVE ExtGood(store, blk)
    <2>1. PICK msg \in Externals : store \in ER!instantiate(msg)
      <3>1. store \in {instantiate, NoFund} \cup UNION {ER!instantiate(msg) : msg \in Externals}
        BY DEF Init
      <3>2. NoFund.kind # "external"
        BY DEF NoFund
      <3>3. instantiate.kind # "external"
        BY DEF instantiate
      <3> QED BY <1>4, <3>1, <3>2, <3>3 DEF kind
    <2>2. store.staking_contract \in VpContracts
      BY <1>1, <1>4, KindOfStore DEF ExtInv, ExtStores
    <2>3. blk.voting[store.staking_contract].now = blk.voting[store.staking_contract].start
      BY <1>2, <2>2 DEF Init
    <2> QED BY <1>2, <2>1, <2>3, ExtInstantiateCovers
  <1> QED BY <1>3, <1>4 DEF Covering

----------------------------------------------------------------------------
(* Handlers *)

LEMMA FairNow ==
    ASSUME RInv, NEW c \in VpContracts, ~Short(c)
    PROVE  Fair(blk, c)
  <1>1. blk \in BlockType /\ blk.voting = voting
    BY BlockTyped
  <1>2. Peak(c) = PeakAt(blk, c)
    BY <1>1 DEF Peak, PeakAt
  <1>3. Total(PeakAt(blk, c)) \in Nat /\ get_prev_block_total_vp(blk, c) \in Nat
    BY <1>1, PeakNat, PrevTotal
  <1>4. get_prev_block_total_vp(blk, c) = voting[c].prev_total
    BY <1>1 DEF get_prev_block_total_vp
  <1>5. ~(get_prev_block_total_vp(blk, c) < Total(PeakAt(blk, c)))
    BY <1>2, <1>4 DEF Short
  <1> QED BY <1>3, <1>5 DEF Fair

\* A handler of dao-rewards-distributor leaves the shares even where even' says so.
LEMMA BecomesEven ==
    ASSUME RInv, kind = "distributor", NEW results, results \subseteq SafeStores, Becomes(results)
    PROVE  /\ StaysEven(store, store', blk, even, even') /\ store' \in results /\ blk' = blk
           /\ store'.kind = "distributor"
  <1>1. /\ store' \in results /\ voting' = voting /\ height' = height
        /\ even' = [id \in Ids |->
                       /\ even[id] /\ EarnsEvenly(id)
                       /\ id \in Live => store'.dist[id].vp_contract = store.dist[id].vp_contract]
    BY DEF Becomes
  <1>2. DistInv(store) /\ DistInv(store') /\ store'.kind = "distributor"
    BY <1>1, KindOfStore, SafeStore DEF SafeStores, DistStores
  <1>3. ASSUME NEW id \in Ids, even'[id]
        PROVE  /\ even[id]
               /\ id <= store'.count => \/ EarnedBy(store', id) = EarnedBy(store, id)
                                        \/ Fair(blk, store'.dist[id].vp_contract)
               /\ id <= store.count => store'.dist[id].vp_contract = store.dist[id].vp_contract
    <2>1. /\ even[id] /\ EarnsEvenly(id)
          /\ id \in Live => store'.dist[id].vp_contract = store.dist[id].vp_contract
      BY <1>1, <1>3
    <2>2. id <= store.count => id \in Live
      BY <1>2 DEF Live, Ids, DistInv, DistStores
    <2>3. ASSUME id <= store'.count, EarnedBy(store', id) # EarnedBy(store, id)
          PROVE  Fair(blk, store'.dist[id].vp_contract)
      <3> DEFINE c == store'.dist[id].vp_contract
      <3>1. id \in 1 .. store'.count
        BY <1>2, <2>3 DEF Ids, DistInv, DistStores
      <3>2. c \in VpContracts
        BY <1>2, <3>1, LiveDist
      <3>3. ~Short(c)
        BY <2>1, <2>3 DEF EarnsEvenly
      <3> HIDE DEF c
      <3> QED BY <3>2, <3>3, FairNow DEF c
    <2> QED BY <2>1, <2>2, <2>3
  <1>4. StaysEven(store, store', blk, even, even')
    BY <1>3 DEF StaysEven
  <1>5. blk' = blk
    BY <1>1 DEF blk
  <1> QED BY <1>1, <1>2, <1>4, <1>5

\* What a handler of dao-rewards-distributor shows.
LEMMA BecomesCovers ==
    ASSUME store'.kind = "distributor", DistCovers(store', blk, even'), blk' = blk
    PROVE  Covering'
  <1>1. DistCovers(store', blk', even')
    BY Zenon
  <1> QED BY <1>1 DEF Covering, kind

LEMMA CreateCovering ==
    ASSUME RInv, Covering, NEW sender \in Senders, NEW msg \in Creations, NEW amount \in Amounts \cup {0},
           Create(sender, msg, amount)
    PROVE  Covering'
  <1>1. /\ kind = "distributor" /\ store.count < MaxDistributions
        /\ Becomes(execute_create(store, blk, sender, msg, amount))
    BY DEF Create
  <1>2. amount \in Nat /\ blk \in BlockType /\ DistInv(store) /\ DistCovers(store, blk, even)
    BY <1>1, RewardInputAssumption, BlockTyped, KindOfStore DEF Covering
  <1>3. execute_create(store, blk, sender, msg, amount) \in SUBSET SafeStores
    BY <1>1, <1>2, CreateKeeps
  <1>4. /\ StaysEven(store, store', blk, even, even') /\ blk' = blk /\ store'.kind = "distributor"
        /\ store' \in execute_create(store, blk, sender, msg, amount)
    BY <1>1, <1>3, BecomesEven
  <1>5. DistCovers(store', blk, even')
    BY <1>1, <1>2, <1>4, CreateCovers
  <1> QED BY <1>4, <1>5, BecomesCovers

LEMMA FundNativeCovering ==
    ASSUME RInv, Covering, NEW id \in Ids, NEW amount \in Amounts, FundNative(id, amount)
    PROVE  Covering'
  <1>1. kind = "distributor" /\ Becomes(execute_fund_native(store, blk, id, amount))
    BY DEF FundNative
  <1>2. amount \in Nat /\ blk \in BlockType /\ DistInv(store) /\ DistCovers(store, blk, even)
    BY <1>1, RewardInputAssumption, BlockTyped, KindOfStore DEF Covering
  <1>3. execute_fund_native(store, blk, id, amount) \in SUBSET SafeStores
    BY <1>1, <1>2, FundNativeKeeps
  <1>4. /\ StaysEven(store, store', blk, even, even') /\ blk' = blk /\ store'.kind = "distributor"
        /\ store' \in execute_fund_native(store, blk, id, amount)
    BY <1>1, <1>3, BecomesEven
  <1>5. DistCovers(store', blk, even')
    BY <1>2, <1>4, FundNativeCovers
  <1> QED BY <1>4, <1>5, BecomesCovers

LEMMA FundCw20Covering ==
    ASSUME RInv, Covering, NEW id \in Ids, NEW amount \in Amounts, NEW denom \in Denoms,
           FundCw20(denom, id, amount)
    PROVE  Covering'
  <1>1. kind = "distributor" /\ Becomes(execute_receive_cw20(store, blk, denom, id, amount))
    BY DEF FundCw20
  <1>2. amount \in Nat /\ blk \in BlockType /\ DistInv(store) /\ DistCovers(store, blk, even)
    BY <1>1, RewardInputAssumption, BlockTyped, KindOfStore DEF Covering
  <1>3. execute_receive_cw20(store, blk, denom, id, amount) \in SUBSET SafeStores
    BY <1>1, <1>2, FundCw20Keeps
  <1>4. /\ StaysEven(store, store', blk, even, even') /\ blk' = blk /\ store'.kind = "distributor"
        /\ store' \in execute_receive_cw20(store, blk, denom, id, amount)
    BY <1>1, <1>3, BecomesEven
  <1>5. DistCovers(store', blk, even')
    BY <1>2, <1>4, FundCw20Covers
  <1> QED BY <1>4, <1>5, BecomesCovers

LEMMA UpdateCovering ==
    ASSUME RInv, Covering, NEW sender \in Senders, NEW id \in Ids, NEW msg \in Updates, Update(sender, id, msg)
    PROVE  Covering'
  <1>1. kind = "distributor" /\ Becomes(execute_update(store, blk, sender, id, msg))
    BY DEF Update
  <1>2. blk \in BlockType /\ DistInv(store) /\ DistCovers(store, blk, even)
    BY <1>1, BlockTyped, KindOfStore DEF Covering
  <1>3. execute_update(store, blk, sender, id, msg) \in SUBSET SafeStores
    BY <1>1, <1>2, UpdateKeeps
  <1>4. /\ StaysEven(store, store', blk, even, even') /\ blk' = blk /\ store'.kind = "distributor"
        /\ store' \in execute_update(store, blk, sender, id, msg)
    BY <1>1, <1>3, BecomesEven
  <1>5. DistCovers(store', blk, even')
    BY <1>2, <1>4, UpdateCovers
  <1> QED BY <1>4, <1>5, BecomesCovers

LEMMA WithdrawCovering ==
    ASSUME RInv, Covering, NEW sender \in Senders, NEW id \in Ids, Withdraw(sender, id)
    PROVE  Covering'
  <1>1. kind = "distributor" /\ Becomes(execute_withdraw(store, blk, sender, id))
    BY DEF Withdraw
  <1>2. blk \in BlockType /\ DistInv(store) /\ DistCovers(store, blk, even)
    BY <1>1, BlockTyped, KindOfStore DEF Covering
  <1>3. execute_withdraw(store, blk, sender, id) \in SUBSET SafeStores
    BY <1>1, <1>2, WithdrawKeeps
  <1>4. /\ StaysEven(store, store', blk, even, even') /\ blk' = blk /\ store'.kind = "distributor"
        /\ store' \in execute_withdraw(store, blk, sender, id)
    BY <1>1, <1>3, BecomesEven
  <1>5. DistCovers(store', blk, even')
    BY <1>2, <1>4, WithdrawCovers
  <1> QED BY <1>4, <1>5, BecomesCovers

LEMMA ClaimCovering ==
    ASSUME RInv, Covering, NEW user \in Users, NEW id \in Ids, Claim(user, id)
    PROVE  Covering'
  <1>1. kind = "distributor" /\ Becomes(execute_claim(store, blk, user, id))
    BY DEF Claim
  <1>2. blk \in BlockType /\ DistInv(store) /\ DistCovers(store, blk, even)
    BY <1>1, BlockTyped, KindOfStore DEF Covering
  <1>3. \A t \in execute_claim(store, blk, user, id) : t \in SafeStores
    BY <1>1, <1>2, ClaimKeeps, SafeStore
  <1>4. /\ StaysEven(store, store', blk, even, even') /\ blk' = blk /\ store'.kind = "distributor"
        /\ store' \in execute_claim(store, blk, user, id)
    BY <1>1, <1>3, BecomesEven
  <1>5. DistCovers(store', blk, even')
    BY <1>2, <1>4, ClaimCovers
  <1> QED BY <1>4, <1>5, BecomesCovers

\* Handlers of cw20-stake-external-rewards.
LEMMA ExternalCovering ==
    ASSUME RInv, kind = "external", store' \in ExtSafe(blk.height), UNCHANGED <<voting, height, even>>,
           even[1] => ExtGood(store', blk)
    PROVE  Covering'
  <1>1. blk' = blk /\ even' = even
    BY DEF blk
  <1>2. store'.kind = "external"
    BY DEF ExtSafe, ExtStores
  <1> QED BY <1>1, <1>2 DEF Covering, kind

LEMMA FundExternalCovering ==
    ASSUME RInv, Covering, NEW sender \in Senders, NEW amount \in Amounts, FundExternal(sender, amount)
    PROVE  Covering'
  <1>1. /\ kind = "external" /\ UNCHANGED <<voting, height, even>>
        /\ store' \in ER!execute_fund_native(store, blk, sender, amount)
                          \cup ER!execute_receive(store, blk, store.reward_token, sender, amount)
    BY DEF FundExternal
  <1>2. amount \in Nat /\ sender \in ER!Accounts /\ blk \in BlockType /\ ExtInv(store, blk.height)
    BY <1>1, RewardInputAssumption, BlockTyped, KindOfStore DEF Senders, ER!Accounts
  <1>3. store' \in ER!execute_fund(store, blk, sender, amount)
    BY <1>1 DEF ER!execute_fund_native, ER!execute_receive
  <1>4. store' \in ExtSafe(blk.height)
    BY <1>2, <1>3, ExtFundKeeps
  <1>5. even[1] => ExtGood(store', blk)
    BY <1>1, <1>2, <1>3, ExtFundCovers DEF Covering
  <1> QED BY <1>1, <1>4, <1>5, ExternalCovering

LEMMA ClaimExternalCovering ==
    ASSUME RInv, Covering, NEW user \in Senders, ClaimExternal(user)
    PROVE  Covering'
  <1>1. /\ kind = "external" /\ UNCHANGED <<voting, height, even>>
        /\ store' \in ER!execute_claim(store, blk, user)
    BY DEF ClaimExternal
  <1>2. user \in ER!Accounts /\ blk \in BlockType /\ ExtInv(store, blk.height)
    BY <1>1, BlockTyped, KindOfStore DEF Senders, ER!Accounts
  <1>3. store' \in ExtSafe(blk.height)
    BY <1>1, <1>2, ExtClaimKeeps
  <1>4. even[1] => ExtGood(store', blk)
    BY <1>1, <1>2, ExtClaimCovers DEF Covering
  <1> QED BY <1>1, <1>3, <1>4, ExternalCovering

LEMMA UpdateRewardDurationCovering ==
    ASSUME RInv, Covering, NEW sender \in Senders, NEW duration \in Durations,
           UpdateRewardDuration(sender, duration)
    PROVE  Covering'
  <1>1. /\ kind = "external" /\ UNCHANGED <<voting, height, even>>
        /\ store' \in ER!execute_update_reward_duration(store, blk, sender, duration)
    BY DEF UpdateRewardDuration
  <1>2. duration \in Nat /\ blk \in BlockType /\ ExtInv(store, blk.height)
    BY <1>1, RewardInputAssumption, BlockTyped, KindOfStore
  <1>3. store' \in ExtSafe(blk.height)
    BY <1>1, <1>2, ExtDurationKeeps
  <1>4. even[1] => ExtGood(store', blk)
    BY <1>1, <1>2, ExtDurationCovers DEF Covering
  <1> QED BY <1>1, <1>3, <1>4, ExternalCovering

\* cw-fund-distributor is covered by the invariant alone.
LEMMA FundCovering ==
    ASSUME store'.kind = "fund"
    PROVE  Covering'
  BY DEF Covering, kind

LEMMA FundHandlers ==
    ASSUME RInv,
           \/ \E msg \in Funds : InstantiateFund(msg)
           \/ \E denom \in Denoms : \E amount \in Amounts : FundShares(denom, amount)
           \/ \E denom \in Denoms : \E user \in Users : ClaimShares(user, denom)
           \/ \E user \in Users : ClaimAll(user)
           \/ \E h \in Heights : Redistribute(h)
    PROVE  Covering'
  <1>1. store'.kind = "fund"
    BY FundSharesStep, ClaimSharesStep, ClaimAllStep, RedistributeStep, InstantiateFundStep
  <1> QED BY <1>1, FundCovering

----------------------------------------------------------------------------
(* Voting power *)

\* The power of contract v becomes power; members of a distribution that counts it were brought
\* up to date, if v reports to the distribution.
LEMMA PowerChangeCovers ==
    ASSUME RInv, Covering, kind = "distributor", NEW v \in VpContracts, NEW power, NEW results,
           Changes(v, power, results), RInv', Drawn(store, store', blk),
           v \in Hooked => \A n \in DOMAIN store.hooks[v] : \A u \in Users :
               power[u] # voting[v].now[u] => Settled(store', blk, u, store.hooks[v][n])
    PROVE  Covering'
  <1>1. /\ voting' = [voting EXCEPT ![v].now = power] /\ height' = height
        /\ even' = [id \in Ids |->
                       /\ even[id]
                       /\ kind = "distributor" => EarnsEvenly(id)
                       /\ id \in Live /\ store.dist[id].vp_contract = v =>
                              v \in Hooked /\ store.dist[id].hook_caller = v
                       /\ kind = "external" /\ store.staking_contract = v => v \in Hooked]
    BY DEF Changes
  <1>2. blk \in BlockType /\ blk.voting = voting /\ blk.height = height /\ height \in Nat
    BY BlockTyped DEF RInv
  <1>3. blk' \in BlockType /\ blk'.voting = voting' /\ blk'.height = height'
    BY DEF RInv, blk, BlockType
  <1>4. DistInv(store) /\ DistCovers(store, blk, even)
    BY KindOfStore DEF Covering
  <1>5. DistInv(store') /\ store'.count = store.count /\ store'.kind = "distributor"
    BY DEF Drawn, DistInv, DistStores
  <1>6. ASSUME NEW id \in 1 .. store.count, even'[id]
        PROVE  /\ even[id] /\ store'.dist[id].vp_contract = store.dist[id].vp_contract
               /\ Earned(store'.dist[id]) = Earned(store.dist[id]) \/ Fair(blk, store.dist[id].vp_contract)
               /\ store.dist[id].vp_contract = v => v \in Hooked /\ store.dist[id].hook_caller = v
    <2> DEFINE c == store.dist[id].vp_contract
    <2>1. id \in Ids /\ c \in VpContracts /\ id \in Live
      BY <1>4, LiveDist DEF Live
    <2>2. /\ even[id] /\ EarnsEvenly(id)
          /\ id \in Live /\ store.dist[id].vp_contract = v => v \in Hooked /\ store.dist[id].hook_caller = v
      BY <1>1, <1>6, <2>1
    <2>3. store'.dist[id].vp_contract = c
      BY DEF Drawn
    <2>4. EarnedBy(store', id) = Earned(store'.dist[id]) /\ EarnedBy(store, id) = Earned(store.dist[id])
      <3>1. id <= store.count /\ id <= store'.count
        BY <1>4, <1>5 DEF DistInv, DistStores
      <3> QED BY <3>1 DEF EarnedBy
    <2>5. Earned(store'.dist[id]) = Earned(store.dist[id]) \/ ~Short(c)
      BY <2>2, <2>3, <2>4 DEF EarnsEvenly
    <2> HIDE DEF c
    <2>6. Earned(store'.dist[id]) = Earned(store.dist[id]) \/ Fair(blk, c)
      BY <2>1, <2>5, FairNow
    <2> QED BY <2>1, <2>2, <2>3, <2>6 DEF c
  <1>7. \A id \in Ids : even'[id] => even[id]
    BY <1>1
  <1>8. DistCovers(store', blk, even')
    <2>1. \A id \in 1 .. store.count : even'[id] =>
              Earned(store'.dist[id]) = Earned(store.dist[id]) \/ Fair(blk, store.dist[id].vp_contract)
      BY <1>6
    <2> QED BY <1>2, <1>4, <1>7, <2>1, DrawnCovers
  <1>9. \A c \in VpContracts : /\ voting'[c].start = voting[c].start
                               /\ voting'[c].now = IF c = v THEN power ELSE voting[c].now
    BY <1>1 DEF RInv, VotingType
  <1>10. ASSUME NEW id \in 1 .. store'.count, even'[id], NEW u \in Users
         PROVE  \/ PeakAt(blk', store'.dist[id].vp_contract)[u] <= PeakAt(blk, store'.dist[id].vp_contract)[u]
                \/ store'.accounted[u][id] = Earned(store'.dist[id])
    <2> DEFINE c == store'.dist[id].vp_contract
    <2>1. id \in 1 .. store.count
      BY <1>5, <1>10
    <2>2. c = store.dist[id].vp_contract /\ c \in VpContracts
      BY <1>5, <1>6, <1>10, <2>1, LiveDist
    <2>3. CASE c # v \/ power[u] = voting[v].now[u]
      <3>1. blk'.voting[c].start[u] = blk.voting[c].start[u] /\ blk'.voting[c].now[u] = blk.voting[c].now[u]
        BY <1>2, <1>3, <1>9, <2>2, <2>3
      <3>2. PeakAt(blk', c)[u] = PeakAt(blk, c)[u]
        BY <3>1 DEF PeakAt
      <3>3. PeakAt(blk, c)[u] \in Nat
        BY <1>2, <2>2, PeakNat DEF Power
      <3> QED BY <3>2, <3>3
    <2>4. CASE c = v /\ power[u] # voting[v].now[u]
      <3>1. v \in Hooked /\ store.dist[id].hook_caller = v
        BY <1>6, <1>10, <2>1, <2>2, <2>4
      <3>2. PICK n \in DOMAIN store.hooks[v] : store.hooks[v][n] = id
        BY <1>4, <2>1, <3>1 DEF DistCovers, Reported, Listed
      <3>3. Settled(store', blk, u, id)
        BY <2>4, <3>1, <3>2
      <3> QED BY <3>3 DEF Settled
    <2> QED BY <2>3, <2>4
  <1>11. blk.height <= blk'.height
    BY <1>1, <1>2, <1>3
  <1>12. DistCovers(store', blk', even')
    BY <1>2, <1>3, <1>5, <1>8, <1>10, <1>11, PowerCovers
  <1> QED BY <1>5, <1>12 DEF Covering, kind

\* Of cw20-stake-external-rewards.
LEMMA ExternalPowerCovers ==
    ASSUME RInv, Covering, kind = "external", NEW v \in VpContracts, NEW power, NEW results,
           Changes(v, power, results), RInv', store'.kind = "external",
           even[1] => ExtGood(store', blk), store'.staking_contract = store.staking_contract,
           v = store.staking_contract /\ v \in Hooked => \A u \in Users : power[u] # voting[v].now[u] =>
               /\ store'.user_reward_per_token[u] = store'.reward_per_token
               /\ store'.last_update_block = ER!get_last_time_reward_applicable(store', blk)
    PROVE  Covering'
  <1>1. /\ voting' = [voting EXCEPT ![v].now = power] /\ height' = height
        /\ even'[1] => even[1] /\ (kind = "external" /\ store.staking_contract = v => v \in Hooked)
    BY FirstId DEF Changes
  <1>2. blk \in BlockType /\ blk.voting = voting /\ blk.height = height /\ height \in Nat
    BY BlockTyped DEF RInv
  <1>3. blk' \in BlockType /\ blk'.voting = voting' /\ blk'.height = height'
    BY DEF RInv, blk, BlockType
  <1>4. ASSUME even'[1] PROVE ExtGood(store', blk')
    <2> DEFINE c == store'.staking_contract
    <2>1. ExtGood(store', blk) /\ (c = v => v \in Hooked)
      BY <1>1, <1>4
    <2>2. c \in VpContracts
      BY <2>1 DEF ExtGood, ExtInv, ExtStores
    <2>3. /\ voting'[c].start = voting[c].start
          /\ voting'[c].now = IF c = v THEN power ELSE voting[c].now
      BY <1>1, <2>2 DEF RInv, VotingType
    <2>4. \A u \in Users : blk'.voting[c].now[u] # blk.voting[c].now[u] =>
              /\ store'.user_reward_per_token[u] = store'.reward_per_token
              /\ store'.last_update_block = ER!get_last_time_reward_applicable(store', blk)
      BY <1>2, <1>3, <2>1, <2>3
    <2>5. blk'.voting[c].start = blk.voting[c].start /\ blk'.height = blk.height
      BY <1>1, <1>2, <1>3, <2>3
    <2> QED BY <1>2, <1>3, <2>1, <2>4, <2>5, ExtStakesChange
  <1> QED BY <1>4 DEF Covering, kind

LEMMA ChangeStakeCovering ==
    ASSUME RInv, Covering, NEW c \in Asked, NEW p \in Powers, NEW user \in Users, ChangeStake(c, user, p), RInv'
    PROVE  Covering'
  <1> DEFINE grew == p > voting[c].now[user]
             power == [voting[c].now EXCEPT ![user] = p]
             results == IF c \in Hooked /\ kind = "distributor"
                        THEN execute_stake_changed(store, blk, c, user, grew)
                                 \cup execute_nft_stake_changed(store, blk, c, user, grew)
                        ELSE IF c \in Hooked /\ kind = "external"
                        THEN ER!execute_stake_changed(store, blk, c, user, grew)
                        ELSE {store}
  <1>1. Changes(c, power, results)
    BY DEF ChangeStake
  <1>2. c \in VpContracts /\ blk \in BlockType
    BY AskedKnown, BlockTyped
  <1>3. \A u \in Users : power[u] # voting[c].now[u] => u = user
    <2>1. voting[c].now \in Power
      BY <1>2 DEF RInv, VotingType
    <2> QED BY <2>1 DEF Power
  <1>4. store' \in results
    BY <1>1 DEF Changes
  <1> HIDE DEF power
  <1>5. CASE kind = "distributor"
    <2>1. DistInv(store) /\ DistCovers(store, blk, even)
      BY <1>5, KindOfStore DEF Covering
    <2>2. \A i \in 1 .. store.count : Timely(store.dist[i], blk)
      BY <2>1 DEF DistCovers
    <2>3. Drawn(store, store', blk)
          /\ (c \in Hooked => \A n \in DOMAIN store.hooks[c] : Settled(store', blk, user, store.hooks[c][n]))
      <3>1. CASE c \in Hooked
        <4>1. store' \in execute_stake_changed(store, blk, c, user, grew)
                             \cup execute_nft_stake_changed(store, blk, c, user, grew)
          BY <1>4, <1>5, <3>1
        <4> HIDE DEF grew
        <4> QED BY <1>2, <2>1, <2>2, <4>1, StakeChangeDraws
      <3>2. CASE c \notin Hooked
        <4>1. store' = store
          BY <1>4, <3>2
        <4> QED BY <1>2, <2>1, <2>2, <3>2, <4>1, DrawnSame
      <3> QED BY <3>1, <3>2
    <2>4. c \in Hooked => \A n \in DOMAIN store.hooks[c] : \A u \in Users :
              power[u] # voting[c].now[u] => Settled(store', blk, u, store.hooks[c][n])
      BY <1>3, <2>3
    <2> HIDE DEF results
    <2> QED BY <1>1, <1>2, <1>5, <2>3, <2>4, PowerChangeCovers
  <1>6. CASE kind = "external"
    <2>1. ExtInv(store, blk.height) /\ user \in ER!Accounts
      BY <1>6, KindOfStore DEF ER!Accounts
    <2>2. /\ store'.kind = "external" /\ store'.staking_contract = store.staking_contract
          /\ even[1] => ExtGood(store', blk)
          /\ c \in Hooked => /\ store'.user_reward_per_token[user] = store'.reward_per_token
                             /\ store'.last_update_block = ER!get_last_time_reward_applicable(store', blk)
      <3>1. CASE c \in Hooked
        <4>1. store' \in ER!update_rewards(store, blk, user)
          BY <1>4, <1>6, <3>1 DEF ER!execute_stake_changed, ER!execute_stake, ER!execute_unstake
        <4>2. /\ store'.kind = "external" /\ store'.staking_contract = store.staking_contract
              /\ store'.user_reward_per_token[user] = store'.reward_per_token
              /\ store'.last_update_block = ER!get_last_time_reward_applicable(store', blk)
          <5>1. /\ store.kind = "external" /\ store \in ExtStores
                /\ store.user_reward_per_token \in [ER!Accounts -> Nat]
            BY <2>1 DEF ExtInv, ExtStores
          <5> DEFINE per_token == ER!get_reward_per_token(store, blk)
                     pending == [store.pending EXCEPT ![user] =
                                     @ + ER!get_rewards_earned(store, blk, user, per_token)]
                     last == ER!get_last_time_reward_applicable(store, blk)
          <5>2. store' = [store EXCEPT !.reward_per_token = per_token, !.pending = pending,
                                       !.user_reward_per_token[user] = per_token, !.last_update_block = last]
            BY <4>1 DEF ER!update_rewards, ER!Ok
          <5> HIDE DEF per_token, pending, last
          <5>3. /\ store'.kind = "external" /\ store'.staking_contract = store.staking_contract
                /\ store'.user_reward_per_token[user] = per_token /\ store'.reward_per_token = per_token
                /\ store'.last_update_block = last /\ store'.period_finish = store.period_finish
            BY <2>1, <5>1, <5>2 DEF ExtStores
          <5> QED BY <5>3 DEF last, ER!get_last_time_reward_applicable
        <4>3. even[1] => ExtGood(store', blk)
          BY <1>2, <1>6, <2>1, <4>1, ExtUpdateCovers DEF Covering
        <4> QED BY <4>2, <4>3
      <3>2. CASE c \notin Hooked
        <4>1. store' = store
          BY <1>4, <3>2
        <4> QED BY <1>6, <3>2, <4>1 DEF Covering, kind
      <3> QED BY <3>1, <3>2
    <2>3. c = store.staking_contract /\ c \in Hooked => \A u \in Users : power[u] # voting[c].now[u] =>
              /\ store'.user_reward_per_token[u] = store'.reward_per_token
              /\ store'.last_update_block = ER!get_last_time_reward_applicable(store', blk)
      BY <1>3, <2>2
    <2> HIDE DEF results
    <2> QED BY <1>1, <1>2, <1>6, <2>2, <2>3, ExternalPowerCovers
  <1>7. CASE kind \notin {"distributor", "external"}
    <2>1. store' = store
      BY <1>4, <1>7
    <2> QED BY <1>7, <2>1 DEF Covering, kind
  <1> QED BY <1>5, <1>6, <1>7

LEMMA ChangeMembersCovering ==
    ASSUME RInv, Covering, NEW c \in Asked, NEW p \in Powers, NEW members \in Seq(Users),
           ChangeMembers(c, members, p), RInv'
    PROVE  Covering'
  <1> DEFINE power == [u \in Users |-> IF \E i \in DOMAIN members : members[i] = u THEN p
                                       ELSE voting[c].now[u]]
             results == IF c \in Hooked THEN execute_membership_changed(store, blk, c, members) ELSE {store}
  <1>1. kind = "distributor" /\ Changes(c, power, results)
    BY Zenon DEF ChangeMembers
  <1>2. c \in VpContracts /\ blk \in BlockType
    BY AskedKnown, BlockTyped
  <1>3. \A u \in Users : power[u] # voting[c].now[u] => \E i \in DOMAIN members : members[i] = u
    OBVIOUS
  <1>4. store' \in results
    BY <1>1 DEF Changes
  <1> HIDE DEF power
  <1>5. DistInv(store) /\ DistCovers(store, blk, even)
    BY <1>1, KindOfStore DEF Covering
  <1>6. \A i \in 1 .. store.count : Timely(store.dist[i], blk)
    BY <1>5 DEF DistCovers
  <1>7. /\ Drawn(store, store', blk)
        /\ c \in Hooked => \A m \in DOMAIN members : \A n \in DOMAIN store.hooks[c] :
               Settled(store', blk, members[m], store.hooks[c][n])
    <2>1. CASE c \in Hooked
      <3>1. store' \in execute_membership_changed(store, blk, c, members)
        BY <1>4, <2>1
      <3> QED BY <1>2, <1>5, <1>6, <3>1, MembershipDraws
    <2>2. CASE c \notin Hooked
      <3>1. store' = store
        BY <1>4, <2>2
      <3> QED BY <1>2, <1>5, <1>6, <2>2, <3>1, DrawnSame
    <2> QED BY <2>1, <2>2
  <1>8. c \in Hooked => \A n \in DOMAIN store.hooks[c] : \A u \in Users :
            power[u] # voting[c].now[u] => Settled(store', blk, u, store.hooks[c][n])
    BY <1>3, <1>7
  <1> HIDE DEF results
  <1> QED BY <1>1, <1>2, <1>7, <1>8, PowerChangeCovers

\* In the next block members claim by the power that they have now, by which they could claim
\* before.
LEMMA TickCovering ==
    ASSUME RInv, Covering, Tick, RInv'
    PROVE  Covering'
  <1> DEFINE past(c) == IF voting[c].past = <<>> THEN <<>> ELSE Append(voting[c].past, voting[c].now)
  <1>1. /\ height' = height + 1 /\ store' = store /\ even' = even
        /\ voting' = [c \in VpContracts |->
                         [now |-> voting[c].now, start |-> voting[c].now, past |-> past(c),
                          prev_total |-> Total(voting[c].start)]]
    BY Zenon DEF Tick
  <1> HIDE DEF past
  <1>2. blk \in BlockType /\ blk.voting = voting /\ blk.height = height /\ height \in Nat
    BY BlockTyped DEF RInv
  <1>3. blk' \in BlockType /\ blk'.voting = voting' /\ blk'.height = height'
    BY DEF RInv, blk, BlockType
  <1>4. \A c \in VpContracts : voting'[c].start = voting[c].now /\ voting'[c].now = voting[c].now
    BY <1>1
  <1>5. ASSUME kind = "distributor" PROVE DistCovers(store, blk', even)
    <2>1. DistInv(store) /\ DistCovers(store, blk, even)
      BY <1>5, KindOfStore DEF Covering
    <2>2. \A i \in 1 .. store.count : \A u \in Users :
              PeakAt(blk', store.dist[i].vp_contract)[u] <= PeakAt(blk, store.dist[i].vp_contract)[u]
      <3>1. SUFFICES ASSUME NEW i \in 1 .. store.count, NEW u \in Users
                     PROVE  PeakAt(blk', store.dist[i].vp_contract)[u]
                                <= PeakAt(blk, store.dist[i].vp_contract)[u]
        BY Zenon
      <3> DEFINE c == store.dist[i].vp_contract
      <3>2. c \in VpContracts
        BY <2>1, LiveDist
      <3> HIDE DEF c
      <3>3. blk.voting[c].now[u] \in Nat /\ blk.voting[c].start[u] \in Nat
        BY <1>2, <3>2, PeakNat
      <3>4. /\ PeakAt(blk', c)[u] = Larger(blk.voting[c].now[u], blk.voting[c].now[u])
            /\ PeakAt(blk, c)[u] = Larger(blk.voting[c].start[u], blk.voting[c].now[u])
        BY <1>2, <1>3, <1>4, <3>2 DEF PeakAt
      <3>5. PeakAt(blk', c)[u] <= PeakAt(blk, c)[u]
        BY <3>3, <3>4 DEF Larger
      <3> QED BY <3>5 DEF c
    <2>3. blk.height <= blk'.height
      BY <1>1, <1>2, <1>3
    <2> QED BY <1>2, <1>3, <2>1, <2>2, <2>3, PowerCovers
  <1>6. ASSUME kind = "external", even[1] PROVE ExtGood(store, blk')
    <2>1. ExtGood(store, blk)
      BY <1>6 DEF Covering
    <2>2. store.staking_contract \in VpContracts
      BY <2>1 DEF ExtGood, ExtInv, ExtStores
    <2> QED BY <1>1, <1>2, <1>3, <1>4, <2>1, <2>2, ExtBlockLater
  <1>7. DistCovers(store, blk', even)
            => DistCovers(store', blk', even')
    BY <1>1
  <1>8. ExtGood(store, blk') => ExtGood(store', blk')
    BY <1>1
  <1> QED BY <1>1, <1>5, <1>6, <1>7, <1>8 DEF Covering, kind

LEMMA CoveringStep ==
    ASSUME RInv, Covering, [Next]_vars
    PROVE  Covering'
  <1>1. RInv'
    BY RStep
  <1>2. CASE UNCHANGED vars
    BY <1>2 DEF vars, Covering, blk, kind
  <1>3. CASE \E sender \in Senders, msg \in Creations, amount \in Amounts \cup {0} : Create(sender, msg, amount)
    BY <1>3, CreateCovering
  <1>4. CASE \E id \in Ids, sender \in Senders : \E msg \in Updates : Update(sender, id, msg)
    BY <1>4, UpdateCovering
  <1>5. CASE \E id \in Ids, sender \in Senders : Withdraw(sender, id)
    BY <1>5, WithdrawCovering
  <1>6. CASE \E id \in Ids : \E amount \in Amounts : FundNative(id, amount)
    BY <1>6, FundNativeCovering
  <1>7. CASE \E id \in Ids : \E amount \in Amounts, denom \in Denoms : FundCw20(denom, id, amount)
    BY <1>7, FundCw20Covering
  <1>8. CASE \E id \in Ids : \E user \in Users : Claim(user, id)
    BY <1>8, ClaimCovering
  <1>9. CASE \E sender \in Senders : \E amount \in Amounts : FundExternal(sender, amount)
    BY <1>9, FundExternalCovering
  <1>10. CASE \E sender \in Senders : ClaimExternal(sender)
    BY <1>10, ClaimExternalCovering
  <1>11. CASE \E sender \in Senders : \E duration \in Durations : UpdateRewardDuration(sender, duration)
    BY <1>11, UpdateRewardDurationCovering
  <1>12. CASE \/ \E msg \in Funds : InstantiateFund(msg)
              \/ \E denom \in Denoms : \E amount \in Amounts : FundShares(denom, amount)
              \/ \E denom \in Denoms : \E user \in Users : ClaimShares(user, denom)
              \/ \E user \in Users : ClaimAll(user)
              \/ \E h \in Heights : Redistribute(h)
    BY <1>12, FundHandlers
  <1>13. CASE \E c \in Asked, p \in Powers : \E user \in Users : ChangeStake(c, user, p)
    BY <1>1, <1>13, ChangeStakeCovering
  <1>14. CASE \E c \in Asked, p \in Powers : \E u, v \in Users : ChangeMembers(c, <<u, v>>, p)
    <2>1. PICK c \in Asked, p \in Powers, u \in Users, v \in Users : ChangeMembers(c, <<u, v>>, p)
      BY <1>14
    <2>2. <<u, v>> \in Seq(Users)
      OBVIOUS
    <2> QED BY <1>1, <2>1, <2>2, ChangeMembersCovering
  <1>15. CASE Tick
    BY <1>1, <1>15, TickCovering
  <1> QED
    BY <1>2, <1>3, <1>4, <1>5, <1>6, <1>7, <1>8, <1>9, <1>10, <1>11, <1>12, <1>13, <1>14, <1>15, Zenon DEF Next

----------------------------------------------------------------------------
(* Theorems *)

\* In every state, of dao-rewards-distributor: the times that update_rewards compares are of one
\* kind, and no member has more accounted for than the distribution has earned; of
\* cw20-stake-external-rewards: the last update is neither ahead of the block nor of the end of
\* the period, and no member has more accounted for than was earned; of cw-fund-distributor: no
\* member has claimed more than its share, while the powers it shares by are known.
THEOREM Invariant == Spec => []RInv
  <1>1. Init => RInv
    BY RInit
  <1>2. RInv /\ [Next]_vars => RInv'
    BY RStep
  <1> QED BY <1>1, <1>2, PTL DEF Spec

\* Whatever is created, funded, updated, withdrawn, claimed and staked, in whatever order, the
\* subtractions in rewards.rs, in external-rewards' get_rewards_earned and in cw-fund-distributor's
\* get_entitlement never fail: a member can always claim, stake and unstake.
THEOREM UpdatesSucceed == Spec => []UpdatesNeverFail
  <1>1. RInv => UpdatesNeverFail
    BY UpdatesSucceedNow
  <1> QED BY <1>1, Invariant, PTL

\* The balances of the three contracts cover what all members may claim, with what is still to be
\* distributed: what update_rewards, create, fund, update, withdraw and claim round down is never
\* paid out twice, and the hooks bring members up to date before their power counts.
THEOREM BalanceCovers == Spec => []Covered
  <1>1. Init => Covering
    BY CoveringInit
  <1>2. RInv /\ Covering /\ [Next]_vars => Covering'
    BY CoveringStep
  <1>3. RInv /\ Covering => Covered
    BY CoveredNow
  <1> QED BY <1>1, <1>2, <1>3, Invariant, PTL DEF Spec
=============================================================================
