------------------------- MODULE StakedVoting_proofs -------------------------
(***************************************************************************)
(* Theorems about StakedVoting, for every set of stakers and NFTs, every   *)
(* instantiation message, every distribution of tokens and every bound.    *)
(***************************************************************************)
EXTENDS StakedVoting, SumTheorems

----------------------------------------------------------------------------
(* Snapshots *)

\* A snapshot that was last written in block n or before.
IsSnap(snap, n) ==
    /\ snap = [now |-> snap.now, log |-> snap.log]
    /\ snap.now \in Nat
    /\ DOMAIN snap.log \subseteq 1 .. n

\* The operators the four contracts share are the same in each.
LEMMA TokenOperators ==
    /\ \A snap, h : TS!may_load_at_height(snap, h) = may_load_at_height(snap, h)
    /\ \A guard, s : TS!Ok(guard, s) = Ok(guard, s)
    /\ \A s, n, u, p, q : TS!SetPower(s, n, u, p, q) = SetPower(s, n, u, p, q)
    /\ \A s, u, d : TS!stake_hook_msgs(s, u, d) = Told(s, u, d)
    /\ \A s, u, d : TS!unstake_hook_msgs(s, u, d) = Told(s, u, -d)
  BY DEF may_load_at_height, TS!may_load_at_height, Ok, TS!Ok, SetPower, TS!SetPower,
         Written, TS!Written, Told, TS!Told, TS!stake_hook_msgs, TS!unstake_hook_msgs,
         Range, TS!Range

LEMMA Cw20Operators ==
    /\ \A snap, h : C20!may_load_at_height(snap, h) = may_load_at_height(snap, h)
    /\ \A guard, s : C20!Ok(guard, s) = Ok(guard, s)
    /\ \A s, n, u, p, q : C20!SetPower(s, n, u, p, q) = SetPower(s, n, u, p, q)
    /\ \A s, u, d : C20!stake_hook_msgs(s, u, d) = Told(s, u, d)
    /\ \A s, u, d : C20!unstake_hook_msgs(s, u, d) = Told(s, u, -d)
  BY DEF may_load_at_height, C20!may_load_at_height, Ok, C20!Ok, SetPower, C20!SetPower,
         Written, C20!Written, Told, C20!Told, C20!stake_hook_msgs, C20!unstake_hook_msgs,
         Range, C20!Range

LEMMA Cw721Operators ==
    /\ \A snap, h : C721!may_load_at_height(snap, h) = may_load_at_height(snap, h)
    /\ \A guard, s : C721!Ok(guard, s) = Ok(guard, s)
    /\ \A s, n, u, p, q : C721!SetPower(s, n, u, p, q) = SetPower(s, n, u, p, q)
    /\ \A s, u, d : C721!stake_hook_msgs(s, u, d) = Told(s, u, d)
    /\ \A s, u, d : C721!unstake_hook_msgs(s, u, d) = Told(s, u, -d)
  BY DEF may_load_at_height, C721!may_load_at_height, Ok, C721!Ok, SetPower, C721!SetPower,
         Written, C721!Written, Told, C721!Told, C721!stake_hook_msgs, C721!unstake_hook_msgs,
         Range, C721!Range

LEMMA OnftOperators ==
    /\ \A snap, h : ON!may_load_at_height(snap, h) = may_load_at_height(snap, h)
    /\ \A guard, s : ON!Ok(guard, s) = Ok(guard, s)
    /\ \A s, n, u, p, q : ON!SetPower(s, n, u, p, q) = SetPower(s, n, u, p, q)
    /\ \A s, u, d : ON!stake_hook_msgs(s, u, d) = Told(s, u, d)
    /\ \A s, u, d : ON!unstake_hook_msgs(s, u, d) = Told(s, u, -d)
  BY DEF may_load_at_height, ON!may_load_at_height, Ok, ON!Ok, SetPower, ON!SetPower,
         Written, ON!Written, Told, ON!Told, ON!stake_hook_msgs, ON!unstake_hook_msgs,
         Range, ON!Range

\* A new snapshot.
LEMMA NewSnap ==
    ASSUME NEW v \in Nat, NEW n \in Nat
    PROVE  IsSnap(Snapshot(v), n) /\ Snapshot(v).now = v
  BY DEF IsSnap, Snapshot

\* After the last write, the present value is read.
LEMMA LoadNow ==
    ASSUME NEW n \in Nat, NEW snap, IsSnap(snap, n), NEW h \in Nat, h > n
    PROVE  may_load_at_height(snap, h) = snap.now
  BY DEF IsSnap, may_load_at_height

\* What Written yields.
LEMMA WrittenSnap ==
    ASSUME NEW n \in Nat \ {0}, NEW snap, IsSnap(snap, n), NEW v \in Nat
    PROVE  /\ IsSnap(Written(snap, n, v), n)
           /\ Written(snap, n, v).now = v
  BY DEF IsSnap, Written

\* A write in block n changes nothing of what is read for block n or before.
LEMMA LoadWritten ==
    ASSUME NEW n \in Nat \ {0}, NEW snap, IsSnap(snap, n), NEW v, NEW h \in 1 .. n
    PROVE  may_load_at_height(Written(snap, n, v), h) = may_load_at_height(snap, h)
  <1> DEFINE old == {k \in DOMAIN snap.log : k >= h}
             log == Written(snap, n, v).log
             new == {k \in DOMAIN log : k >= h}
  <1>1. DOMAIN log = DOMAIN snap.log \cup {n}
    BY DEF Written
  <1>2. \A k \in DOMAIN snap.log : log[k] = snap.log[k]
    BY DEF Written
  <1>3. n \notin DOMAIN snap.log => log[n] = snap.now
    BY DEF Written
  <1>4. new = old \cup {n}
    BY <1>1
  <1>5. may_load_at_height(Written(snap, n, v), h)
           = log[CHOOSE m \in new : \A k \in new : m <= k]
    BY <1>4 DEF may_load_at_height
  <1>6. CASE old = {}
    <2>1. new = {n} /\ n \notin DOMAIN snap.log
      BY <1>4, <1>6
    <2>2. (CHOOSE m \in new : \A k \in new : m <= k) = n
      BY <2>1
    <2>3. may_load_at_height(snap, h) = snap.now
      BY <1>6 DEF may_load_at_height
    <2> QED BY <2>1, <2>2, <2>3, <1>3, <1>5
  <1>7. CASE old # {}
    <2>1. old \in SUBSET Nat /\ \A k \in old : k <= n
      BY DEF IsSnap
    <2>2. \E m \in old : \A k \in old : m <= k
      BY <2>1, <1>7, LeastNatural
    <2>3. PICK m \in old : \A k \in old : m <= k
      BY <2>2
    <2> HIDE DEF old, new, log
    <2>4. \A x \in old : (\A k \in old : x <= k) => x = m
      BY <2>1, <2>3
    <2>5. (CHOOSE x \in old : \A k \in old : x <= k) = m
      BY <2>3, <2>4
    <2>6. \A k \in new : m <= k
      BY <1>4, <2>1, <2>3
    <2>7. \A x \in new : (\A k \in new : x <= k) => x = m
      BY <1>4, <2>1, <2>3
    <2>8. (CHOOSE x \in new : \A k \in new : x <= k) = m
      BY <1>4, <2>3, <2>6, <2>7
    <2>9. may_load_at_height(snap, h) = snap.log[m]
      BY <1>7, <2>5 DEF may_load_at_height, old
    <2>10. m \in DOMAIN snap.log
      BY DEF old
    <2> QED BY <1>2, <1>5, <2>8, <2>9, <2>10
  <1> QED BY <1>6, <1>7

----------------------------------------------------------------------------
(* What the operators shared by the contracts do to the stakes *)

Kinds == {"token", "cw20", "cw721", "onft"}

Fields == {"kind", "duration", "threshold", "hooks", "power", "total", "claims", "bank",
           "balance", "owner", "staked", "prepared", "told", "recalled"}

\* r differs from s in nothing that the stakes are made of.
SameStakes(s, r) ==
    /\ DOMAIN r = DOMAIN s /\ r.kind = s.kind
    /\ r.power = s.power /\ r.total = s.total /\ r.hooks = s.hooks /\ r.told = s.told

\* In block n the stake of user u changes by d, the total with it, and the receiver of
\* the hooks is told.
Moved(s, t, n, u, d) ==
    /\ DOMAIN t = DOMAIN s /\ t.kind = s.kind /\ t.hooks = s.hooks
    /\ t.power = [s.power EXCEPT ![u] = Written(s.power[u], n, s.power[u].now + d)]
    /\ t.total = Written(s.total, n, s.total.now + d)
    /\ Tracker \in Range(s.hooks) => t.told = [s.told EXCEPT ![u] = s.told[u] + d]
    /\ Tracker \notin Range(s.hooks) => t.told = s.told

\* The fields in which a storage differs from another that the stakes moved.
SameRest(r, t) == \A x \in Fields \ {"power", "total", "told"} : t[x] = r[x]

\* The stakes have moved but nobody was told.
MovedUntold(s, w, n, u, d) ==
    /\ DOMAIN w = DOMAIN s /\ w.kind = s.kind /\ w.hooks = s.hooks /\ w.told = s.told
    /\ w.power = [s.power EXCEPT ![u] = Written(s.power[u], n, s.power[u].now + d)]
    /\ w.total = Written(s.total, n, s.total.now + d)

\* SetPower moves the stakes.
LEMMA PowerIsSet ==
    ASSUME NEW s, NEW r, DOMAIN s = Fields, SameStakes(s, r), NEW n, NEW u, NEW d,
           NEW p, NEW q, p = s.power[u].now + d, q = s.total.now + d
    PROVE  /\ MovedUntold(s, SetPower(r, n, u, p, q), n, u, d)
           /\ SameRest(r, SetPower(r, n, u, p, q))
  <1>1. DOMAIN r = Fields
    BY DEF SameStakes
  <1> DEFINE w == SetPower(r, n, u, p, q)
  <1>2. /\ DOMAIN w = Fields
        /\ w.power = [r.power EXCEPT ![u] = Written(r.power[u], n, p)]
        /\ w.total = Written(r.total, n, q)
        /\ \A x \in Fields \ {"power", "total"} : w[x] = r[x]
    BY <1>1 DEF SetPower, Fields
  <1> HIDE DEF w
  <1>3. MovedUntold(s, w, n, u, d) /\ SameRest(r, w)
    BY <1>1, <1>2 DEF MovedUntold, SameRest, SameStakes, Fields
  <1> QED BY <1>3 DEF w

\* The hooks tell their receiver.
LEMMA HooksTell ==
    ASSUME NEW s, DOMAIN s = Fields, NEW n, NEW u, NEW d, NEW w, MovedUntold(s, w, n, u, d)
    PROVE  Moved(s, Told(w, u, d), n, u, d) /\ SameRest(w, Told(w, u, d))
  <1> DEFINE t == Told(w, u, d)
  <1>1. DOMAIN w = Fields /\ w.hooks = s.hooks
    BY DEF MovedUntold
  <1>2. CASE Tracker \in Range(s.hooks)
    <2>1. t = [w EXCEPT !.told[u] = @ + d]
      BY <1>1, <1>2 DEF Told
    <2>2. /\ DOMAIN t = Fields /\ t.told = [w.told EXCEPT ![u] = w.told[u] + d]
          /\ \A x \in Fields \ {"told"} : t[x] = w[x]
      BY <1>1, <2>1 DEF Fields
    <2> HIDE DEF t
    <2>3. Moved(s, t, n, u, d) /\ SameRest(w, t)
      BY <1>1, <1>2, <2>2 DEF Moved, MovedUntold, SameRest, Fields
    <2> QED BY <2>3 DEF t
  <1>3. CASE Tracker \notin Range(s.hooks)
    <2>1. t = w
      BY <1>1, <1>3 DEF Told
    <2> HIDE DEF t
    <2>2. Moved(s, t, n, u, d) /\ SameRest(w, t)
      BY <1>1, <1>3, <2>1 DEF Moved, MovedUntold, SameRest, Fields
    <2> QED BY <2>2 DEF t
  <1> QED BY <1>2, <1>3

\* SetPower and the hooks together.
LEMMA PowerIsSetAndTold ==
    ASSUME NEW s, NEW r, DOMAIN s = Fields, SameStakes(s, r), NEW n, NEW u, NEW d,
           NEW p, NEW q, p = s.power[u].now + d, q = s.total.now + d
    PROVE  /\ Moved(s, Told(SetPower(r, n, u, p, q), u, d), n, u, d)
           /\ SameRest(r, Told(SetPower(r, n, u, p, q), u, d))
  <1> DEFINE w == SetPower(r, n, u, p, q)
  <1>1. MovedUntold(s, w, n, u, d) /\ SameRest(r, w)
    BY PowerIsSet
  <1> HIDE DEF w
  <1>2. Moved(s, Told(w, u, d), n, u, d) /\ SameRest(w, Told(w, u, d))
    BY <1>1, HooksTell
  <1>3. SameRest(r, Told(w, u, d))
    BY <1>1, <1>2 DEF SameRest
  <1> QED BY <1>2, <1>3 DEF w

\* What remains of a storage of which fields other than those of the stakes are replaced.
LEMMA SameStakesExcept ==
    ASSUME NEW s, DOMAIN s = Fields, NEW v
    PROVE  /\ SameStakes(s, s)
           /\ SameStakes(s, [s EXCEPT !.duration = v])
           /\ SameStakes(s, [s EXCEPT !.threshold = v])
           /\ SameStakes(s, [s EXCEPT !.claims = v])
           /\ SameStakes(s, [s EXCEPT !.bank = v])
           /\ SameStakes(s, [s EXCEPT !.balance = v])
           /\ SameStakes(s, [s EXCEPT !.owner = v])
           /\ SameStakes(s, [s EXCEPT !.staked = v])
           /\ SameStakes(s, [s EXCEPT !.prepared = v])
  BY DEF SameStakes, Fields

\* A storage with the stakes of one with the stakes of s has the stakes of s.
LEMMA SameStakesTrans ==
    ASSUME NEW s, NEW r, NEW t, SameStakes(s, r), SameStakes(r, t)
    PROVE  SameStakes(s, t)
  BY DEF SameStakes

\* Paying out touches the claims or the balances only.
LEMMA PaidOutStakes ==
    ASSUME NEW s, DOMAIN s = Fields, NEW n, NEW u, NEW a, NEW r \in PaidOut(s, n, u, a)
    PROVE  SameStakes(s, r) /\ r.balance = s.balance
  <1>1. CASE s.duration = {}
    <2>1. r = [s EXCEPT !.bank = Pay(s.bank, Self, u, a)]
      BY <1>1 DEF PaidOut, Ok
    <2> QED BY <2>1 DEF SameStakes, Fields
  <1>2. CASE s.duration # {}
    <2>1. r = [s EXCEPT !.claims[u] = Append(@, Claim(a, ReleaseAt(s, n)))]
      BY <1>2 DEF PaidOut, Ok
    <2> QED BY <2>1 DEF SameStakes, Fields
  <1> QED BY <1>1, <1>2

----------------------------------------------------------------------------
(* dao-voting-token-staked *)

LEMMA TokenPaysOut == \A s, n, u, a : TS!PaidOut(s, n, u, a) = PaidOut(s, n, u, a)
  BY DEF PaidOut, TS!PaidOut, Ok, TS!Ok, Pay, TS!Pay, Claim, TS!Claim, ReleaseAt, TS!ReleaseAt

LEMMA TokenClaim ==
    ASSUME NEW s, DOMAIN s = Fields, NEW n, NEW u, NEW r \in TS!execute_claim(s, n, u)
    PROVE  SameStakes(s, r) /\ r.balance = s.balance
  <1> DEFINE release == TS!Amount(TS!Mature(s.claims[u], n))
             waiting == TS!Waiting(s.claims[u], n)
  <1>1. r = [s EXCEPT !.claims[u] = waiting, !.bank = TS!Pay(s.bank, Self, u, release)]
    BY DEF TS!execute_claim, TS!Claimed, TS!Ok
  <1> HIDE DEF release, waiting
  <1> QED BY <1>1 DEF SameStakes, Fields

LEMMA TokenStake ==
    ASSUME NEW s, DOMAIN s = Fields, NEW n, NEW u, NEW a \in Nat,
           NEW t \in TS!execute_stake(s, n, u, a)
    PROVE  /\ Moved(s, t, n, u, a)
           /\ a <= s.bank[u]
           /\ SameRest([s EXCEPT !.bank = Pay(s.bank, u, Self, a)], t)
  <1> DEFINE r == [s EXCEPT !.bank = Pay(s.bank, u, Self, a)]
             p == s.power[u].now + a
             q == s.total.now + a
  <1>1. TS!Pay(s.bank, u, Self, a) = Pay(s.bank, u, Self, a)
    BY DEF Pay, TS!Pay
  <1>2. t = Told(SetPower(r, n, u, p, q), u, a) /\ a <= s.bank[u]
    BY <1>1, TokenOperators DEF TS!execute_stake, TS!Ok
  <1>3. SameStakes(s, r)
    BY SameStakesExcept
  <1> HIDE DEF r
  <1>4. Moved(s, t, n, u, a) /\ SameRest(r, t)
    BY <1>2, <1>3, PowerIsSetAndTold
  <1> QED BY <1>2, <1>4 DEF r

LEMMA TokenUnstake ==
    ASSUME NEW s, DOMAIN s = Fields, NEW n, NEW u, NEW a \in Nat,
           NEW t \in TS!execute_unstake(s, n, u, a)
    PROVE  /\ Moved(s, t, n, u, -a)
           /\ a <= s.power[u].now /\ a <= s.total.now
           /\ \E r \in PaidOut(s, n, u, a) : SameRest(r, t)
  <1>1. PICK r \in PaidOut(s, n, u, a) :
            t \in TS!Ok(a # 0 /\ a <= s.power[u].now /\ a <= s.total.now,
                        TS!unstake_hook_msgs(TS!SetPower(r, n, u, s.power[u].now - a,
                                                         s.total.now - a), u, a))
    BY TokenPaysOut DEF TS!execute_unstake
  <1> DEFINE p == s.power[u].now - a
             q == s.total.now - a
  <1>2. t = Told(SetPower(r, n, u, p, q), u, -a) /\ a <= s.power[u].now /\ a <= s.total.now
    BY <1>1, TokenOperators DEF TS!Ok
  <1>3. SameStakes(s, r)
    BY PaidOutStakes
  <1>4. p = s.power[u].now + (-a) /\ q = s.total.now + (-a)
    OBVIOUS
  <1>5. Moved(s, t, n, u, -a) /\ SameRest(r, t)
    BY <1>2, <1>3, <1>4, PowerIsSetAndTold
  <1> QED BY <1>2, <1>5

----------------------------------------------------------------------------
(* cw20-stake *)

LEMMA Cw20PaysOut == \A s, n, u, a : C20!PaidOut(s, n, u, a) = PaidOut(s, n, u, a)
  BY DEF PaidOut, C20!PaidOut, Ok, C20!Ok, Pay, C20!Pay, Claim, C20!Claim, ReleaseAt, C20!ReleaseAt

LEMMA Cw20Claim ==
    ASSUME NEW s, DOMAIN s = Fields, NEW n, NEW u, NEW r \in C20!execute_claim(s, n, u)
    PROVE  SameStakes(s, r) /\ r.balance = s.balance
  <1> DEFINE release == C20!Amount(C20!Mature(s.claims[u], n))
             waiting == C20!Waiting(s.claims[u], n)
  <1>1. r = [s EXCEPT !.claims[u] = waiting, !.bank = C20!Pay(s.bank, Self, u, release)]
    BY DEF C20!execute_claim, C20!Claimed, C20!Ok
  <1> HIDE DEF release, waiting
  <1> QED BY <1>1 DEF SameStakes, Fields

LEMMA Cw20Stake ==
    ASSUME NEW s, DOMAIN s = Fields, NEW n, NEW u, NEW a \in Nat, s.balance \in Nat,
           s.total.now \in Nat, NEW t \in C20!execute_stake(s, n, u, a)
    PROVE  /\ C20!amount_to_stake(s.total.now, s.balance, a) \in Nat
           /\ Moved(s, t, n, u, C20!amount_to_stake(s.total.now, s.balance, a))
           /\ a <= s.bank[u]
           /\ SameRest([s EXCEPT !.bank = Pay(s.bank, u, Self, a), !.balance = @ + a], t)
  <1> DEFINE r == [s EXCEPT !.bank = Pay(s.bank, u, Self, a), !.balance = @ + a]
             d == C20!amount_to_stake(s.total.now, s.balance, a)
             p == s.power[u].now + d
             q == s.total.now + d
  <1>1. C20!Pay(s.bank, u, Self, a) = Pay(s.bank, u, Self, a)
    BY DEF Pay, C20!Pay
  <1>2. t = Told(SetPower(r, n, u, p, q), u, d) /\ a <= s.bank[u]
    BY <1>1, Cw20Operators DEF C20!execute_stake, C20!Ok
  <1>3. SameStakes(s, r)
    BY DEF SameStakes, Fields
  <1>4. d \in Nat
    <2>1. CASE s.total.now = 0 \/ s.balance = 0
      BY <2>1 DEF C20!amount_to_stake
    <2>2. CASE ~(s.total.now = 0 \/ s.balance = 0)
      <3>1. d = (s.total.now * a) \div s.balance
        BY <2>2 DEF C20!amount_to_stake
      <3>2. s.total.now * a \in Nat /\ s.balance \in Nat /\ s.balance > 0
        BY <2>2
      <3> DEFINE m == s.total.now * a
                 b == s.balance
      <3>3. m \in Nat /\ b \in Nat /\ b > 0
        BY <3>2
      <3> HIDE DEF d, m, b
      <3>4. m \div b \in Nat
        BY <3>3
      <3> QED BY <3>1, <3>4 DEF m, b
    <2> QED BY <2>1, <2>2
  <1> HIDE DEF r, d
  <1>5. Moved(s, t, n, u, d) /\ SameRest(r, t)
    BY <1>2, <1>3, PowerIsSetAndTold
  <1> QED BY <1>2, <1>4, <1>5 DEF r, d

LEMMA Cw20Unstake ==
    ASSUME NEW s, DOMAIN s = Fields, NEW n, NEW u, NEW a \in Nat, s.total.now \in Nat,
           NEW t \in C20!execute_unstake(s, n, u, a)
    PROVE  /\ Moved(s, t, n, u, -a)
           /\ s.total.now # 0 /\ a <= s.power[u].now /\ a <= s.total.now
           /\ C20!amount_to_claim(s.total.now, s.balance, a) <= s.balance
           /\ \E r \in PaidOut(s, n, u, C20!amount_to_claim(s.total.now, s.balance, a)) :
                  SameRest([r EXCEPT !.balance = r.balance
                                - C20!amount_to_claim(s.total.now, s.balance, a)], t)
  <1> DEFINE c == C20!amount_to_claim(s.total.now, s.balance, a)
  <1>1. s.total.now # 0 /\ ~(a > s.total.now)
    BY DEF C20!execute_unstake
  <1>2. PICK r \in PaidOut(s, n, u, c) :
            t \in C20!Ok(a <= s.power[u].now /\ c <= s.balance,
                         C20!unstake_hook_msgs(
                             C20!SetPower([r EXCEPT !.balance = r.balance - c], n, u,
                                          s.power[u].now - a, s.total.now - a), u, a))
    BY <1>1, Cw20PaysOut DEF C20!execute_unstake
  <1> DEFINE w == [r EXCEPT !.balance = r.balance - c]
             p == s.power[u].now - a
             q == s.total.now - a
  <1>3. t = Told(SetPower(w, n, u, p, q), u, -a) /\ a <= s.power[u].now /\ c <= s.balance
    BY <1>2, Cw20Operators DEF C20!Ok
  <1>4. SameStakes(s, r)
    BY PaidOutStakes
  <1>5. SameStakes(s, w)
    BY <1>4 DEF SameStakes, Fields
  <1>6. p = s.power[u].now + (-a) /\ q = s.total.now + (-a)
    OBVIOUS
  <1> HIDE DEF w, c
  <1>7. Moved(s, t, n, u, -a) /\ SameRest(w, t)
    BY <1>3, <1>5, <1>6, PowerIsSetAndTold
  <1>8. SameRest([r EXCEPT !.balance = r.balance - c], t)
    BY <1>7 DEF w
  <1>9. a <= s.total.now
    BY <1>1
  <1> QED BY <1>1, <1>2, <1>3, <1>7, <1>8, <1>9, Zenon DEF c

----------------------------------------------------------------------------
(* dao-voting-cw721-staked *)

LEMMA Cw721Matures ==
    \A c, n : C721!Mature(c, n) = Mature(c, n) /\ C721!Waiting(c, n) = Waiting(c, n)
  BY Zenon DEF Mature, C721!Mature, Waiting, C721!Waiting, Picked, C721!Picked

\* The owners once the NFTs in S went to user u.
Owners(owner, S, u) == [m \in Nfts |-> IF m \in S THEN u ELSE owner[m]]

LEMMA Cw721Stake ==
    ASSUME NEW s, DOMAIN s = Fields, NEW n, NEW u, NEW id, NEW t \in C721!execute_stake(s, n, u, id)
    PROVE  /\ Moved(s, t, n, u, 1)
           /\ s.owner[id] = u
           /\ SameRest([s EXCEPT !.owner[id] = Self, !.staked = @ \cup {<<u, id>>}], t)
  <1> DEFINE v == [s EXCEPT !.owner[id] = Self]
             r == [v EXCEPT !.staked = @ \cup {<<u, id>>}]
             p == v.power[u].now + 1
             q == v.total.now + 1
  <1>1. t = Told(SetPower(r, n, u, p, q), u, 1) /\ s.owner[id] = u
    BY Cw721Operators DEF C721!execute_stake, C721!register_staked_nft, C721!Ok
  <1>2. v.power = s.power /\ v.total = s.total
    BY DEF Fields
  <1>3. p = s.power[u].now + 1 /\ q = s.total.now + 1
    BY <1>2
  <1>4. r = [s EXCEPT !.owner[id] = Self, !.staked = @ \cup {<<u, id>>}]
    BY DEF Fields
  <1>5. SameStakes(s, r)
    BY <1>4 DEF SameStakes, Fields
  <1> HIDE DEF r, p, q
  <1>6. Moved(s, t, n, u, 1) /\ SameRest(r, t)
    BY <1>1, <1>3, <1>5, PowerIsSetAndTold
  <1> QED BY <1>1, <1>4, <1>6

\* What unstaking NFTs leaves: they are returned, or claims on them are created.
Unstaked(s, t, n, u, ids) ==
    /\ t.staked = s.staked \ ({u} \X Range(ids))
    /\ \A x \in Fields \ {"power", "total", "told", "staked", "owner", "claims"} : t[x] = s[x]
    /\ \/ /\ s.duration = {} /\ \A id \in Range(ids) : s.owner[id] = Self
          /\ t.owner = Owners(s.owner, Range(ids), u) /\ t.claims = s.claims
       \/ /\ s.duration # {} /\ t.owner = s.owner
          /\ t.claims = [s.claims EXCEPT
                ![u] = @ \o [i \in DOMAIN ids |-> Claim(ids[i], ReleaseAt(s, n))]]

\* Unstaking checks that the NFTs are staked by the user and named once.
CanUnstake(s, u, ids) ==
    /\ ids # <<>> /\ \A id \in Range(ids) : <<u, id>> \in s.staked
    /\ \A i, j \in DOMAIN ids : ids[i] = ids[j] => i = j
    /\ Len(ids) <= s.power[u].now /\ Len(ids) <= s.total.now

LEMMA Cw721Unstake ==
    ASSUME NEW s, DOMAIN s = Fields, NEW n, NEW u, NEW ids \in Seq(Nfts),
           NEW t \in C721!execute_unstake(s, n, u, ids),
           s.power[u].now \in Nat, s.total.now \in Nat
    PROVE  Moved(s, t, n, u, -Len(ids)) /\ CanUnstake(s, u, ids) /\ Unstaked(s, t, n, u, ids)
  <1> DEFINE v == [s EXCEPT !.staked = @ \ ({u} \X Range(ids))]
             p == s.power[u].now - Len(ids)
             q == s.total.now - Len(ids)
             w == SetPower(v, n, u, p, q)
  <1>1. C721!Range(ids) = Range(ids)
    BY DEF Range, C721!Range
  <1>2. ids # <<>>
    BY DEF C721!execute_unstake
  <1> DEFINE Returned(y) ==
                 IF s.duration = {} THEN C721!Sent(y, ids, u)
                 ELSE C721!Ok(Len(s.claims[u]) + Len(ids) <= MaxClaims,
                              [y EXCEPT !.claims[u] =
                                  C721!create_nft_claims(@, ids, C721!ReleaseAt(s, n))])
  <1>20. PICK x \in UNION {Returned(y) : y \in C721!register_unstaked_nfts(s, n, u, ids)} :
             t = C721!unstake_hook_msgs(x, u, Len(ids))
    BY <1>2 DEF C721!execute_unstake
  <1>3. PICK y \in C721!register_unstaked_nfts(s, n, u, ids) : x \in Returned(y)
    BY <1>20
  <1>4. y = w /\ CanUnstake(s, u, ids)
    <2>1. y = C721!SetPower(v, n, u, p, q)
      BY <1>1 DEF C721!register_unstaked_nfts, C721!Ok
    <2>2. y = w
      BY <2>1, Cw721Operators
    <2> HIDE DEF w, v, p, q
    <2>3. CanUnstake(s, u, ids)
      BY <1>1, <1>2 DEF C721!register_unstaked_nfts, C721!Ok, CanUnstake, C721!IsInjective
    <2> QED BY <2>2, <2>3
  <1>5. SameStakes(s, v)
    BY SameStakesExcept
  <1>6. p = s.power[u].now + (-Len(ids)) /\ q = s.total.now + (-Len(ids))
    OBVIOUS
  <1>7. /\ v.staked = s.staked \ ({u} \X Range(ids)) /\ DOMAIN v = Fields
        /\ \A f \in Fields \ {"staked"} : v[f] = s[f]
    BY DEF Fields
  <1> HIDE DEF v, p, q
  <1>8. MovedUntold(s, w, n, u, -Len(ids)) /\ SameRest(v, w)
    BY <1>5, <1>6, PowerIsSet
  <1> HIDE DEF w
  <1>9. /\ DOMAIN w = Fields /\ w.staked = s.staked \ ({u} \X Range(ids))
        /\ \A f \in Fields \ {"power", "total", "told", "staked"} : w[f] = s[f]
    BY <1>7, <1>8 DEF MovedUntold, SameRest, Fields
  <1>10. MovedUntold(s, x, n, u, -Len(ids)) /\ Unstaked(s, x, n, u, ids)
    <2>1. CASE s.duration = {}
      <3>1. /\ x = [w EXCEPT !.owner = [m \in Nfts |-> IF m \in Range(ids) THEN u ELSE w.owner[m]]]
            /\ \A id \in Range(ids) : w.owner[id] = Self
        BY <1>1, <1>3, <1>4, <2>1 DEF C721!Sent, C721!Ok
      <3>2. w.owner = s.owner /\ w.claims = s.claims
        BY <1>9 DEF Fields
      <3>3. x = [w EXCEPT !.owner = Owners(s.owner, Range(ids), u)]
        BY <3>1, <3>2 DEF Owners
      <3>4. /\ DOMAIN x = Fields /\ x.owner = Owners(s.owner, Range(ids), u)
            /\ \A f \in Fields \ {"owner"} : x[f] = w[f]
        BY <1>9, <3>3 DEF Fields
      <3>5. MovedUntold(s, x, n, u, -Len(ids))
        BY <1>8, <3>4 DEF MovedUntold, Fields
      <3>6. Unstaked(s, x, n, u, ids)
        BY <1>9, <2>1, <3>1, <3>2, <3>4 DEF Unstaked, Fields
      <3> QED BY <3>5, <3>6
    <2>2. CASE s.duration # {}
      <3> DEFINE c == s.claims[u] \o [i \in DOMAIN ids |-> Claim(ids[i], ReleaseAt(s, n))]
      <3>1. x = [w EXCEPT !.claims[u] = C721!create_nft_claims(@, ids, C721!ReleaseAt(s, n))]
        BY <1>3, <1>4, <2>2 DEF C721!Ok
      <3>2. w.claims = s.claims /\ w.owner = s.owner
        BY <1>9 DEF Fields
      <3>3. C721!create_nft_claims(s.claims[u], ids, C721!ReleaseAt(s, n)) = c
        BY DEF C721!create_nft_claims, C721!Claim, Claim, C721!ReleaseAt, ReleaseAt
      <3>4. x = [w EXCEPT !.claims = [s.claims EXCEPT ![u] = c]]
        BY <1>9, <3>1, <3>2, <3>3 DEF Fields
      <3>5. /\ DOMAIN x = Fields /\ x.claims = [s.claims EXCEPT ![u] = c]
            /\ \A f \in Fields \ {"claims"} : x[f] = w[f]
        BY <1>9, <3>4 DEF Fields
      <3>6. MovedUntold(s, x, n, u, -Len(ids))
        BY <1>8, <3>5 DEF MovedUntold, Fields
      <3>7. Unstaked(s, x, n, u, ids)
        BY <1>9, <2>2, <3>2, <3>5 DEF Unstaked, Fields
      <3> QED BY <3>6, <3>7
    <2> QED BY <2>1, <2>2
  <1>11. t = Told(x, u, -Len(ids))
    BY <1>20, Cw721Operators
  <1>12. Moved(s, t, n, u, -Len(ids)) /\ SameRest(x, t)
    BY <1>10, <1>11, HooksTell
  <1>13. Unstaked(s, t, n, u, ids)
    BY <1>10, <1>12 DEF Unstaked, SameRest, Fields
  <1> QED BY <1>4, <1>12, <1>13

\* The NFTs of claims.
Taken(claims) == {claims[i].what : i \in DOMAIN claims}

\* What claiming NFTs leaves: those of the mature claims are with the user.
NftsClaimed(s, t, n, u) ==
    /\ \A m \in Taken(Mature(s.claims[u], n)) : s.owner[m] = Self
    /\ t = [s EXCEPT !.claims = [s.claims EXCEPT ![u] = Waiting(s.claims[u], n)],
                     !.owner = Owners(s.owner, Taken(Mature(s.claims[u], n)), u)]

LEMMA Cw721Claim ==
    ASSUME NEW s, DOMAIN s = Fields, NEW n, NEW u, NEW t \in C721!execute_claim_nfts(s, n, u)
    PROVE  NftsClaimed(s, t, n, u)
  <1> DEFINE mature == Mature(s.claims[u], n)
             waiting == Waiting(s.claims[u], n)
             ids == [i \in DOMAIN mature |-> mature[i].what]
             S == Taken(mature)
             v == [s EXCEPT !.claims[u] = waiting]
  <1>1. C721!Range(ids) = S
    BY DEF C721!Range, Taken
  <1>2. t \in C721!Sent(v, ids, u)
    BY Cw721Matures DEF C721!execute_claim_nfts, C721!claim_nfts
  <1> HIDE DEF mature, waiting, ids, S
  <1>3. /\ \A m \in S : v.owner[m] = Self
        /\ t = [v EXCEPT !.owner = [m \in Nfts |-> IF m \in S THEN u ELSE v.owner[m]]]
    BY <1>1, <1>2 DEF C721!Sent, C721!Ok
  <1>4. v.owner = s.owner /\ DOMAIN v = Fields /\ v = [s EXCEPT !.claims = [@ EXCEPT ![u] = waiting]]
    BY DEF Fields
  <1>5. t = [s EXCEPT !.claims = [s.claims EXCEPT ![u] = waiting],
                      !.owner = Owners(s.owner, S, u)]
    BY <1>3, <1>4 DEF Owners, Fields
  <1> QED BY <1>3, <1>4, <1>5 DEF mature, waiting, S, NftsClaimed

----------------------------------------------------------------------------
(* dao-voting-onft-staked *)

LEMMA OnftMatures ==
    \A c, n : ON!Mature(c, n) = Mature(c, n) /\ ON!Waiting(c, n) = Waiting(c, n)
  BY Zenon DEF Mature, ON!Mature, Waiting, ON!Waiting, Picked, ON!Picked

LEMMA OnftConfirm ==
    ASSUME NEW s, DOMAIN s = Fields, NEW n, NEW u, NEW ids \in Seq(Nfts),
           NEW t \in ON!execute_confirm_stake(s, n, u, ids)
    PROVE  /\ Moved(s, t, n, u, Len(ids))
           /\ \A m \in Range(ids) : s.prepared[m] = u /\ s.owner[m] = Self
           /\ SameRest([s EXCEPT !.prepared = Owners(s.prepared, Range(ids), NoOne),
                                 !.staked = @ \cup ({u} \X Range(ids))], t)
  <1> DEFINE v == [s EXCEPT !.prepared = Owners(s.prepared, Range(ids), NoOne)]
             r == [v EXCEPT !.staked = @ \cup ({u} \X Range(ids))]
             p == v.power[u].now + Len(ids)
             q == v.total.now + Len(ids)
  <1>1. ON!Range(ids) = Range(ids) /\ ON!NoOne = NoOne
    BY DEF Range, ON!Range, ON!NoOne, NoOne
  <1>2. /\ t = Told(SetPower(r, n, u, p, q), u, Len(ids))
        /\ \A m \in Range(ids) : s.prepared[m] = u /\ s.owner[m] = Self
    BY <1>1, OnftOperators DEF ON!execute_confirm_stake, ON!register_staked_nfts, ON!Ok, Owners
  <1>3. v.power = s.power /\ v.total = s.total
    BY DEF Fields
  <1>4. p = s.power[u].now + Len(ids) /\ q = s.total.now + Len(ids)
    BY <1>3
  <1>5. r = [s EXCEPT !.prepared = Owners(s.prepared, Range(ids), NoOne),
                      !.staked = @ \cup ({u} \X Range(ids))]
    BY DEF Fields
  <1>6. SameStakes(s, r)
    BY <1>5 DEF SameStakes, Fields
  <1> HIDE DEF r, p, q
  <1>7. Moved(s, t, n, u, Len(ids)) /\ SameRest(r, t)
    BY <1>2, <1>4, <1>6, PowerIsSetAndTold
  <1> QED BY <1>2, <1>5, <1>7

LEMMA OnftUnstake ==
    ASSUME NEW s, DOMAIN s = Fields, NEW n, NEW u, NEW ids \in Seq(Nfts),
           NEW t \in ON!execute_unstake(s, n, u, ids),
           s.power[u].now \in Nat, s.total.now \in Nat
    PROVE  Moved(s, t, n, u, -Len(ids)) /\ CanUnstake(s, u, ids) /\ Unstaked(s, t, n, u, ids)
  <1> DEFINE v == [s EXCEPT !.staked = @ \ ({u} \X Range(ids))]
             p == s.power[u].now - Len(ids)
             q == s.total.now - Len(ids)
             w == SetPower(v, n, u, p, q)
  <1>1. ON!Range(ids) = Range(ids)
    BY DEF Range, ON!Range
  <1>2. ids # <<>>
    BY DEF ON!execute_unstake
  <1> DEFINE Returned(y) ==
                 IF s.duration = {} THEN ON!Sent(y, [m \in ON!Range(ids) |-> u])
                 ELSE ON!Ok(Len(s.claims[u]) + Len(ids) <= MaxClaims,
                              [y EXCEPT !.claims[u] =
                                  @ \o [i \in DOMAIN ids |-> ON!Claim(ids[i], ON!ReleaseAt(s, n))]])
  <1>20. PICK x \in UNION {Returned(y) : y \in ON!register_unstaked_nfts(s, n, u, ids)} :
             t = ON!unstake_hook_msgs(x, u, Len(ids))
    BY <1>2 DEF ON!execute_unstake
  <1>3. PICK y \in ON!register_unstaked_nfts(s, n, u, ids) : x \in Returned(y)
    BY <1>20
  <1>4. y = w /\ CanUnstake(s, u, ids)
    <2>1. y = ON!SetPower(v, n, u, p, q)
      BY <1>1 DEF ON!register_unstaked_nfts, ON!Ok
    <2>2. y = w
      BY <2>1, OnftOperators
    <2> HIDE DEF w, v, p, q
    <2>3. CanUnstake(s, u, ids)
      BY <1>1, <1>2 DEF ON!register_unstaked_nfts, ON!Ok, CanUnstake, ON!IsInjective
    <2> QED BY <2>2, <2>3
  <1>5. SameStakes(s, v)
    BY SameStakesExcept
  <1>6. p = s.power[u].now + (-Len(ids)) /\ q = s.total.now + (-Len(ids))
    OBVIOUS
  <1>7. /\ v.staked = s.staked \ ({u} \X Range(ids)) /\ DOMAIN v = Fields
        /\ \A f \in Fields \ {"staked"} : v[f] = s[f]
    BY DEF Fields
  <1> HIDE DEF v, p, q
  <1>8. MovedUntold(s, w, n, u, -Len(ids)) /\ SameRest(v, w)
    BY <1>5, <1>6, PowerIsSet
  <1> HIDE DEF w
  <1>9. /\ DOMAIN w = Fields /\ w.staked = s.staked \ ({u} \X Range(ids))
        /\ \A f \in Fields \ {"power", "total", "told", "staked"} : w[f] = s[f]
    BY <1>7, <1>8 DEF MovedUntold, SameRest, Fields
  <1>10. MovedUntold(s, x, n, u, -Len(ids)) /\ Unstaked(s, x, n, u, ids)
    <2>1. CASE s.duration = {}
      <3>1. /\ x = [w EXCEPT !.owner = [m \in Nfts |-> IF m \in Range(ids) THEN u ELSE w.owner[m]]]
            /\ \A id \in Range(ids) : w.owner[id] = Self
        BY <1>1, <1>3, <1>4, <2>1 DEF ON!Sent, ON!Ok
      <3>2. w.owner = s.owner /\ w.claims = s.claims
        BY <1>9 DEF Fields
      <3>3. x = [w EXCEPT !.owner = Owners(s.owner, Range(ids), u)]
        BY <3>1, <3>2 DEF Owners
      <3>4. /\ DOMAIN x = Fields /\ x.owner = Owners(s.owner, Range(ids), u)
            /\ \A f \in Fields \ {"owner"} : x[f] = w[f]
        BY <1>9, <3>3 DEF Fields
      <3>5. MovedUntold(s, x, n, u, -Len(ids))
        BY <1>8, <3>4 DEF MovedUntold, Fields
      <3>6. Unstaked(s, x, n, u, ids)
        BY <1>9, <2>1, <3>1, <3>2, <3>4 DEF Unstaked, Fields
      <3> QED BY <3>5, <3>6
    <2>2. CASE s.duration # {}
      <3> DEFINE c == s.claims[u] \o [i \in DOMAIN ids |-> Claim(ids[i], ReleaseAt(s, n))]
      <3>1. x = [w EXCEPT !.claims[u] = @ \o [i \in DOMAIN ids |-> ON!Claim(ids[i], ON!ReleaseAt(s, n))]]
        BY <1>3, <1>4, <2>2 DEF ON!Ok
      <3>2. w.claims = s.claims /\ w.owner = s.owner
        BY <1>9 DEF Fields
      <3>3. s.claims[u] \o [i \in DOMAIN ids |-> ON!Claim(ids[i], ON!ReleaseAt(s, n))] = c
        BY DEF ON!Claim, Claim, ON!ReleaseAt, ReleaseAt
      <3>4. x = [w EXCEPT !.claims = [s.claims EXCEPT ![u] = c]]
        BY <1>9, <3>1, <3>2, <3>3 DEF Fields
      <3>5. /\ DOMAIN x = Fields /\ x.claims = [s.claims EXCEPT ![u] = c]
            /\ \A f \in Fields \ {"claims"} : x[f] = w[f]
        BY <1>9, <3>4 DEF Fields
      <3>6. MovedUntold(s, x, n, u, -Len(ids))
        BY <1>8, <3>5 DEF MovedUntold, Fields
      <3>7. Unstaked(s, x, n, u, ids)
        BY <1>9, <2>2, <3>2, <3>5 DEF Unstaked, Fields
      <3> QED BY <3>6, <3>7
    <2> QED BY <2>1, <2>2
  <1>11. t = Told(x, u, -Len(ids))
    BY <1>20, OnftOperators
  <1>12. Moved(s, t, n, u, -Len(ids)) /\ SameRest(x, t)
    BY <1>10, <1>11, HooksTell
  <1>13. Unstaked(s, t, n, u, ids)
    BY <1>10, <1>12 DEF Unstaked, SameRest, Fields
  <1> QED BY <1>4, <1>12, <1>13

LEMMA OnftClaim ==
    ASSUME NEW s, DOMAIN s = Fields, NEW n, NEW u, NEW t \in ON!execute_claim_nfts(s, n, u)
    PROVE  NftsClaimed(s, t, n, u)
  <1> DEFINE mature == Mature(s.claims[u], n)
             waiting == Waiting(s.claims[u], n)
             S == Taken(mature)
             v == [s EXCEPT !.claims[u] = waiting]
  <1>1. t \in ON!Sent(v, [m \in S |-> u])
    BY OnftMatures DEF ON!execute_claim_nfts, Taken
  <1> HIDE DEF mature, waiting, S
  <1>2. /\ \A m \in S : v.owner[m] = Self
        /\ t = [v EXCEPT !.owner = [m \in Nfts |-> IF m \in S THEN u ELSE v.owner[m]]]
    BY <1>1 DEF ON!Sent, ON!Ok
  <1>3. v.owner = s.owner /\ DOMAIN v = Fields /\ v = [s EXCEPT !.claims = [@ EXCEPT ![u] = waiting]]
    BY DEF Fields
  <1>4. t = [s EXCEPT !.claims = [s.claims EXCEPT ![u] = waiting],
                      !.owner = Owners(s.owner, S, u)]
    BY <1>2, <1>3 DEF Owners, Fields
  <1> QED BY <1>2, <1>3, <1>4 DEF mature, waiting, S, NftsClaimed

\* Who gets an NFT when its stake is cancelled.
Receiver(s, who, recipient, m) ==
    IF who = Dao /\ recipient # {} THEN CHOOSE r \in recipient : TRUE ELSE s.prepared[m]

\* What cancelling leaves: the NFTs that the contract holds go to their receivers.
Cancelled(s, t, who, ids, recipient) ==
    \E held \in SUBSET Range(ids) :
        /\ held = {m \in Range(ids) : s.owner[m] = Self}
        /\ \A m \in held : Receiver(s, who, recipient, m) # NoOne
        /\ who # Dao => \A m \in Range(ids) : who \in {s.owner[m], s.prepared[m]}
        /\ t = [s EXCEPT !.owner = [m \in Nfts |-> IF m \in held THEN Receiver(s, who, recipient, m)
                                                   ELSE s.owner[m]],
                         !.prepared = Owners(s.prepared, Range(ids), NoOne),
                         !.recalled = IF who = Dao THEN s.recalled \cup held ELSE s.recalled]

LEMMA OnftCancel ==
    ASSUME NEW s, DOMAIN s = Fields, NEW who, NEW ids \in Seq(Nfts), NEW recipient,
           NEW t \in ON!execute_cancel_stake(s, who, ids, recipient)
    PROVE  Cancelled(s, t, who, ids, recipient)
  <1> DEFINE held == {m \in Range(ids) : s.owner[m] = Self}
             To(m) == IF who = Dao /\ recipient # {} THEN CHOOSE r \in recipient : TRUE
                      ELSE s.prepared[m]
             to == [m \in held |-> To(m)]
             Reset(r) == [r EXCEPT
                 !.prepared = [m \in Nfts |-> IF m \in Range(ids) THEN NoOne ELSE @[m]],
                 !.recalled = IF who = Dao THEN @ \cup held ELSE @]
  <1>1. ON!Range(ids) = Range(ids) /\ ON!NoOne = NoOne
    BY DEF Range, ON!Range, ON!NoOne, NoOne
  <1>2. PICK r \in ON!Sent(s, to) :
            t \in ON!Ok(/\ \A m \in held : To(m) # NoOne
                        /\ who # Dao => \A m \in Range(ids) : who \in {s.owner[m], s.prepared[m]}
                        /\ \A i, j \in DOMAIN ids : i # j /\ ids[i] = ids[j] => ids[i] \notin held,
                        Reset(r))
    <2> DEFINE h == {m \in ON!Range(ids) : s.owner[m] = Self}
               G == /\ \A m \in h : To(m) # ON!NoOne
                    /\ who # Dao =>
                           \A m \in ON!Range(ids) : who \in {s.owner[m], s.prepared[m]}
                    /\ \A i, j \in DOMAIN ids : i # j /\ ids[i] = ids[j] => ids[i] \notin h
               E(r) == [r EXCEPT
                 !.prepared = [m \in Nfts |-> IF m \in ON!Range(ids) THEN ON!NoOne ELSE @[m]],
                 !.recalled = IF who = Dao THEN @ \cup h ELSE @]
    <2>1. t \in UNION {ON!Ok(G, E(r)) : r \in ON!Sent(s, [m \in h |-> To(m)])}
      BY Zenon DEF ON!execute_cancel_stake
    <2>2. PICK r \in ON!Sent(s, [m \in h |-> To(m)]) : t \in ON!Ok(G, E(r))
      <3> HIDE DEF h, G, E
      <3> QED BY <2>1
    <2>3. h = held
      BY <1>1
    <2>4. r \in ON!Sent(s, to)
      BY <2>2, <2>3, Zenon
    <2>5. E(r) = Reset(r)
      BY <1>1, <2>3, Zenon
    <2>6. t = E(r) /\ G
      BY <2>2 DEF ON!Ok
    <2>7. t = Reset(r)
      BY <2>5, <2>6, Zenon
    <2> HIDE DEF E, Reset
    <2> QED BY <1>1, <2>3, <2>4, <2>6, <2>7 DEF ON!Ok
  <1>3. r = [s EXCEPT !.owner = [m \in Nfts |-> IF m \in held THEN To(m) ELSE s.owner[m]]]
    BY <1>2 DEF ON!Sent, ON!Ok
  <1>4. /\ t = Reset(r) /\ \A m \in held : To(m) # NoOne
        /\ who # Dao => \A m \in Range(ids) : who \in {s.owner[m], s.prepared[m]}
    BY <1>2 DEF ON!Ok
  <1>5. r.prepared = s.prepared /\ r.recalled = s.recalled
    BY <1>3 DEF Fields
  <1>6. t = [s EXCEPT !.owner = [m \in Nfts |-> IF m \in held THEN To(m) ELSE s.owner[m]],
                      !.prepared = Owners(s.prepared, Range(ids), NoOne),
                      !.recalled = IF who = Dao THEN s.recalled \cup held ELSE s.recalled]
    <2> DEFINE o == [m \in Nfts |-> IF m \in held THEN To(m) ELSE s.owner[m]]
               k == IF who = Dao THEN s.recalled \cup held ELSE s.recalled
    <2>1. t = [r EXCEPT !.prepared = Owners(s.prepared, Range(ids), NoOne), !.recalled = k]
      BY <1>4, <1>5 DEF Owners
    <2>2. r = [s EXCEPT !.owner = o]
      BY <1>3
    <2> HIDE DEF o, k
    <2>3. t = [s EXCEPT !.owner = o, !.prepared = Owners(s.prepared, Range(ids), NoOne),
                        !.recalled = k]
      BY <2>1, <2>2 DEF Fields
    <2> QED BY <2>3 DEF o, k
  <1>7. held \in SUBSET Range(ids) /\ \A m : To(m) = Receiver(s, who, recipient, m)
    BY DEF Receiver
  <1>8. t = [s EXCEPT !.owner = [m \in Nfts |-> IF m \in held THEN Receiver(s, who, recipient, m)
                                                 ELSE s.owner[m]],
                      !.prepared = Owners(s.prepared, Range(ids), NoOne),
                      !.recalled = IF who = Dao THEN s.recalled \cup held ELSE s.recalled]
    BY <1>6 DEF Receiver
  <1>9. \A m \in held : Receiver(s, who, recipient, m) # NoOne
    BY <1>4 DEF Receiver
  <1> HIDE DEF To
  <1> QED BY <1>4, <1>7, <1>8, <1>9 DEF Cancelled

LEMMA OnftPrepare ==
    ASSUME NEW s, NEW u, NEW ids, NEW t \in ON!execute_prepare_stake(s, u, ids)
    PROVE  /\ \A m \in Range(ids) : s.owner[m] = u
           /\ t = [s EXCEPT !.prepared = Owners(s.prepared, Range(ids), u)]
  <1>1. ON!Range(ids) = Range(ids)
    BY DEF Range, ON!Range
  <1> QED BY <1>1 DEF ON!execute_prepare_stake, ON!Ok, Owners

----------------------------------------------------------------------------
(* The invariant of the stakes *)

Powers(s) == [u \in Users |-> s.power[u].now]
PowersAt(s, h) == [u \in Users |-> may_load_at_height(s.power[u], h)]

\* In block n: the snapshots hold no later block, the stakes add up, and the receiver of
\* the hooks knows them.
StakeInv(s, n) ==
    /\ DOMAIN s = Fields /\ s.kind \in Kinds /\ s.balance \in Nat
    /\ DOMAIN s.power = Users /\ DOMAIN s.told = Users
    /\ \A u \in Users : IsSnap(s.power[u], n)
    /\ IsSnap(s.total, n)
    /\ SumOver(Powers(s), Users) = s.total.now
    /\ s.hooks \in {<<>>, <<Tracker>>}
    /\ Tracker \in Range(s.hooks) => \A u \in Users : s.told[u] = s.power[u].now

\* A receiver is added or removed.
HookSet(s, t) ==
    \/ t = [s EXCEPT !.hooks = <<Tracker>>, !.told = [u \in Users |-> s.power[u].now]]
    \/ t = [s EXCEPT !.hooks = <<>>, !.told = [u \in Users |-> 0]]

\* The ways in which a handler changes the stakes.
StakeStep(s, t, n) ==
    /\ t.balance \in Nat
    /\ \/ SameStakes(s, t)
       \/ HookSet(s, t)
       \/ \E u \in Users, d \in Int : Moved(s, t, n, u, d) /\ s.power[u].now + d \in Nat

\* A user's stake is part of the total.
LEMMA StakeIsPart ==
    ASSUME NEW s, NEW n, StakeInv(s, n), NEW u \in Users
    PROVE  /\ s.power[u].now \in Nat /\ s.total.now \in Nat
           /\ s.power[u].now <= s.total.now
           /\ \A v \in Users : v # u => s.power[u].now + s.power[v].now <= s.total.now
  <1>1. \A x \in Users : Powers(s)[x] \in Nat /\ Powers(s)[x] = s.power[x].now
    BY DEF Powers, StakeInv, IsSnap
  <1>2. IsFiniteSet(Users)
    BY StakingAssumption
  <1>3. /\ Powers(s)[u] <= SumOver(Powers(s), Users)
        /\ \A z \in Users : z # u => Powers(s)[u] + Powers(s)[z] <= SumOver(Powers(s), Users)
    <2> DEFINE f == Powers(s)
    <2>1. \A x \in Users : f[x] \in Nat
      BY <1>1
    <2> HIDE DEF f
    <2>2. /\ f[u] <= SumOver(f, Users)
          /\ \A z \in Users : z # u => f[u] + f[z] <= SumOver(f, Users)
      BY <1>2, <2>1, SumPart
    <2> QED BY <2>2 DEF f
  <1>4. SumOver(Powers(s), Users) = s.total.now /\ s.total.now \in Nat
    BY DEF StakeInv, IsSnap
  <1> QED BY <1>1, <1>3, <1>4

\* A stake that moves keeps the invariant and the past.
LEMMA MovedKeeps ==
    ASSUME NEW s, NEW t, NEW n \in Nat \ {0}, StakeInv(s, n), t.balance \in Nat,
           NEW u \in Users, NEW d \in Int, Moved(s, t, n, u, d), s.power[u].now + d \in Nat
    PROVE  /\ StakeInv(t, n)
           /\ \A h \in 1 .. n :
                  /\ \A v \in Users : may_load_at_height(t.power[v], h)
                                          = may_load_at_height(s.power[v], h)
                  /\ may_load_at_height(t.total, h) = may_load_at_height(s.total, h)
  <1>1. s.power[u].now \in Nat /\ s.total.now \in Nat /\ s.power[u].now <= s.total.now
    BY StakeIsPart
  <1>2. s.total.now + d \in Nat
    BY <1>1
  <1>3. IsSnap(s.power[u], n) /\ IsSnap(s.total, n) /\ DOMAIN s.power = Users
    BY DEF StakeInv
  <1> DEFINE p == s.power[u].now + d
             q == s.total.now + d
  <1>4. /\ t.power = [s.power EXCEPT ![u] = Written(s.power[u], n, p)]
        /\ t.total = Written(s.total, n, q) /\ p \in Nat /\ q \in Nat
    BY <1>2 DEF Moved
  <1> HIDE DEF p, q
  <1>5. /\ t.power[u] = Written(s.power[u], n, p) /\ DOMAIN t.power = Users
        /\ \A v \in Users \ {u} : t.power[v] = s.power[v]
    BY <1>3, <1>4
  <1>6. IsSnap(t.power[u], n) /\ t.power[u].now = p
    BY <1>3, <1>4, <1>5, WrittenSnap
  <1>7. IsSnap(t.total, n) /\ t.total.now = q
    <2> DEFINE snap == s.total
    <2>1. IsSnap(snap, n) /\ q \in Nat
      BY <1>3, <1>4
    <2>2. t.total = Written(snap, n, q)
      BY <1>4
    <2> HIDE DEF snap
    <2>3. IsSnap(Written(snap, n, q), n) /\ Written(snap, n, q).now = q
      BY <2>1, WrittenSnap
    <2> QED BY <2>2, <2>3, Zenon
  <1>8. ASSUME NEW v \in Users PROVE IsSnap(t.power[v], n)
    <2>1. IsSnap(s.power[v], n)
      BY DEF StakeInv
    <2>2. CASE v = u
      BY <2>2, <1>6
    <2>3. CASE v # u
      <3>1. t.power[v] = s.power[v]
        BY <1>5, <2>3
      <3> QED BY <2>1, <3>1
    <2> QED BY <2>2, <2>3
  <1>9. SumOver(Powers(t), Users) = t.total.now
    <2> DEFINE f == Powers(s)
               g == Powers(t)
    <2>1. ASSUME NEW v \in Users
          PROVE  f[v] = s.power[v].now /\ g[v] = t.power[v].now /\ f[v] \in Int
      <3>1. s.power[v].now \in Nat
        BY StakeIsPart
      <3> QED BY <3>1 DEF Powers
    <2>2. g[u] \in Int /\ \A v \in Users \ {u} : g[v] = f[v]
      <3>1. g[u] = p
        BY <2>1, <1>6
      <3>2. ASSUME NEW v \in Users \ {u} PROVE g[v] = f[v]
        <4>1. t.power[v] = s.power[v]
          BY <1>5
        <4> QED BY <2>1, <4>1
      <3> QED BY <3>1, <3>2, <1>4
    <2>3. IsFiniteSet(Users)
      BY StakingAssumption
    <2>4. SumOver(f, Users) = s.total.now
      BY DEF StakeInv
    <2>5. f[u] = s.power[u].now /\ g[u] = p
      BY <2>1, <1>6
    <2> HIDE DEF f, g
    <2>6. SumOver(g, Users) = SumOver(f, Users) + (g[u] - f[u])
      <3>1. \A v \in Users : f[v] \in Int
        BY <2>1
      <3> QED BY <3>1, <2>2, <2>3, SumUpdate
    <2>7. SumOver(g, Users) = s.total.now + (p - s.power[u].now)
      BY <2>4, <2>5, <2>6
    <2>8. SumOver(g, Users) = q
      BY <1>1, <2>7 DEF p, q
    <2> QED BY <1>7, <2>8 DEF g
  <1>10. /\ DOMAIN t = Fields /\ t.kind \in Kinds /\ t.hooks \in {<<>>, <<Tracker>>}
         /\ t.hooks = s.hooks
    BY DEF Moved, StakeInv
  <1>11. /\ DOMAIN t.told = Users
         /\ Tracker \in Range(t.hooks) => \A v \in Users : t.told[v] = t.power[v].now
    <2>1. CASE Tracker \in Range(s.hooks)
      <3>1. t.told = [s.told EXCEPT ![u] = s.told[u] + d] /\ DOMAIN s.told = Users
        BY <2>1 DEF Moved, StakeInv
      <3>2. t.told[u] = p /\ \A v \in Users \ {u} : t.told[v] = s.power[v].now
        BY <2>1, <3>1 DEF StakeInv, p
      <3> QED BY <3>1, <3>2, <1>5, <1>6
    <2>2. CASE Tracker \notin Range(s.hooks)
      BY <2>2, <1>10 DEF Moved, StakeInv
    <2> QED BY <2>1, <2>2
  <1>12. StakeInv(t, n)
    BY <1>5, <1>7, <1>8, <1>9, <1>10, <1>11 DEF StakeInv
  <1>13. ASSUME NEW h \in 1 .. n
         PROVE  /\ \A v \in Users : may_load_at_height(t.power[v], h)
                                        = may_load_at_height(s.power[v], h)
                /\ may_load_at_height(t.total, h) = may_load_at_height(s.total, h)
    <2>1. may_load_at_height(t.power[u], h) = may_load_at_height(s.power[u], h)
      BY <1>3, <1>5, LoadWritten
    <2>2. may_load_at_height(t.total, h) = may_load_at_height(s.total, h)
      BY <1>3, <1>4, LoadWritten
    <2> QED BY <1>5, <2>1, <2>2
  <1> QED BY <1>12, <1>13

\* Every change of the stakes keeps the invariant and the past.
LEMMA StakeStepKeeps ==
    ASSUME NEW s, NEW t, NEW n \in Nat \ {0}, StakeInv(s, n), StakeStep(s, t, n)
    PROVE  /\ StakeInv(t, n)
           /\ \A h \in 1 .. n :
                  /\ \A v \in Users : may_load_at_height(t.power[v], h)
                                          = may_load_at_height(s.power[v], h)
                  /\ may_load_at_height(t.total, h) = may_load_at_height(s.total, h)
  <1>1. CASE SameStakes(s, t)
    <2>1. StakeInv(t, n)
      BY <1>1 DEF SameStakes, StakeInv, StakeStep, Powers
    <2> QED BY <1>1, <2>1 DEF SameStakes
  <1>2. CASE HookSet(s, t)
    <2>1. DOMAIN s = Fields
      BY DEF StakeInv
    <2>2. /\ DOMAIN t = Fields /\ t.power = s.power /\ t.total = s.total /\ t.kind = s.kind
          /\ DOMAIN t.told = Users /\ t.hooks \in {<<>>, <<Tracker>>}
      BY <1>2, <2>1 DEF HookSet, Fields
    <2>3. Tracker \in Range(t.hooks) => \A u \in Users : t.told[u] = s.power[u].now
      <3>1. CASE t = [s EXCEPT !.hooks = <<Tracker>>, !.told = [u \in Users |-> s.power[u].now]]
        BY <3>1, <2>1 DEF Fields
      <3>2. CASE t = [s EXCEPT !.hooks = <<>>, !.told = [u \in Users |-> 0]]
        <4>1. t.hooks = <<>>
          BY <3>2, <2>1 DEF Fields
        <4> QED BY <4>1 DEF Range
      <3> QED BY <1>2, <3>1, <3>2 DEF HookSet
    <2>4. StakeInv(t, n)
      BY <2>2, <2>3 DEF StakeInv, StakeStep, Powers
    <2> QED BY <2>2, <2>4
  <1>3. CASE \E u \in Users, d \in Int : Moved(s, t, n, u, d) /\ s.power[u].now + d \in Nat
    <2>1. PICK u \in Users, d \in Int : Moved(s, t, n, u, d) /\ s.power[u].now + d \in Nat
      BY <1>3
    <2>2. t.balance \in Nat
      BY DEF StakeStep
    <2> QED BY <2>1, <2>2, MovedKeeps
  <1> QED BY <1>1, <1>2, <1>3 DEF StakeStep

----------------------------------------------------------------------------
(* The steps *)

LEMMA StakeSteps ==
    ASSUME StakeInv(store, height), NEW u \in Users, NEW a \in Amounts, Stake(u, a)
    PROVE  StakeStep(store, store', height)
  <1>1. a \in Nat /\ DOMAIN store = Fields /\ store.balance \in Nat
    BY StakedAssumption DEF StakeInv
  <1>2. store.power[u].now \in Nat /\ store.total.now \in Nat
    BY StakeIsPart
  <1>3. CASE kind = "token"
    <2>1. store' \in TS!execute_stake(store, height, u, a)
      BY <1>3 DEF Stake, Becomes
    <2>2. Moved(store, store', height, u, a)
          /\ SameRest([store EXCEPT !.bank = Pay(store.bank, u, Self, a)], store')
      BY <1>1, <2>1, TokenStake
    <2>3. store'.balance = store.balance
      BY <1>1, <2>2 DEF SameRest, Fields
    <2>4. store.power[u].now + a \in Nat /\ a \in Int
      BY <1>1, <1>2
    <2> QED BY <1>1, <2>2, <2>3, <2>4 DEF StakeStep
  <1>4. CASE kind = "cw20"
    <2> DEFINE d == C20!amount_to_stake(store.total.now, store.balance, a)
    <2>1. store' \in C20!execute_stake(store, height, u, a)
      BY <1>4 DEF Stake, Becomes
    <2>2. /\ d \in Nat /\ Moved(store, store', height, u, d)
          /\ SameRest([store EXCEPT !.bank = Pay(store.bank, u, Self, a), !.balance = @ + a],
                      store')
      BY <1>1, <1>2, <2>1, Cw20Stake
    <2> HIDE DEF d
    <2>3. store'.balance = store.balance + a
      BY <1>1, <2>2 DEF SameRest, Fields
    <2>4. store.power[u].now + d \in Nat /\ d \in Int
      BY <1>2, <2>2
    <2> QED BY <1>1, <2>2, <2>3, <2>4 DEF StakeStep
  <1>5. CASE ~(kind \in {"token", "cw20"})
    BY <1>5 DEF Stake, Becomes
  <1> QED BY <1>3, <1>4, <1>5

LEMMA UnstakeSteps ==
    ASSUME StakeInv(store, height), NEW u \in Users, NEW a \in Amounts, UnstakeTokens(u, a)
    PROVE  StakeStep(store, store', height)
  <1>1. a \in Nat /\ DOMAIN store = Fields /\ store.balance \in Nat /\ store.kind \in Kinds
    BY StakedAssumption DEF StakeInv
  <1>2. store.power[u].now \in Nat /\ store.total.now \in Nat
    BY StakeIsPart
  <1>3. CASE kind = "token"
    <2>1. store' \in TS!execute_unstake(store, height, u, a)
      BY <1>3 DEF UnstakeTokens, UnstakeResults, Becomes, kind
    <2>2. Moved(store, store', height, u, -a) /\ a <= store.power[u].now
          /\ \E r \in PaidOut(store, height, u, a) : SameRest(r, store')
      BY <1>1, <2>1, TokenUnstake
    <2>3. PICK r \in PaidOut(store, height, u, a) : SameRest(r, store')
      BY <2>2
    <2>4. r.balance = store.balance
      BY <1>1, PaidOutStakes
    <2>5. store'.balance = store.balance
      BY <2>3, <2>4 DEF SameRest, Fields
    <2>6. store.power[u].now + (-a) \in Nat /\ -a \in Int
      BY <1>1, <1>2, <2>2
    <2> QED BY <1>1, <2>2, <2>5, <2>6 DEF StakeStep
  <1>4. CASE kind = "cw20"
    <2> DEFINE c == C20!amount_to_claim(store.total.now, store.balance, a)
    <2>1. store' \in C20!execute_unstake(store, height, u, a)
      BY <1>4 DEF UnstakeTokens, UnstakeResults, Becomes, kind
    <2>2. /\ Moved(store, store', height, u, -a) /\ a <= store.power[u].now
          /\ store.total.now # 0 /\ c <= store.balance
          /\ \E r \in PaidOut(store, height, u, c) :
                 SameRest([r EXCEPT !.balance = r.balance - c], store')
      BY <1>1, <1>2, <2>1, Cw20Unstake
    <2>3. c \in Nat
      <3> DEFINE m == a * store.balance
                 b == store.total.now
      <3>1. m \in Nat /\ b \in Nat /\ b # 0
        BY <1>1, <1>2, <2>2
      <3> HIDE DEF m, b
      <3>2. m \div b \in Nat
        BY <3>1
      <3> QED BY <3>2 DEF m, b, C20!amount_to_claim
    <2> HIDE DEF c
    <2>4. PICK r \in PaidOut(store, height, u, c) :
              SameRest([r EXCEPT !.balance = r.balance - c], store')
      BY <2>2
    <2>5. r.balance = store.balance /\ DOMAIN r = Fields
      BY <1>1, PaidOutStakes DEF SameStakes
    <2>6. store'.balance = store.balance - c
      BY <2>4, <2>5 DEF SameRest, Fields
    <2>7. store'.balance \in Nat
      BY <1>1, <2>2, <2>3, <2>6
    <2>8. store.power[u].now + (-a) \in Nat /\ -a \in Int
      BY <1>1, <1>2, <2>2
    <2> QED BY <2>2, <2>7, <2>8 DEF StakeStep
  <1> QED BY <1>3, <1>4 DEF UnstakeTokens

LEMMA UnstakeNftSteps ==
    ASSUME StakeInv(store, height), NEW u \in Users, NEW ids \in Lists, UnstakeNfts(u, ids)
    PROVE  /\ StakeStep(store, store', height)
           /\ Moved(store, store', height, u, -Len(ids))
           /\ CanUnstake(store, u, ids) /\ Unstaked(store, store', height, u, ids)
  <1>1. ids \in Seq(Nfts) /\ DOMAIN store = Fields /\ store.balance \in Nat
    BY StakedAssumption DEF StakeInv
  <1>2. store.power[u].now \in Nat /\ store.total.now \in Nat
    BY StakeIsPart
  <1>3. /\ Moved(store, store', height, u, -Len(ids)) /\ CanUnstake(store, u, ids)
        /\ Unstaked(store, store', height, u, ids)
    <2>1. CASE kind = "cw721"
      <3>1. store' \in C721!execute_unstake(store, height, u, ids)
        BY <2>1 DEF UnstakeNfts, UnstakeResults, Becomes, kind
      <3> QED BY <1>1, <1>2, <3>1, Cw721Unstake
    <2>2. CASE kind = "onft"
      <3>1. store' \in ON!execute_unstake(store, height, u, ids)
        BY <2>2 DEF UnstakeNfts, UnstakeResults, Becomes, kind
      <3> QED BY <1>1, <1>2, <3>1, OnftUnstake
    <2> QED BY <2>1, <2>2 DEF UnstakeNfts
  <1>4. store'.balance \in Nat
    BY <1>1, <1>3 DEF Unstaked, Fields
  <1>5. store.power[u].now + (-Len(ids)) \in Nat /\ -Len(ids) \in Int
    BY <1>1, <1>2, <1>3 DEF CanUnstake
  <1> QED BY <1>3, <1>4, <1>5 DEF StakeStep

LEMMA StakeNftSteps ==
    ASSUME StakeInv(store, height), NEW u \in Users, NEW id \in Nfts, StakeNft(u, id)
    PROVE  /\ StakeStep(store, store', height)
           /\ Moved(store, store', height, u, 1) /\ store.owner[id] = u
           /\ SameRest([store EXCEPT !.owner[id] = Self, !.staked = @ \cup {<<u, id>>}], store')
  <1>1. DOMAIN store = Fields /\ store.balance \in Nat /\ store.power[u].now \in Nat
    BY StakeIsPart DEF StakeInv
  <1>2. store' \in C721!execute_stake(store, height, u, id)
    BY DEF StakeNft, Becomes
  <1>3. /\ Moved(store, store', height, u, 1) /\ store.owner[id] = u
        /\ SameRest([store EXCEPT !.owner[id] = Self, !.staked = @ \cup {<<u, id>>}], store')
    BY <1>1, <1>2, Cw721Stake
  <1>4. store'.balance = store.balance
    BY <1>1, <1>3 DEF SameRest, Fields
  <1>5. store.power[u].now + 1 \in Nat /\ 1 \in Int
    BY <1>1
  <1> QED BY <1>1, <1>3, <1>4, <1>5 DEF StakeStep

LEMMA ConfirmSteps ==
    ASSUME StakeInv(store, height), NEW u \in Users, NEW ids \in Lists, ConfirmStake(u, ids)
    PROVE  /\ StakeStep(store, store', height)
           /\ Moved(store, store', height, u, Len(ids))
           /\ \A m \in Range(ids) : store.prepared[m] = u /\ store.owner[m] = Self
           /\ SameRest([store EXCEPT !.prepared = Owners(store.prepared, Range(ids), NoOne),
                                     !.staked = @ \cup ({u} \X Range(ids))], store')
  <1>1. DOMAIN store = Fields /\ store.balance \in Nat /\ store.power[u].now \in Nat
    BY StakeIsPart DEF StakeInv
  <1>2. ids \in Seq(Nfts) /\ store' \in ON!execute_confirm_stake(store, height, u, ids)
    BY StakedAssumption DEF ConfirmStake, Becomes
  <1>3. /\ Moved(store, store', height, u, Len(ids))
        /\ \A m \in Range(ids) : store.prepared[m] = u /\ store.owner[m] = Self
        /\ SameRest([store EXCEPT !.prepared = Owners(store.prepared, Range(ids), NoOne),
                                  !.staked = @ \cup ({u} \X Range(ids))], store')
    BY <1>1, <1>2, OnftConfirm
  <1>4. store'.balance = store.balance
    <2> DEFINE o == Owners(store.prepared, Range(ids), NoOne)
               S == store.staked \cup ({u} \X Range(ids))
    <2>1. SameRest([store EXCEPT !.prepared = o, !.staked = S], store')
      BY <1>3
    <2> HIDE DEF o, S
    <2> QED BY <1>1, <2>1 DEF SameRest, Fields
  <1>5. store.power[u].now + Len(ids) \in Nat /\ Len(ids) \in Int
    BY <1>1, <1>2
  <1> QED BY <1>1, <1>3, <1>4, <1>5 DEF StakeStep

\* Claiming leaves the stakes as they are.
LEMMA ClaimSteps ==
    ASSUME StakeInv(store, height), NEW u \in Users, ClaimMature(u)
    PROVE  SameStakes(store, store') /\ store'.balance = store.balance
  <1>1. DOMAIN store = Fields /\ store.kind \in Kinds
    BY DEF StakeInv
  <1>2. CASE kind = "token"
    <2>1. store' \in TS!execute_claim(store, height, u)
      BY <1>2 DEF ClaimMature, ClaimResults, Becomes, kind
    <2> QED BY <1>1, <2>1, TokenClaim
  <1>3. CASE kind = "cw20"
    <2>1. store' \in C20!execute_claim(store, height, u)
      BY <1>3 DEF ClaimMature, ClaimResults, Becomes, kind
    <2> QED BY <1>1, <2>1, Cw20Claim
  <1>4. CASE kind = "cw721"
    <2>1. store' \in C721!execute_claim_nfts(store, height, u)
      BY <1>4 DEF ClaimMature, ClaimResults, Becomes, kind
    <2>2. NftsClaimed(store, store', height, u)
      BY <1>1, <2>1, Cw721Claim
    <2> QED BY <1>1, <2>2 DEF SameStakes, Fields, NftsClaimed
  <1>5. CASE kind = "onft"
    <2>1. store' \in ON!execute_claim_nfts(store, height, u)
      BY <1>5 DEF ClaimMature, ClaimResults, Becomes, kind
    <2>2. NftsClaimed(store, store', height, u)
      BY <1>1, <2>1, OnftClaim
    <2> QED BY <1>1, <2>2 DEF SameStakes, Fields, NftsClaimed
  <1> QED BY <1>1, <1>2, <1>3, <1>4, <1>5 DEF Kinds, kind

\* Preparing, cancelling and transferring leave the stakes as they are.
LEMMA PrepareSteps ==
    ASSUME StakeInv(store, height), NEW u \in Users, NEW ids \in Lists, PrepareStake(u, ids)
    PROVE  SameStakes(store, store') /\ store'.balance = store.balance
  <1>1. DOMAIN store = Fields
    BY DEF StakeInv
  <1>2. store' \in ON!execute_prepare_stake(store, u, ids)
    BY DEF PrepareStake, Becomes
  <1> DEFINE o == Owners(store.prepared, Range(ids), u)
  <1>3. store' = [store EXCEPT !.prepared = o]
    BY <1>2, OnftPrepare
  <1> HIDE DEF o
  <1> QED BY <1>1, <1>3 DEF SameStakes, Fields

LEMMA CancelSteps ==
    ASSUME StakeInv(store, height), NEW who, NEW ids \in Lists, NEW recipient,
           CancelStake(who, ids, recipient)
    PROVE  SameStakes(store, store') /\ store'.balance = store.balance
  <1>1. DOMAIN store = Fields /\ ids \in Seq(Nfts)
    BY StakedAssumption DEF StakeInv
  <1>2. store' \in ON!execute_cancel_stake(store, who, ids, recipient)
    BY DEF CancelStake, Becomes
  <1>3. Cancelled(store, store', who, ids, recipient)
    BY <1>1, <1>2, OnftCancel
  <1>4. PICK o, p, k : store' = [store EXCEPT !.owner = o, !.prepared = p, !.recalled = k]
    BY <1>3, Zenon DEF Cancelled
  <1> QED BY <1>1, <1>4 DEF SameStakes, Fields

LEMMA TransferSteps ==
    ASSUME StakeInv(store, height), NEW id \in Nfts, NEW to, TransferNft(id, to)
    PROVE  SameStakes(store, store') /\ store'.balance = store.balance
  <1>1. DOMAIN store = Fields
    BY DEF StakeInv
  <1>2. store' = [store EXCEPT !.owner[id] = to]
    BY DEF TransferNft, Becomes
  <1> QED BY <1>1, <1>2 DEF SameStakes, Fields

\* Funding leaves the stakes as they are and raises the balance.
LEMMA FundSteps ==
    ASSUME StakeInv(store, height), NEW u \in Users, NEW a \in Amounts, Fund(u, a)
    PROVE  /\ SameStakes(store, store') /\ store'.balance = store.balance + a
           /\ store'.balance \in Nat /\ a \in Nat
  <1>1. DOMAIN store = Fields /\ a \in Nat /\ store.balance \in Nat
    BY StakedAssumption DEF StakeInv
  <1>2. store' \in C20!execute_fund(store, u, a)
    BY DEF Fund, Becomes
  <1>3. PICK b : store' = [store EXCEPT !.bank = b, !.balance = @ + a]
    BY <1>2 DEF C20!execute_fund, C20!Ok
  <1> QED BY <1>1, <1>3 DEF SameStakes, Fields

\* The DAO sets the duration or the threshold.
LEMMA ConfigSteps ==
    ASSUME StakeInv(store, height), NEW d, UpdateConfig(Dao, d)
    PROVE  store' = [store EXCEPT !.duration = d]
  BY DEF StakeInv, Kinds, UpdateConfig, Becomes, kind,
         TS!update_config, TS!execute_update_config, TS!Ok,
         C20!update_config, C20!execute_update_config, C20!Ok,
         C721!update_config, C721!execute_update_config, C721!Ok,
         ON!update_config, ON!execute_update_config, ON!Ok

LEMMA ThresholdSteps ==
    ASSUME StakeInv(store, height), NEW d, UpdateActiveThreshold(Dao, d)
    PROVE  store' = [store EXCEPT !.threshold = d]
  BY DEF StakeInv, Kinds, UpdateActiveThreshold, Becomes, kind,
         TS!update_active_threshold, TS!execute_update_active_threshold, TS!Ok,
         C20!update_active_threshold, C20!execute_update_active_threshold, C20!Ok,
         C721!update_active_threshold, C721!execute_update_active_threshold, C721!Ok,
         ON!update_active_threshold, ON!execute_update_active_threshold, ON!Ok

\* A list with the only receiver or without it.
LEMMA HookList ==
    ASSUME NEW hooks, hooks \in {<<>>, <<Tracker>>}
    PROVE  /\ can_add_hook(hooks, Tracker) => add_hook(hooks, Tracker) = <<Tracker>>
           /\ can_remove_hook(hooks, Tracker) => remove_hook(hooks, Tracker) = <<>>
  <1>1. CASE hooks = <<>>
    <2>1. ~can_remove_hook(hooks, Tracker)
      BY <1>1 DEF can_remove_hook, Contains
    <2> QED BY <1>1, <2>1 DEF add_hook
  <1>2. CASE hooks = <<Tracker>>
    <2>1. ~can_add_hook(hooks, Tracker)
      BY <1>2 DEF can_add_hook, Contains
    <2>2. (CHOOSE i \in DOMAIN hooks : hooks[i] = Tracker) = 1
      BY <1>2
    <2>3. RemoveAt(<<Tracker>>, 1) = <<>>
      BY DEF RemoveAt
    <2> QED BY <1>2, <2>1, <2>2, <2>3 DEF remove_hook
  <1> QED BY <1>1, <1>2

LEMMA HookOperators ==
    ASSUME NEW s, NEW who
    PROVE  /\ C20!add_hook_msg(s, who, Tracker) = execute_add_hook(s, who, Tracker)
           /\ C721!add_hook_msg(s, who, Tracker) = execute_add_hook(s, who, Tracker)
           /\ ON!add_hook_msg(s, who, Tracker) = execute_add_hook(s, who, Tracker)
           /\ C20!remove_hook_msg(s, who, Tracker) = execute_remove_hook(s, who, Tracker)
           /\ C721!remove_hook_msg(s, who, Tracker) = execute_remove_hook(s, who, Tracker)
           /\ ON!remove_hook_msg(s, who, Tracker) = execute_remove_hook(s, who, Tracker)
  <1>1. C20!add_hook_msg(s, who, Tracker) = execute_add_hook(s, who, Tracker)
    BY DEF C20!add_hook_msg, C20!execute_add_hook, execute_add_hook, C20!Ok, Ok,
           C20!can_add_hook, can_add_hook, C20!Contains, Contains, C20!add_hook, add_hook
  <1>2. C721!add_hook_msg(s, who, Tracker) = execute_add_hook(s, who, Tracker)
    BY DEF C721!add_hook_msg, C721!execute_add_hook, execute_add_hook, C721!Ok, Ok,
           C721!can_add_hook, can_add_hook, C721!Contains, Contains, C721!add_hook, add_hook
  <1>3. ON!add_hook_msg(s, who, Tracker) = execute_add_hook(s, who, Tracker)
    BY DEF ON!add_hook_msg, ON!execute_add_hook, execute_add_hook, ON!Ok, Ok,
           ON!can_add_hook, can_add_hook, ON!Contains, Contains, ON!add_hook, add_hook
  <1>4. C20!remove_hook_msg(s, who, Tracker) = execute_remove_hook(s, who, Tracker)
    BY Zenon DEF C20!remove_hook_msg, C20!execute_remove_hook, execute_remove_hook, C20!Ok, Ok,
           C20!can_remove_hook, can_remove_hook, C20!Contains, Contains,
           C20!remove_hook, remove_hook, C20!RemoveAt, RemoveAt
  <1>5. C721!remove_hook_msg(s, who, Tracker) = execute_remove_hook(s, who, Tracker)
    BY Zenon DEF C721!remove_hook_msg, C721!execute_remove_hook, execute_remove_hook, C721!Ok, Ok,
           C721!can_remove_hook, can_remove_hook, C721!Contains, Contains,
           C721!remove_hook, remove_hook, C721!RemoveAt, RemoveAt
  <1>6. ON!remove_hook_msg(s, who, Tracker) = execute_remove_hook(s, who, Tracker)
    BY Zenon DEF ON!remove_hook_msg, ON!execute_remove_hook, execute_remove_hook, ON!Ok, Ok,
           ON!can_remove_hook, can_remove_hook, ON!Contains, Contains,
           ON!remove_hook, remove_hook, ON!RemoveAt, RemoveAt
  <1> QED BY <1>1, <1>2, <1>3, <1>4, <1>5, <1>6

\* The DAO adds or removes the receiver.
LEMMA HookSteps ==
    ASSUME StakeInv(store, height), AddHook(Dao) \/ RemoveHook(Dao)
    PROVE  HookSet(store, store')
  <1>1. store.kind \in Kinds /\ store.hooks \in {<<>>, <<Tracker>>}
    BY DEF StakeInv
  <1>2. CASE AddHook(Dao)
    <2>1. store' \in execute_add_hook(store, Dao, Tracker)
      BY <1>1, <1>2, HookOperators DEF AddHook, Becomes, kind, Kinds
    <2>2. store' = [store EXCEPT !.hooks = add_hook(store.hooks, Tracker),
                                 !.told = [u \in Users |-> store.power[u].now]]
          /\ can_add_hook(store.hooks, Tracker)
      BY <2>1 DEF execute_add_hook, Ok
    <2> QED BY <1>1, <2>2, HookList DEF HookSet
  <1>3. CASE RemoveHook(Dao)
    <2>1. store' \in execute_remove_hook(store, Dao, Tracker)
      BY <1>1, <1>3, HookOperators DEF RemoveHook, Becomes, kind, Kinds
    <2>2. store' = [store EXCEPT !.hooks = remove_hook(store.hooks, Tracker),
                                 !.told = [u \in Users |-> 0]]
          /\ can_remove_hook(store.hooks, Tracker)
      BY <2>1 DEF execute_remove_hook, Ok
    <2> QED BY <1>1, <2>2, HookList DEF HookSet
  <1> QED BY <1>2, <1>3

\* Every handler changes the stakes in one of the ways of StakeStep.
LEMMA NextSteps ==
    ASSUME StakeInv(store, height), Next
    PROVE  \/ StakeStep(store, store', height) /\ height' = height
           \/ NextBlock
  <1>1. DOMAIN store = Fields /\ store.balance \in Nat
    BY DEF StakeInv
  <1>2. ASSUME SameStakes(store, store'), store'.balance = store.balance
        PROVE  StakeStep(store, store', height)
    BY <1>1, <1>2 DEF StakeStep
  <1>3. ASSUME NEW u \in Users, NEW n \in Amounts, Stake(u, n) \/ UnstakeTokens(u, n)
        PROVE  StakeStep(store, store', height) /\ height' = height
    BY <1>3, StakeSteps, UnstakeSteps DEF Stake, UnstakeTokens, Becomes
  <1>4. ASSUME NEW u \in Users, NEW n \in Amounts, Fund(u, n)
        PROVE  StakeStep(store, store', height) /\ height' = height
    BY <1>4, FundSteps DEF Fund, Becomes, StakeStep
  <1>5. ASSUME NEW u \in Users, NEW n \in Nfts, StakeNft(u, n)
        PROVE  StakeStep(store, store', height) /\ height' = height
    BY <1>5, StakeNftSteps DEF StakeNft, Becomes
  <1>6. ASSUME NEW u \in Users, NEW ids \in Lists, PrepareStake(u, ids)
        PROVE  StakeStep(store, store', height) /\ height' = height
    BY <1>2, <1>6, PrepareSteps DEF PrepareStake, Becomes
  <1>7. ASSUME NEW u \in Users, NEW ids \in Lists, ConfirmStake(u, ids) \/ UnstakeNfts(u, ids)
        PROVE  StakeStep(store, store', height) /\ height' = height
    BY <1>7, ConfirmSteps, UnstakeNftSteps DEF ConfirmStake, UnstakeNfts, Becomes
  <1>8. ASSUME NEW n \in Nfts, NEW to, TransferNft(n, to)
        PROVE  StakeStep(store, store', height) /\ height' = height
    BY <1>2, <1>8, TransferSteps DEF TransferNft, Becomes
  <1>9. ASSUME NEW who, NEW ids \in Lists, NEW recipient, CancelStake(who, ids, recipient)
        PROVE  StakeStep(store, store', height) /\ height' = height
    BY <1>2, <1>9, CancelSteps DEF CancelStake, Becomes
  <1>10. ASSUME NEW u \in Users, ClaimMature(u)
         PROVE  StakeStep(store, store', height) /\ height' = height
    BY <1>2, <1>10, ClaimSteps DEF ClaimMature, Becomes
  <1>11. ASSUME NEW d, UpdateConfig(Dao, d)
         PROVE  StakeStep(store, store', height) /\ height' = height
    <2>1. store' = [store EXCEPT !.duration = d]
      BY <1>11, ConfigSteps
    <2>2. SameStakes(store, store') /\ store'.balance = store.balance
      BY <1>1, <2>1 DEF SameStakes, Fields
    <2> QED BY <1>2, <1>11, <2>2 DEF UpdateConfig, Becomes
  <1>12. ASSUME NEW d, UpdateActiveThreshold(Dao, d)
         PROVE  StakeStep(store, store', height) /\ height' = height
    <2>1. store' = [store EXCEPT !.threshold = d]
      BY <1>12, ThresholdSteps
    <2>2. SameStakes(store, store') /\ store'.balance = store.balance
      BY <1>1, <2>1 DEF SameStakes, Fields
    <2> QED BY <1>2, <1>12, <2>2 DEF UpdateActiveThreshold, Becomes
  <1>13. ASSUME AddHook(Dao) \/ RemoveHook(Dao)
         PROVE  StakeStep(store, store', height) /\ height' = height
    <2>1. HookSet(store, store')
      BY <1>13, HookSteps
    <2>2. store'.balance = store.balance
      BY <1>1, <2>1 DEF HookSet, Fields
    <2> QED BY <1>1, <1>13, <2>1, <2>2 DEF AddHook, RemoveHook, Becomes, StakeStep
  <1> QED
    BY <1>3, <1>4, <1>5, <1>6, <1>7, <1>8, <1>9, <1>10, <1>11, <1>12, <1>13 DEF Next

----------------------------------------------------------------------------
(* A new contract *)

LEMMA TokenNew ==
    ASSUME NEW msg, msg.asset \in {"existing", "new", "factory"}, NEW x,
           NEW s \in TS!instantiate(msg, x)
    PROVE  s = NewStore("token", msg, x, <<>>)
  <1>1. \A k, m, b, o : TS!NewStore(k, m, b, o) = NewStore(k, m, b, o)
    BY DEF NewStore, TS!NewStore, Snapshot, TS!Snapshot, NoOne, TS!NoOne
  <1>2. TS!Holders = Holders
    BY DEF Holders, TS!Holders
  <1> QED BY <1>1, <1>2 DEF TS!instantiate, TS!reply_issuer, TS!reply_factory, TS!Ok

LEMMA Cw20New ==
    ASSUME NEW msg, NEW x, NEW s \in C20!instantiate(msg, x)
    PROVE  s = NewStore("cw20", msg, x, <<>>)
  <1>1. \A k, m, b, o : C20!NewStore(k, m, b, o) = NewStore(k, m, b, o)
    BY DEF NewStore, C20!NewStore, Snapshot, C20!Snapshot, NoOne, C20!NoOne
  <1>2. C20!Holders = Holders
    BY DEF Holders, C20!Holders
  <1> QED BY <1>1, <1>2 DEF C20!instantiate, C20!reply, C20!Ok

LEMMA Cw721New ==
    ASSUME NEW msg, NEW x, NEW s \in C721!instantiate(msg, x)
    PROVE  s = NewStore("cw721", msg, [h \in Holders |-> 0], x)
  <1>1. \A k, m, b, o : C721!NewStore(k, m, b, o) = NewStore(k, m, b, o)
    BY DEF NewStore, C721!NewStore, Snapshot, C721!Snapshot, NoOne, C721!NoOne
  <1>2. C721!Holders = Holders
    BY DEF Holders, C721!Holders
  <1> QED BY <1>1, <1>2 DEF C721!instantiate, C721!reply, C721!Ok

LEMMA OnftNew ==
    ASSUME NEW msg, NEW x, NEW s \in ON!instantiate(msg, x)
    PROVE  s = NewStore("onft", msg, [h \in Holders |-> 0], x)
  <1>1. \A k, m, b, o : ON!NewStore(k, m, b, o) = NewStore(k, m, b, o)
    BY DEF NewStore, ON!NewStore, Snapshot, ON!Snapshot, NoOne, ON!NoOne
  <1>2. ON!Holders = Holders
    BY DEF Holders, ON!Holders
  <1> QED BY <1>1, <1>2 DEF ON!instantiate, ON!Ok

LEMMA NewStakes ==
    ASSUME NEW k \in Kinds, NEW msg, NEW b, NEW o, NEW n \in Nat
    PROVE  StakeInv(NewStore(k, msg, b, o), n)
  <1> DEFINE s == NewStore(k, msg, b, o)
  <1>1. /\ DOMAIN s = Fields /\ s.kind = k /\ s.balance = 0 /\ s.hooks = <<>>
        /\ s.power = [u \in Users |-> Snapshot(0)] /\ s.total = Snapshot(0)
        /\ s.told = [u \in Users |-> 0]
    BY DEF NewStore, Fields
  <1>2. IsSnap(Snapshot(0), n) /\ Snapshot(0).now = 0
    BY NewSnap
  <1>3. ~(Tracker \in Range(<<>>))
    BY DEF Range
  <1> HIDE DEF s
  <1>4. SumOver(Powers(s), Users) = 0
    <2> DEFINE f == Powers(s)
    <2>1. \A u \in Users : f[u] = 0
      BY <1>1, <1>2 DEF Powers
    <2> HIDE DEF f
    <2>2. SumOver(f, Users) = 0
      BY <2>1, SumZero, StakingAssumption
    <2> QED BY <2>2 DEF f
  <1>5. StakeInv(s, n)
    BY <1>1, <1>2, <1>3, <1>4 DEF StakeInv
  <1> QED BY <1>5 DEF s

\* The storages a contract starts with.
LEMMA InitialStore ==
    ASSUME Init
    PROVE  \/ \E x \in Tokens["token"], msg \in Msgs["token"] : store = NewStore("token", msg, x, <<>>)
           \/ \E x \in Tokens["cw20"], msg \in Msgs["cw20"] : store = NewStore("cw20", msg, x, <<>>)
           \/ \E x \in Tokens["cw721"], msg \in Msgs["cw721"] :
                  store = NewStore("cw721", msg, [h \in Holders |-> 0], x)
           \/ \E x \in Tokens["onft"], msg \in Msgs["onft"] :
                  store = NewStore("onft", msg, [h \in Holders |-> 0], x)
  <1>1. CASE \E msg \in Msgs["token"], t \in Tokens["token"] : store \in TS!instantiate(msg, t)
    BY <1>1, TokenNew, StakedAssumption
  <1>2. CASE \E msg \in Msgs["cw20"], t \in Tokens["cw20"] : store \in C20!instantiate(msg, t)
    BY <1>2, Cw20New
  <1>3. CASE \E msg \in Msgs["cw721"], t \in Tokens["cw721"] : store \in C721!instantiate(msg, t)
    BY <1>3, Cw721New
  <1>4. CASE \E msg \in Msgs["onft"], t \in Tokens["onft"] : store \in ON!instantiate(msg, t)
    BY <1>4, OnftNew
  <1> QED BY <1>1, <1>2, <1>3, <1>4 DEF Init

----------------------------------------------------------------------------
(* The theorems about the stakes *)

\* At the heights that have been reached, the powers add up to the total.
PastAddsUp(s, n) ==
    \A h \in 1 .. n : SumOver(PowersAt(s, h), Users) = may_load_at_height(s.total, h)

SInv == height \in Nat \ {0} /\ StakeInv(store, height) /\ PastAddsUp(store, height)

\* The stakes at a height that is still to come.
LEMMA LoadsNow ==
    ASSUME NEW s, NEW n \in Nat, StakeInv(s, n), NEW h \in Nat, h > n
    PROVE  /\ \A u \in Users : may_load_at_height(s.power[u], h) = s.power[u].now
           /\ may_load_at_height(s.total, h) = s.total.now
           /\ SumOver(PowersAt(s, h), Users) = may_load_at_height(s.total, h)
  <1>1. ASSUME NEW u \in Users PROVE may_load_at_height(s.power[u], h) = s.power[u].now
    <2>1. IsSnap(s.power[u], n)
      BY DEF StakeInv
    <2> QED BY <2>1, LoadNow
  <1>2. may_load_at_height(s.total, h) = s.total.now
    <2>1. IsSnap(s.total, n)
      BY DEF StakeInv
    <2> QED BY <2>1, LoadNow
  <1>3. PowersAt(s, h) = Powers(s)
    BY <1>1 DEF PowersAt, Powers
  <1> QED BY <1>1, <1>2, <1>3 DEF StakeInv

\* A step keeps what was said of the heights that have been reached.
LEMMA StakesStep ==
    ASSUME SInv, [Next]_vars
    PROVE  /\ SInv'
           /\ \A h \in 1 .. height :
                  /\ \A u \in Users : may_load_at_height(store'.power[u], h)
                                          = may_load_at_height(store.power[u], h)
                  /\ may_load_at_height(store'.total, h) = may_load_at_height(store.total, h)
           /\ store'.kind = store.kind
  <1>1. CASE StakeStep(store, store', height) /\ height' = height
    <2>1. height \in Nat \ {0} /\ StakeInv(store, height) /\ PastAddsUp(store, height)
      BY DEF SInv
    <2>2. /\ StakeInv(store', height)
          /\ \A h \in 1 .. height :
                 /\ \A u \in Users : may_load_at_height(store'.power[u], h)
                                         = may_load_at_height(store.power[u], h)
                 /\ may_load_at_height(store'.total, h) = may_load_at_height(store.total, h)
      BY <1>1, <2>1, StakeStepKeeps
    <2>3. ASSUME NEW h \in 1 .. height
          PROVE  SumOver(PowersAt(store', h), Users) = may_load_at_height(store'.total, h)
      <3>1. PowersAt(store', h) = PowersAt(store, h)
        BY <2>2 DEF PowersAt
      <3> QED BY <2>1, <2>2, <3>1 DEF PastAddsUp
    <2>4. SInv'
      BY <1>1, <2>1, <2>2, <2>3 DEF SInv, PastAddsUp
    <2>5. store'.kind = store.kind
      BY <1>1, <2>1 DEF StakeStep, SameStakes, HookSet, Moved, StakeInv, Fields
    <2> QED BY <2>2, <2>4, <2>5
  <1>2. CASE NextBlock
    <2>1. store' = store /\ height' = height + 1
      BY <1>2 DEF NextBlock
    <2>2. height \in Nat \ {0} /\ StakeInv(store, height) /\ PastAddsUp(store, height)
      BY DEF SInv
    <2>3. StakeInv(store, height + 1)
      BY <2>2 DEF StakeInv, IsSnap
    <2>4. height + 1 \in Nat /\ height + 1 > height /\ height \in Nat
      BY <2>2
    <2>5. SumOver(PowersAt(store, height + 1), Users)
             = may_load_at_height(store.total, height + 1)
      BY <2>2, <2>4, LoadsNow
    <2>6. ASSUME NEW h \in 1 .. height + 1
          PROVE  SumOver(PowersAt(store, h), Users) = may_load_at_height(store.total, h)
      <3>1. CASE h = height + 1
        BY <2>5, <3>1
      <3>2. CASE h \in 1 .. height
        BY <2>2, <3>2 DEF PastAddsUp
      <3> QED BY <2>2, <3>1, <3>2
    <2>7. SInv'
      BY <2>1, <2>2, <2>3, <2>6 DEF SInv, PastAddsUp
    <2> QED BY <2>1, <2>7
  <1>3. CASE UNCHANGED vars
    BY <1>3 DEF vars, SInv
  <1>4. StakeInv(store, height)
    BY DEF SInv
  <1> QED BY <1>1, <1>2, <1>3, <1>4, NextSteps

LEMMA StakesInit == Init => SInv
  <1> SUFFICES ASSUME Init PROVE SInv
    OBVIOUS
  <1>1. height = 1
    BY DEF Init
  <1>2. PICK k, msg, b, o : k \in Kinds /\ store = NewStore(k, msg, b, o)
    BY InitialStore DEF Kinds
  <1>3. StakeInv(store, 1) /\ StakeInv(store, 0)
    BY <1>2, NewStakes
  <1>4. 0 \in Nat /\ 1 \in Nat /\ 1 > 0
    OBVIOUS
  <1>5. SumOver(PowersAt(store, 1), Users) = may_load_at_height(store.total, 1)
    BY <1>3, <1>4, LoadsNow
  <1>6. \A h \in 1 .. 1 : h = 1
    OBVIOUS
  <1> QED BY <1>1, <1>3, <1>5, <1>6 DEF SInv, PastAddsUp

LEMMA StakesHold == Spec => []SInv
  <1>1. SInv /\ [Next]_vars => SInv'
    BY StakesStep
  <1> QED BY <1>1, StakesInit, PTL DEF Spec

\* The queries read the snapshots, whatever the contract.
LEMMA Queries ==
    ASSUME NEW s, s.kind \in Kinds, NEW h
    PROVE  /\ \A u : Power(s, u, h) = may_load_at_height(s.power[u], h)
           /\ TotalPower(s, h) = may_load_at_height(s.total, h)
  BY TokenOperators, Cw20Operators, Cw721Operators, OnftOperators
     DEF Kinds, Power, TotalPower, TS!query_voting_power_at_height,
         TS!query_total_power_at_height, C20!query_voting_power_at_height,
         C20!query_staked_balance_at_height, C20!query_total_power_at_height,
         C20!query_total_staked_at_height, C721!query_voting_power_at_height,
         C721!query_total_power_at_height, ON!query_voting_power_at_height,
         ON!query_total_power_at_height

\* What the module has said of the power at a height that has been reached, it says for
\* ever (the snapshots of execute_stake, execute_unstake and their like in the four voting
\* modules), for every number of stakes, unstakes and configuration changes in a block.
THEOREM PastIsFixed == Spec => PastPowersFixed
  <1> DEFINE P == \A h \in 1 .. height :
                     /\ \A u \in Users : Power(store', u, h) = Power(store, u, h)
                     /\ TotalPower(store', h) = TotalPower(store, h)
  <1>1. ASSUME SInv, [Next]_vars PROVE [P]_vars
    <2>1. store.kind \in Kinds /\ store'.kind \in Kinds
      BY <1>1, StakesStep DEF SInv, StakeInv
    <2> QED BY <1>1, <2>1, StakesStep, Queries
  <1>2. SInv /\ [Next]_vars => [P]_vars
    BY <1>1
  <1> QED BY <1>2, StakesHold, PTL DEF Spec, PastPowersFixed

\* A hook receiver that adds up what stake_hook_msgs and unstake_hook_msgs report knows
\* every user's stake, whenever it was added.
THEOREM HooksAreExact == Spec => []HooksTrackPower
  <1>1. SInv => HooksTrackPower
    BY DEF SInv, StakeInv, HooksTrackPower
  <1> QED BY <1>1, StakesHold, PTL

----------------------------------------------------------------------------
(* What shares are worth *)

\* Rounding down.
LEMMA FloorBounds ==
    ASSUME NEW m \in Nat, NEW b \in Nat, b > 0
    PROVE  m \div b \in Nat /\ (m \div b) * b <= m /\ m < (m \div b + 1) * b
  OBVIOUS

LEMMA FloorLargest ==
    ASSUME NEW m \in Nat, NEW b \in Nat, b > 0, NEW v \in Nat, v * b <= m
    PROVE  v <= m \div b
  <1> DEFINE q == m \div b
  <1>1. q \in Nat /\ m < (q + 1) * b
    BY FloorBounds
  <1> HIDE DEF q
  <1>2. v * b < (q + 1) * b
    BY <1>1
  <1>3. ASSUME v >= q + 1 PROVE FALSE
    <2>1. v * b >= (q + 1) * b
      BY <1>1, <1>3
    <2> QED BY <1>1, <1>2, <2>1
  <1>4. v <= q
    BY <1>1, <1>3
  <1> QED BY <1>4 DEF q

\* Fractions that do not fall, rounded down, do not fall.
LEMMA FloorMonotone ==
    ASSUME NEW m \in Nat, NEW b \in Nat, b > 0, NEW x \in Nat, NEW c \in Nat, c > 0,
           m * c <= x * b
    PROVE  m \div b <= x \div c
  <1> DEFINE v == m \div b
  <1>1. v \in Nat /\ v * b <= m
    BY FloorBounds
  <1> HIDE DEF v
  <1>2. (v * b) * c <= m * c
    BY <1>1
  <1>3. (v * c) * b <= x * b
    BY <1>1, <1>2
  <1>4. v * c <= x
    <2> DEFINE y == v * c
    <2>1. y \in Nat /\ y * b <= x * b
      BY <1>1, <1>3
    <2> HIDE DEF y
    <2>2. y <= x
      BY <2>1
    <2> QED BY <2>2 DEF y
  <1>5. v <= x \div c
    BY <1>1, <1>4, FloorLargest
  <1> QED BY <1>5 DEF v

\* Staking n for d shares, of p shares of B among T.
LEMMA ValueAfterStake ==
    ASSUME NEW p \in Nat, NEW B \in Nat, NEW T \in Nat, B > 0, T > 0, NEW n \in Nat,
           NEW d \in Nat, d * B <= T * n, NEW r \in Nat, r >= p
    PROVE  (p * B) \div T <= (r * (B + n)) \div (T + d)
  <1>1. p * (d * B) <= p * (T * n)
    <2> DEFINE x == d * B
               y == T * n
    <2>1. x \in Nat /\ y \in Nat /\ x <= y
      OBVIOUS
    <2> HIDE DEF x, y
    <2>2. p * x <= p * y
      BY <2>1
    <2> QED BY <2>2 DEF x, y
  <1>2. (p * B) * (T + d) = (p * B) * T + p * (d * B)
    OBVIOUS
  <1>3. (p * (B + n)) * T = (p * B) * T + p * (T * n)
    OBVIOUS
  <1>4. (p * (B + n)) * T <= (r * (B + n)) * T
    <2> DEFINE x == B + n
    <2>1. x \in Nat /\ p * x <= r * x
      OBVIOUS
    <2> DEFINE y == p * x
               z == r * x
    <2>2. y \in Nat /\ z \in Nat /\ y <= z
      BY <2>1
    <2> HIDE DEF y, z
    <2>3. y * T <= z * T
      BY <2>2
    <2> QED BY <2>3 DEF y, z
  <1> DEFINE m == p * B
             x == r * (B + n)
             c == T + d
  <1>5. m \in Nat /\ x \in Nat /\ c \in Nat /\ c > 0
    OBVIOUS
  <1>6. m * c <= x * T
    <2>1. /\ p * (d * B) \in Nat /\ p * (T * n) \in Nat /\ (p * B) * T \in Nat
          /\ (p * (B + n)) * T \in Nat /\ (r * (B + n)) * T \in Nat
      OBVIOUS
    <2> QED BY <1>1, <1>2, <1>3, <1>4, <2>1
  <1> HIDE DEF m, x, c
  <1>7. m \div T <= x \div c
    BY <1>5, <1>6, FloorMonotone
  <1> QED BY <1>7 DEF m, x, c

\* Unstaking a shares for the claim c leaves p shares what they were worth.
LEMMA ValueAfterUnstake ==
    ASSUME NEW p \in Nat, NEW B \in Nat, NEW T \in Nat, B > 0, T > 0, NEW a \in Nat, a < T,
           NEW c \in Nat, c * T <= a * B, c <= B
    PROVE  B - c > 0 /\ (p * B) \div T <= (p * (B - c)) \div (T - a)
  <1>1. PICK t \in Nat : T = a + t /\ t > 0 /\ t = T - a
    <2>1. T - a \in Nat /\ T - a > 0 /\ T = a + (T - a)
      OBVIOUS
    <2> QED BY <2>1
  <1>2. PICK b \in Nat : B = c + b /\ b = B - c
    <2>1. B - c \in Nat /\ B = c + (B - c)
      OBVIOUS
    <2> QED BY <2>1
  <1>3. B * T = B * a + B * t /\ B * T = c * T + b * T
    BY <1>1, <1>2
  <1>4. B * a = a * B /\ B * a \in Nat /\ B * t \in Nat /\ c * T \in Nat /\ b * T \in Nat
    BY <1>1, <1>2
  <1>5. B * t <= b * T
    BY <1>3, <1>4
  <1>6. B * t > 0
    BY <1>1
  <1>7. b > 0
    <2>1. CASE b = 0
      <3>1. b * T = 0
        BY <2>1
      <3> QED BY <1>4, <1>5, <1>6, <3>1
    <2> QED BY <2>1, <1>2
  <1>8. p * (B * t) <= p * (b * T)
    <2> DEFINE x == B * t
               y == b * T
    <2>1. x \in Nat /\ y \in Nat /\ x <= y
      BY <1>4, <1>5
    <2> HIDE DEF x, y
    <2>2. p * x <= p * y
      BY <2>1
    <2> QED BY <2>2 DEF x, y
  <1>9. (p * B) * t <= (p * b) * T
    <2>1. (p * B) * t = p * (B * t) /\ (p * b) * T = p * (b * T)
      BY <1>1, <1>2
    <2> QED BY <1>8, <2>1
  <1> DEFINE m == p * B
             x == p * b
  <1>10. m \in Nat /\ x \in Nat
    BY <1>2
  <1> HIDE DEF m, x
  <1>11. m \div T <= x \div t
    BY <1>1, <1>9, <1>10, FloorMonotone DEF m, x
  <1> QED BY <1>1, <1>2, <1>7, <1>11 DEF m, x

\* The value of a user's shares, from the numbers it is made of.
LEMMA ValueIs ==
    ASSUME NEW s, NEW u, NEW p \in Nat, NEW B \in Nat, NEW T \in Nat,
           s.power[u].now = p, s.balance = B, s.total.now = T
    PROVE  /\ C20!query_staked_value(s, u) \in Nat
           /\ (p = 0 \/ B = 0 \/ T = 0) => C20!query_staked_value(s, u) = 0
           /\ (p > 0 /\ B > 0 /\ T > 0) => C20!query_staked_value(s, u) = (p * B) \div T
  <1>1. CASE p = 0 \/ B = 0 \/ T = 0
    BY <1>1 DEF C20!query_staked_value
  <1>2. CASE p > 0 /\ B > 0 /\ T > 0
    <2>1. C20!query_staked_value(s, u) = (p * B) \div T
      BY <1>2 DEF C20!query_staked_value
    <2> DEFINE m == p * B
    <2>2. m \in Nat
      OBVIOUS
    <2> HIDE DEF m
    <2>3. m \div T \in Nat
      BY <2>2, <1>2
    <2> QED BY <1>2, <2>1, <2>3 DEF m
  <1> QED BY <1>1, <1>2

\* What a user's shares are worth does not fall in a step in which their number does not.
ValueKept(s, t, u) ==
    t.power[u].now >= s.power[u].now
        => C20!query_staked_value(t, u) >= C20!query_staked_value(s, u)

LEMMA StakeKeepsValue ==
    ASSUME NEW s, NEW t, NEW n \in Nat \ {0}, StakeInv(s, n), NEW v \in Users, NEW a \in Nat,
           t \in C20!execute_stake(s, n, v, a), NEW u \in Users
    PROVE  ValueKept(s, t, u)
  <1>1. DOMAIN s = Fields /\ s.balance \in Nat
    BY DEF StakeInv
  <1>2. s.power[u].now \in Nat /\ s.total.now \in Nat /\ s.power[v].now \in Nat
    BY StakeIsPart
  <1> DEFINE d == C20!amount_to_stake(s.total.now, s.balance, a)
             p == s.power[u].now
             B == s.balance
             T == s.total.now
             r == t.power[u].now
  <1>3. /\ d \in Nat /\ Moved(s, t, n, v, d)
        /\ SameRest([s EXCEPT !.bank = Pay(s.bank, v, Self, a), !.balance = @ + a], t)
    BY <1>1, <1>2, Cw20Stake
  <1>4. t.balance = B + a
    BY <1>1, <1>3 DEF SameRest, Fields
  <1>5. StakeInv(t, n)
    <2>1. s.power[v].now + d \in Nat /\ d \in Int /\ t.balance \in Nat
      BY <1>1, <1>2, <1>3, <1>4
    <2> HIDE DEF d
    <2> QED BY <1>3, <2>1, MovedKeeps
  <1>6. r \in Nat
    BY <1>5, StakeIsPart
  <1>7. t.total.now = T + d
    BY <1>3 DEF Moved, Written
  <1>8. p > 0 /\ B > 0 /\ T > 0 => d * B <= T * a
    <2> SUFFICES ASSUME B > 0, T > 0 PROVE d * B <= T * a
      OBVIOUS
    <2>1. d = (T * a) \div B
      BY DEF C20!amount_to_stake
    <2> DEFINE m == T * a
    <2>2. m \in Nat /\ B \in Nat
      BY <1>1, <1>2
    <2> HIDE DEF m, B, d
    <2>3. (m \div B) * B <= m
      BY <2>2, FloorBounds
    <2> QED BY <2>1, <2>3 DEF m
  <1>9. p \in Nat /\ B \in Nat /\ T \in Nat
    BY <1>1, <1>2
  <1>10. s.power[u].now = p /\ s.balance = B /\ s.total.now = T /\ t.power[u].now = r
    OBVIOUS
  <1> HIDE DEF d, p, B, T, r
  <1>11. B + a \in Nat /\ T + d \in Nat
    BY <1>3, <1>9
  <1>12. C20!query_staked_value(t, u) \in Nat
    BY <1>4, <1>6, <1>7, <1>10, <1>11, ValueIs
  <1>13. CASE p = 0 \/ B = 0 \/ T = 0
    <2>1. C20!query_staked_value(s, u) = 0
      BY <1>9, <1>10, <1>13, ValueIs
    <2> QED BY <1>12, <2>1 DEF ValueKept
  <1>14. CASE p > 0 /\ B > 0 /\ T > 0
    <2> SUFFICES ASSUME r >= p
                 PROVE  C20!query_staked_value(t, u) >= C20!query_staked_value(s, u)
      BY <1>10 DEF ValueKept
    <2>1. C20!query_staked_value(s, u) = (p * B) \div T
      BY <1>9, <1>10, <1>14, ValueIs
    <2>2. r > 0 /\ B + a > 0 /\ T + d > 0
      BY <1>3, <1>6, <1>9, <1>14
    <2>3. C20!query_staked_value(t, u) = (r * (B + a)) \div (T + d)
      BY <1>4, <1>6, <1>7, <1>10, <1>11, <2>2, ValueIs
    <2>4. (p * B) \div T <= (r * (B + a)) \div (T + d)
      BY <1>3, <1>6, <1>8, <1>9, <1>14, ValueAfterStake
    <2> DEFINE x == (p * B) \div T
               y == (r * (B + a)) \div (T + d)
    <2>5. x \in Nat
      BY <1>9, <1>10, <2>1, ValueIs
    <2> HIDE DEF x, y
    <2>6. C20!query_staked_value(s, u) = x /\ C20!query_staked_value(t, u) = y /\ x <= y
      BY <2>1, <2>3, <2>4 DEF x, y
    <2> QED BY <1>12, <2>5, <2>6
  <1> QED BY <1>9, <1>13, <1>14

LEMMA UnstakeKeepsValue ==
    ASSUME NEW s, NEW t, NEW n \in Nat \ {0}, StakeInv(s, n), NEW v \in Users, NEW a \in Nat,
           t \in C20!execute_unstake(s, n, v, a), NEW u \in Users
    PROVE  ValueKept(s, t, u)
  <1>1. DOMAIN s = Fields /\ s.balance \in Nat /\ DOMAIN s.power = Users
    BY DEF StakeInv
  <1>2. s.power[u].now \in Nat /\ s.total.now \in Nat /\ s.power[v].now \in Nat
    BY StakeIsPart
  <1> DEFINE c == C20!amount_to_claim(s.total.now, s.balance, a)
             p == s.power[u].now
             B == s.balance
             T == s.total.now
             r == t.power[u].now
  <1>3. /\ Moved(s, t, n, v, -a) /\ a <= s.power[v].now /\ T # 0 /\ a <= T /\ c <= B
        /\ \E w \in PaidOut(s, n, v, c) : SameRest([w EXCEPT !.balance = w.balance - c], t)
    BY <1>1, <1>2, Cw20Unstake
  <1>4. t.balance = B - c
    <2>1. PICK w \in PaidOut(s, n, v, c) : SameRest([w EXCEPT !.balance = w.balance - c], t)
      BY <1>3
    <2> HIDE DEF c
    <2>2. w.balance = s.balance /\ DOMAIN w = Fields
      BY <1>1, PaidOutStakes DEF SameStakes
    <2> QED BY <2>1, <2>2 DEF SameRest, Fields
  <1>5. c \in Nat /\ c * T <= a * B
    <2> DEFINE m == a * B
    <2>1. m \in Nat /\ T \in Nat /\ T > 0
      BY <1>1, <1>2, <1>3
    <2>2. c = m \div T
      BY DEF C20!amount_to_claim
    <2> HIDE DEF m, T, c
    <2>3. m \div T \in Nat /\ (m \div T) * T <= m
      BY <2>1, FloorBounds
    <2> QED BY <2>2, <2>3 DEF m
  <1>6. t.total.now = T - a
    BY <1>2, <1>3 DEF Moved, Written
  <1>7. /\ u = v => r = p - a
        /\ u # v => r = p
    BY <1>1, <1>2, <1>3 DEF Moved, Written
  <1>8. u # v => p + s.power[v].now <= T
    BY StakeIsPart
  <1>9. p \in Nat /\ B \in Nat /\ T \in Nat /\ s.power[v].now \in Nat
    BY <1>1, <1>2
  <1>10. s.power[u].now = p /\ s.balance = B /\ s.total.now = T /\ t.power[u].now = r
    OBVIOUS
  <1> DEFINE pv == s.power[v].now
  <1>11. pv \in Nat /\ a <= pv /\ (u # v => p + pv <= T) /\ (u = v => pv = p)
    BY <1>3, <1>8, <1>9
  <1> SUFFICES ASSUME r >= p
               PROVE  C20!query_staked_value(t, u) >= C20!query_staked_value(s, u)
    BY DEF ValueKept
  <1> HIDE DEF c, p, B, T, r, pv
  <1>12. r = p /\ (u = v => a = 0)
    BY <1>7, <1>9
  <1>13. B - c \in Nat /\ T - a \in Nat
    BY <1>3, <1>5, <1>9
  <1>14. C20!query_staked_value(t, u) \in Nat
    BY <1>4, <1>6, <1>9, <1>10, <1>12, <1>13, ValueIs
  <1>15. CASE p = 0 \/ B = 0 \/ T = 0
    <2>1. C20!query_staked_value(s, u) = 0
      BY <1>9, <1>10, <1>15, ValueIs
    <2> QED BY <1>14, <2>1
  <1>16. CASE p > 0 /\ B > 0 /\ T > 0
    <2>1. C20!query_staked_value(s, u) = (p * B) \div T
      BY <1>9, <1>10, <1>16, ValueIs
    <2>2. a < T /\ T - a > 0
      BY <1>3, <1>9, <1>11, <1>12, <1>16
    <2>3. B - c > 0 /\ (p * B) \div T <= (p * (B - c)) \div (T - a)
      BY <1>3, <1>5, <1>9, <1>16, <2>2, ValueAfterUnstake
    <2>4. C20!query_staked_value(t, u) = (p * (B - c)) \div (T - a)
      BY <1>4, <1>6, <1>9, <1>10, <1>12, <1>13, <1>16, <2>2, <2>3, ValueIs
    <2> DEFINE x == (p * B) \div T
               y == (p * (B - c)) \div (T - a)
    <2>5. x \in Nat
      <3>1. C20!query_staked_value(s, u) \in Nat
        BY <1>9, <1>10, ValueIs
      <3> QED BY <2>1, <3>1
    <2> HIDE DEF x, y
    <2>6. C20!query_staked_value(s, u) = x /\ C20!query_staked_value(t, u) = y /\ x <= y
      BY <2>1, <2>3, <2>4 DEF x, y
    <2> QED BY <1>14, <2>5, <2>6
  <1> QED BY <1>9, <1>15, <1>16

\* The shares are worth at least as much if neither shares nor the balance falls.
LEMMA SameKeepsValue ==
    ASSUME NEW s, NEW t, NEW n, StakeInv(s, n), t.power = s.power, t.total = s.total,
           NEW a \in Nat, t.balance = s.balance + a, NEW u \in Users
    PROVE  ValueKept(s, t, u)
  <1> DEFINE p == s.power[u].now
             B == s.balance
             T == s.total.now
  <1>1. p \in Nat /\ B \in Nat /\ T \in Nat
    BY StakeIsPart DEF StakeInv
  <1>2. /\ s.power[u].now = p /\ s.balance = B /\ s.total.now = T
        /\ t.power[u].now = p /\ t.balance = B + a /\ t.total.now = T
    OBVIOUS
  <1> HIDE DEF p, B, T
  <1>3. B + a \in Nat
    BY <1>1
  <1>4. C20!query_staked_value(t, u) \in Nat
    BY <1>1, <1>2, <1>3, ValueIs
  <1>5. C20!query_staked_value(s, u) \in Nat
    BY <1>1, <1>2, ValueIs
  <1>6. CASE p = 0 \/ B = 0 \/ T = 0
    <2>1. C20!query_staked_value(s, u) = 0
      BY <1>1, <1>2, <1>6, ValueIs
    <2> QED BY <1>4, <2>1 DEF ValueKept
  <1>7. CASE p > 0 /\ B > 0 /\ T > 0
    <2>1. C20!query_staked_value(s, u) = (p * B) \div T
      BY <1>1, <1>2, <1>7, ValueIs
    <2>2. B + a > 0
      BY <1>1, <1>7
    <2>3. C20!query_staked_value(t, u) = (p * (B + a)) \div T
      BY <1>1, <1>2, <1>3, <1>7, <2>2, ValueIs
    <2>4. 0 * B <= T * a /\ p >= p /\ 0 \in Nat
      BY <1>1
    <2>5. (p * B) \div T <= (p * (B + a)) \div (T + 0)
      BY <1>1, <1>7, <2>4, ValueAfterStake
    <2>6. T + 0 = T
      BY <1>1
    <2>7. C20!query_staked_value(s, u) <= C20!query_staked_value(t, u)
      BY <2>1, <2>3, <2>5, <2>6
    <2> QED BY <1>4, <1>5, <2>7 DEF ValueKept
  <1> QED BY <1>1, <1>6, <1>7

LEMMA ValueStep ==
    ASSUME SInv, Next, kind = "cw20", NEW u \in Users
    PROVE  ValueKept(store, store', u)
  <1>1. height \in Nat \ {0} /\ StakeInv(store, height) /\ store.balance \in Nat
    BY DEF SInv, StakeInv
  <1>2. ASSUME store'.power = store.power, store'.total = store.total,
               store'.balance = store.balance
        PROVE  ValueKept(store, store', u)
    <2>1. 0 \in Nat /\ store'.balance = store.balance + 0
      BY <1>1, <1>2
    <2> QED BY <1>1, <1>2, <2>1, SameKeepsValue
  <1>3. ASSUME SameStakes(store, store'), store'.balance = store.balance
        PROVE  ValueKept(store, store', u)
    BY <1>2, <1>3 DEF SameStakes
  <1>4. ASSUME NEW v \in Users, NEW n \in Amounts, Stake(v, n)
        PROVE  ValueKept(store, store', u)
    <2>1. n \in Nat /\ store' \in C20!execute_stake(store, height, v, n)
      BY <1>4, StakedAssumption DEF Stake, Becomes
    <2> QED BY <1>1, <2>1, StakeKeepsValue
  <1>5. ASSUME NEW v \in Users, NEW n \in Amounts, UnstakeTokens(v, n)
        PROVE  ValueKept(store, store', u)
    <2>1. n \in Nat /\ store' \in C20!execute_unstake(store, height, v, n)
      BY <1>5, StakedAssumption DEF UnstakeTokens, UnstakeResults, Becomes, kind
    <2> QED BY <1>1, <2>1, UnstakeKeepsValue
  <1>6. ASSUME NEW v \in Users, NEW n \in Amounts, Fund(v, n)
        PROVE  ValueKept(store, store', u)
    BY <1>1, <1>6, FundSteps, SameKeepsValue DEF SameStakes
  <1>7. ASSUME NEW v \in Users, ClaimMature(v)
        PROVE  ValueKept(store, store', u)
    BY <1>1, <1>3, <1>7, ClaimSteps
  <1>8. ASSUME NEW d, UpdateConfig(Dao, d)
        PROVE  ValueKept(store, store', u)
    <2>1. store' = [store EXCEPT !.duration = d] /\ DOMAIN store = Fields
      BY <1>1, <1>8, ConfigSteps DEF StakeInv
    <2> QED BY <1>2, <2>1 DEF Fields
  <1>9. ASSUME NEW d, UpdateActiveThreshold(Dao, d)
        PROVE  ValueKept(store, store', u)
    <2>1. store' = [store EXCEPT !.threshold = d] /\ DOMAIN store = Fields
      BY <1>1, <1>9, ThresholdSteps DEF StakeInv
    <2> QED BY <1>2, <2>1 DEF Fields
  <1>10. ASSUME AddHook(Dao) \/ RemoveHook(Dao)
         PROVE  ValueKept(store, store', u)
    <2>1. HookSet(store, store') /\ DOMAIN store = Fields
      BY <1>1, <1>10, HookSteps DEF StakeInv
    <2>2. /\ store'.power = store.power /\ store'.total = store.total
          /\ store'.balance = store.balance
      BY <2>1 DEF HookSet, Fields
    <2> QED BY <1>2, <2>2
  <1>11. ASSUME NextBlock PROVE ValueKept(store, store', u)
    BY <1>2, <1>11 DEF NextBlock
  <1> QED
    BY <1>4, <1>5, <1>6, <1>7, <1>8, <1>9, <1>10, <1>11
       DEF Next, StakeNft, PrepareStake, ConfirmStake, UnstakeNfts, TransferNft, CancelStake

\* In cw20-stake no stake, unstake, funding or claim of others, however its shares are
\* rounded by amount_to_stake and amount_to_claim, takes anything from a user's value.
THEOREM ValueIsKept == Spec => ValueNeverFalls
  <1> DEFINE P == kind = "cw20" =>
           \A u \in Users : store'.power[u].now >= store.power[u].now =>
               C20!query_staked_value(store', u) >= C20!query_staked_value(store, u)
  <1>1. ASSUME SInv, Next PROVE P
    BY <1>1, ValueStep DEF ValueKept
  <1>2. SInv /\ [Next]_vars => [P]_vars
    BY <1>1
  <1> QED BY <1>2, StakesHold, PTL DEF Spec, ValueNeverFalls
=============================================================================
