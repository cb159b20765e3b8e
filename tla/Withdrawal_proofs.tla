------------------------- MODULE Withdrawal_proofs --------------------------
(***************************************************************************)
(* Theorems about StakedVoting that concern what is staked and claimed:    *)
(* voting power is the number of staked NFTs, and whoever may unstake or   *)
(* claim is paid.                                                          *)
(***************************************************************************)
EXTENDS StakedVoting_proofs, SequenceTheorems

----------------------------------------------------------------------------
(* Picking claims *)

\* g picks the claims at the positions in S, among the first ones.
Picks(g, claims, S) ==
    g = [i \in 0 .. Len(claims) |->
            IF i = 0 THEN <<>>
            ELSE IF i \in S THEN Append(g[i - 1], claims[i]) ELSE g[i - 1]]

Picking(claims, S) == CHOOSE g : Picks(g, claims, S)

LEMMA PickedIs ==
    ASSUME NEW claims, NEW S
    PROVE  Picked(claims, S) = Picking(claims, S)[Len(claims)]
  BY DEF Picked, Picking, Picks

\* The recursion has a solution.
LEMMA PickingExists ==
    ASSUME NEW claims, NEW S, Len(claims) \in Nat
    PROVE  Picks(Picking(claims, S), claims, S)
  <1> DEFINE L == Len(claims)
             Step(g, i) == IF i = 0 THEN <<>>
                           ELSE IF i \in S THEN Append(g[i - 1], claims[i]) ELSE g[i - 1]
             Partly(n) == \E g : g = [i \in 0 .. n |-> Step(g, i)]
             P == {n \in 0 .. L : Partly(n)}
  <1>1. 0 \in P
    <2> DEFINE g == [i \in 0 .. 0 |-> <<>>]
    <2>1. g = [i \in 0 .. 0 |-> Step(g, i)]
      OBVIOUS
    <2>2. Partly(0)
      BY <2>1
    <2> QED BY <2>2
  <1>2. ASSUME NEW n \in 0 .. L - 1, n \in P PROVE n + 1 \in P
    <2>1. PICK g : g = [i \in 0 .. n |-> Step(g, i)]
      BY <1>2
    <2> DEFINE h == [i \in 0 .. n + 1 |-> IF i = n + 1 THEN Step(g, i) ELSE g[i]]
    <2>2. ASSUME NEW i \in 0 .. n + 1 PROVE h[i] = Step(h, i)
      <3>1. CASE i = 0
        BY <2>1, <3>1
      <3>2. CASE i # 0
        <4>1. i - 1 \in 0 .. n /\ i - 1 # n + 1 /\ i - 1 \in 0 .. n + 1
          BY <3>2
        <4>2. h[i - 1] = g[i - 1]
          BY <4>1
        <4>3. Step(h, i) = Step(g, i)
          BY <4>2
        <4>4. CASE i = n + 1
          BY <4>3, <4>4
        <4>5. CASE i # n + 1
          <5>1. i \in 0 .. n
            BY <4>5
          <5>2. g[i] = Step(g, i)
            BY <2>1, <5>1
          <5> QED BY <4>3, <4>5, <5>2
        <4> QED BY <4>4, <4>5
      <3> QED BY <3>1, <3>2
    <2>3. h = [i \in 0 .. n + 1 |-> h[i]]
      OBVIOUS
    <2>4. [i \in 0 .. n + 1 |-> h[i]] = [i \in 0 .. n + 1 |-> Step(h, i)]
      BY <2>2
    <2> HIDE DEF h, Step
    <2>5. h = [i \in 0 .. n + 1 |-> Step(h, i)]
      BY <2>3, <2>4
    <2> QED BY <2>5
  <1>3. \A n \in 0 .. L : n \in P
    <2> HIDE DEF P
    <2> QED BY <1>1, <1>2, InductionUpTo
  <1>4. L \in P
    BY <1>3
  <1>5. PICK g : g = [i \in 0 .. L |-> Step(g, i)]
    BY <1>4
  <1>6. Picks(g, claims, S)
    BY <1>5 DEF Picks
  <1> QED BY <1>6 DEF Picking

\* What is picked comes from different positions in S.
LEMMA PickedFrom ==
    ASSUME NEW T, NEW claims \in Seq(T), NEW S \in SUBSET DOMAIN claims
    PROVE  /\ Picked(claims, S) \in Seq(T)
           /\ \E f \in [DOMAIN Picked(claims, S) -> S] :
                  /\ \A i, j \in DOMAIN Picked(claims, S) : f[i] = f[j] => i = j
                  /\ \A i \in DOMAIN Picked(claims, S) : Picked(claims, S)[i] = claims[f[i]]
  <1> DEFINE L == Len(claims)
             g == Picking(claims, S)
             From(q, n) == /\ q \in Seq(T)
                           /\ \E f \in [DOMAIN q -> S] :
                                  /\ \A i, j \in DOMAIN q : f[i] = f[j] => i = j
                                  /\ \A i \in DOMAIN q : f[i] <= n /\ q[i] = claims[f[i]]
             P == {n \in 0 .. L : From(g[n], n)}
  <1>1. L \in Nat /\ DOMAIN claims = 1 .. L
    OBVIOUS
  <1>2. Picks(g, claims, S)
    BY <1>1, PickingExists
  <1>3. /\ g[0] = <<>>
        /\ \A n \in 0 .. L - 1 : g[n + 1] = IF n + 1 \in S THEN Append(g[n], claims[n + 1])
                                            ELSE g[n]
    <2> HIDE DEF g
    <2>1. g[0] = <<>>
      BY <1>1, <1>2 DEF Picks
    <2>2. ASSUME NEW n \in 0 .. L - 1
          PROVE  g[n + 1] = IF n + 1 \in S THEN Append(g[n], claims[n + 1]) ELSE g[n]
      <3>1. n + 1 \in 0 .. L /\ n + 1 # 0 /\ (n + 1) - 1 = n
        BY <1>1
      <3>2. g[n + 1] = IF n + 1 = 0 THEN <<>>
                       ELSE IF n + 1 \in S THEN Append(g[(n + 1) - 1], claims[n + 1])
                            ELSE g[(n + 1) - 1]
        <4> DEFINE m == n + 1
        <4>1. m \in 0 .. L
          BY <3>1
        <4> HIDE DEF m
        <4>2. g[m] = IF m = 0 THEN <<>>
                     ELSE IF m \in S THEN Append(g[m - 1], claims[m]) ELSE g[m - 1]
          BY <1>2, <4>1 DEF Picks
        <4> QED BY <4>2 DEF m
      <3> QED BY <3>1, <3>2
    <2> QED BY <2>1, <2>2
  <1> HIDE DEF g
  <1>4. 0 \in P
    <2>1. <<>> \in Seq(T) /\ DOMAIN <<>> = {}
      OBVIOUS
    <2> DEFINE e == [i \in DOMAIN <<>> |-> i]
    <2>2. e \in [DOMAIN <<>> -> S]
      BY <2>1
    <2>3. /\ \A i, j \in DOMAIN <<>> : e[i] = e[j] => i = j
          /\ \A i \in DOMAIN <<>> : e[i] <= 0 /\ <<>>[i] = claims[e[i]]
      BY <2>1
    <2> HIDE DEF e
    <2>4. From(<<>>, 0)
      BY <2>1, <2>2, <2>3, Zenon
    <2>5. 0 \in 0 .. L /\ g[0] = <<>>
      BY <1>1, <1>3
    <2> HIDE DEF From, L
    <2>6. From(g[0], 0)
      BY <2>4, <2>5
    <2> QED BY <2>5, <2>6
  <1>5. ASSUME NEW n \in 0 .. L - 1, n \in P PROVE n + 1 \in P
    <2> DEFINE q == g[n]
    <2>1. q \in Seq(T) /\ From(q, n)
      BY <1>5
    <2>2. PICK f \in [DOMAIN q -> S] :
              /\ \A i, j \in DOMAIN q : f[i] = f[j] => i = j
              /\ \A i \in DOMAIN q : f[i] <= n /\ q[i] = claims[f[i]]
      BY <2>1
    <2>3. S \subseteq 1 .. L /\ n + 1 \in 0 .. L
      BY <1>1
    <2>4. CASE n + 1 \notin S
      <3>1. g[n + 1] = q
        BY <1>3, <2>4
      <3>2. \A i \in DOMAIN q : f[i] <= n + 1 /\ q[i] = claims[f[i]]
        BY <2>2, <2>3
      <3> HIDE DEF q
      <3>3. From(q, n + 1)
        BY <2>1, <2>2, <3>2, Zenon
      <3> QED BY <2>3, <3>1, <3>3
    <2>5. CASE n + 1 \in S
      <3> DEFINE r == Append(q, claims[n + 1])
                 e == [i \in DOMAIN r |-> IF i = Len(q) + 1 THEN n + 1 ELSE f[i]]
      <3>1. g[n + 1] = r
        BY <1>3, <2>5
      <3>2. claims[n + 1] \in T
        BY <2>5
      <3>3. r \in Seq(T) /\ DOMAIN r = 1 .. Len(q) + 1 /\ DOMAIN q = 1 .. Len(q)
            /\ Len(q) \in Nat /\ r[Len(q) + 1] = claims[n + 1]
            /\ \A i \in 1 .. Len(q) : r[i] = q[i]
        BY <2>1, <3>2
      <3> HIDE DEF q, r
      <3>4. e \in [DOMAIN r -> S]
        BY <2>2, <2>5, <3>3
      <3>5. \A i \in DOMAIN q : e[i] = f[i]
        BY <3>3
      <3>6. e[Len(q) + 1] = n + 1
        BY <3>3
      <3>7. ASSUME NEW i \in DOMAIN r, NEW j \in DOMAIN r, e[i] = e[j] PROVE i = j
        <4>1. CASE i \in DOMAIN q /\ j \in DOMAIN q
          BY <2>2, <3>5, <3>7, <4>1
        <4>2. CASE i \in DOMAIN q /\ j = Len(q) + 1
          <5>1. f[i] <= n /\ f[i] = n + 1 /\ f[i] \in 1 .. L
            BY <2>2, <2>3, <3>5, <3>6, <3>7, <4>2
          <5> QED BY <5>1
        <4>3. CASE j \in DOMAIN q /\ i = Len(q) + 1
          <5>1. f[j] <= n /\ f[j] = n + 1 /\ f[j] \in 1 .. L
            BY <2>2, <2>3, <3>5, <3>6, <3>7, <4>3
          <5> QED BY <5>1
        <4>4. CASE i = Len(q) + 1 /\ j = Len(q) + 1
          BY <4>4
        <4> QED BY <3>3, <4>1, <4>2, <4>3, <4>4
      <3>8. ASSUME NEW i \in DOMAIN r PROVE e[i] <= n + 1 /\ r[i] = claims[e[i]]
        <4>1. CASE i \in DOMAIN q
          <5>1. e[i] = f[i] /\ f[i] <= n /\ f[i] \in 1 .. L /\ q[i] = claims[f[i]]
            BY <2>2, <2>3, <3>5, <4>1
          <5>2. r[i] = q[i]
            BY <3>3, <4>1
          <5> QED BY <5>1, <5>2
        <4>2. CASE i = Len(q) + 1
          BY <3>3, <3>6, <4>2
        <4> QED BY <3>3, <4>1, <4>2
      <3> HIDE DEF e
      <3>9. From(r, n + 1)
        BY <3>3, <3>4, <3>7, <3>8
      <3> QED BY <2>3, <3>1, <3>9
    <2> QED BY <2>4, <2>5
  <1>6. \A n \in 0 .. L : n \in P
    <2> HIDE DEF P
    <2> QED BY <1>1, <1>4, <1>5, InductionUpTo
  <1>7. From(g[L], L)
    BY <1>1, <1>6
  <1>8. Picked(claims, S) = g[L]
    BY PickedIs DEF g
  <1> QED BY <1>7, <1>8

----------------------------------------------------------------------------
(* NFTs *)

\* User u has a title to NFT m: the stake (number 0) or a claim (by its position).
Title(s, m, u, i) ==
    \/ i = 0 /\ <<u, m>> \in s.staked
    \/ i \in DOMAIN s.claims[u] /\ s.claims[u][i].what = m

\* There is at most one title to NFT m, and none unless the contract holds it and
\* nobody is about to stake it.
NftSafe(s, m) ==
    /\ \A u, v \in Users : \A i, j \in Nat :
           Title(s, m, u, i) /\ Title(s, m, v, j) => u = v /\ i = j
    /\ \A u \in Users : \A i \in Nat :
           Title(s, m, u, i) => s.owner[m] = Self /\ s.prepared[m] = NoOne

StakedBy(s, u) == {m \in Nfts : <<u, m>> \in s.staked}

NftClaims == [what : Nfts, release_at : Nat]

NftTypes(s) ==
    /\ s.owner \in [Nfts -> Holders] /\ s.staked \subseteq Users \X Nfts
    /\ s.claims \in [Users -> Seq(NftClaims)]
    /\ s.prepared \in [Nfts -> Users \cup {NoOne}]
    /\ s.duration \in SUBSET Nat

\* What has been said of every NFT but those the DAO took back; voting power stems from
\* the NFTs a user has staked, and in the cw721 module from nothing else.
NftInv(s) ==
    /\ NftTypes(s)
    /\ s.kind = "cw721" => s.recalled = {} /\ \A m \in Nfts : s.prepared[m] = NoOne
    /\ \A m \in Nfts \ s.recalled : NftSafe(s, m)
    /\ \A u \in Users : Cardinality(StakedBy(s, u)) <= s.power[u].now
    /\ s.kind = "cw721" => \A u \in Users : Cardinality(StakedBy(s, u)) = s.power[u].now

\* The power of who stakes or unstakes, and of the others.
PowerMoved(s, t, u, d) ==
    /\ s.power[u].now \in Nat /\ t.power[u].now = s.power[u].now + d
    /\ \A v \in Users \ {u} : t.power[v] = s.power[v]

LEMMA MovedPower ==
    ASSUME NEW s, NEW t, NEW n, StakeInv(s, n), NEW u \in Users, NEW d \in Int, Moved(s, t, n, u, d)
    PROVE  PowerMoved(s, t, u, d)
  <1>1. DOMAIN s.power = Users /\ s.power[u].now \in Nat
    BY StakeIsPart DEF StakeInv
  <1> DEFINE p == s.power[u].now + d
  <1>2. t.power = [s.power EXCEPT ![u] = Written(s.power[u], n, p)]
    BY DEF Moved
  <1> HIDE DEF p
  <1>3. t.power[u] = Written(s.power[u], n, p) /\ \A v \in Users \ {u} : t.power[v] = s.power[v]
    BY <1>1, <1>2
  <1>4. t.power[u].now = p
    BY <1>3 DEF Written
  <1> QED BY <1>1, <1>3, <1>4 DEF p, PowerMoved

\* An NFT that is elsewhere, or about to be staked, has no title.
LEMMA NoTitle ==
    ASSUME NEW s, NEW m, NftSafe(s, m), s.owner[m] # Self \/ s.prepared[m] # NoOne
    PROVE  \A u \in Users : \A i \in Nat : ~Title(s, m, u, i)
  BY DEF NftSafe

\* What a step leaves alone stays safe.
LEMMA SafeStays ==
    ASSUME NEW s, NEW t, NEW m, NftSafe(s, m), t.owner[m] = s.owner[m],
           t.prepared[m] \in {s.prepared[m], NoOne},
           \A u \in Users : \A i \in Nat : Title(t, m, u, i) => Title(s, m, u, i)
    PROVE  NftSafe(t, m)
  BY DEF NftSafe

\* What has no title is safe wherever it goes.
LEMMA SafeFree ==
    ASSUME NEW t, NEW m, \A u \in Users : \A i \in Nat : ~Title(t, m, u, i)
    PROVE  NftSafe(t, m)
  BY DEF NftSafe

\* The only title there is.
LEMMA SafeOne ==
    ASSUME NEW t, NEW m, t.owner[m] = Self, t.prepared[m] = NoOne, NEW u \in Users, NEW i \in Nat,
           \A v \in Users : \A j \in Nat : Title(t, m, v, j) => v = u /\ j = i
    PROVE  NftSafe(t, m)
  BY DEF NftSafe

\* Positions of claims are numbers from one.
LEMMA TitleOf ==
    ASSUME NEW s, NftTypes(s), NEW u \in Users
    PROVE  /\ s.claims[u] \in Seq(NftClaims) /\ Len(s.claims[u]) \in Nat
           /\ DOMAIN s.claims[u] = 1 .. Len(s.claims[u])
  BY DEF NftTypes

\* Staking an NFT that its owner sends.
LEMMA StakeNftKeeps ==
    ASSUME NEW s, NEW t, NEW n, StakeInv(s, n), NftInv(s), s.kind = "cw721",
           NEW u \in Users, NEW id \in Nfts, s.owner[id] = u, Moved(s, t, n, u, 1),
           SameRest([s EXCEPT !.owner[id] = Self, !.staked = @ \cup {<<u, id>>}], t)
    PROVE  NftInv(t)
  <1>1. DOMAIN s = Fields /\ NftTypes(s)
    BY DEF StakeInv, NftInv
  <1>2. /\ t.owner = [s.owner EXCEPT ![id] = Self] /\ t.staked = s.staked \cup {<<u, id>>}
        /\ t.claims = s.claims /\ t.prepared = s.prepared /\ t.duration = s.duration
        /\ t.recalled = s.recalled /\ t.kind = s.kind
    BY <1>1 DEF SameRest, Fields
  <1>3. NftTypes(t)
    BY <1>1, <1>2 DEF NftTypes, Holders
  <1>4. s.owner[id] # Self /\ s.recalled = {}
    BY StakingAssumption DEF NftInv
  <1>5. \A v \in Users : \A i \in Nat : ~Title(s, id, v, i)
    <2>1. NftSafe(s, id)
      BY <1>4 DEF NftInv
    <2> QED BY <1>4, <2>1, NoTitle
  <1>6. ASSUME NEW m \in Nfts PROVE NftSafe(t, m)
    <2>1. NftSafe(s, m)
      BY <1>4 DEF NftInv
    <2>2. CASE m # id
      <3>1. t.owner[m] = s.owner[m] /\ t.prepared[m] = s.prepared[m]
        BY <1>1, <1>2, <2>2 DEF NftTypes
      <3>2. ASSUME NEW v \in Users, NEW i \in Nat, Title(t, m, v, i) PROVE Title(s, m, v, i)
        BY <1>2, <2>2, <3>2 DEF Title
      <3> QED BY <2>1, <3>1, <3>2, SafeStays
    <2>3. CASE m = id
      <3>1. t.owner[m] = Self /\ t.prepared[m] = NoOne
        BY <1>1, <1>2, <2>3 DEF NftTypes, NftInv
      <3>2. ASSUME NEW v \in Users, NEW j \in Nat, Title(t, m, v, j) PROVE v = u /\ j = 0
        BY <1>2, <1>5, <2>3, <3>2 DEF Title
      <3> QED BY <3>1, <3>2, SafeOne
    <2> QED BY <2>2, <2>3
  <1>7. /\ t.power[u].now = s.power[u].now + 1 /\ s.power[u].now \in Nat
        /\ \A v \in Users \ {u} : t.power[v] = s.power[v]
    <2>1. 1 \in Int
      OBVIOUS
    <2> QED BY <2>1, MovedPower DEF PowerMoved
  <1>8. ASSUME NEW v \in Users PROVE Cardinality(StakedBy(t, v)) = t.power[v].now
    <2>1. Cardinality(StakedBy(s, v)) = s.power[v].now
      BY DEF NftInv
    <2>2. CASE v # u
      <3>1. StakedBy(t, v) = StakedBy(s, v)
        BY <1>2, <2>2 DEF StakedBy
      <3>2. t.power[v] = s.power[v]
        BY <1>7, <2>2
      <3> QED BY <2>1, <3>1, <3>2
    <2>3. CASE v = u
      <3>1. StakedBy(t, v) = StakedBy(s, v) \cup {id}
        BY <1>2, <2>3 DEF StakedBy
      <3>2. id \notin StakedBy(s, v)
        BY <1>5 DEF StakedBy, Title
      <3>3. IsFiniteSet(StakedBy(s, v))
        <4>1. StakedBy(s, v) \subseteq Nfts
          BY DEF StakedBy
        <4> QED BY <4>1, StakingAssumption, FS_Subset
      <3>4. Cardinality(StakedBy(t, v)) = Cardinality(StakedBy(s, v)) + 1
        BY <3>1, <3>2, <3>3, FS_AddElement
      <3>5. t.power[v].now = s.power[v].now + 1
        BY <1>7, <2>3
      <3> QED BY <2>1, <3>4, <3>5
    <2> QED BY <2>2, <2>3
  <1>9. \A v \in Users : Cardinality(StakedBy(t, v)) <= t.power[v].now
    <2> SUFFICES ASSUME NEW v \in Users PROVE Cardinality(StakedBy(t, v)) <= t.power[v].now
      OBVIOUS
    <2>1. t.power[v].now \in Int
      <3>1. s.power[v].now \in Nat
        BY StakeIsPart
      <3>2. CASE v = u
        BY <1>7, <3>2
      <3>3. CASE v # u
        BY <1>7, <3>1, <3>3
      <3> QED BY <3>2, <3>3
    <2> QED BY <2>1, <1>8
  <1> QED BY <1>2, <1>3, <1>6, <1>8, <1>9 DEF NftInv

\* The size of a list and the number of its members.
LEMMA ListSize ==
    ASSUME NEW T, NEW ids \in Seq(T)
    PROVE  /\ IsFiniteSet(Range(ids)) /\ Cardinality(Range(ids)) \in Nat
           /\ Cardinality(Range(ids)) <= Len(ids)
           /\ (\A i, j \in DOMAIN ids : ids[i] = ids[j] => i = j)
                  => Cardinality(Range(ids)) = Len(ids)
  <1>1. Len(ids) \in Nat /\ DOMAIN ids = 1 .. Len(ids)
    OBVIOUS
  <1>2. IsFiniteSet(DOMAIN ids) /\ Cardinality(DOMAIN ids) = Len(ids)
    BY <1>1, FS_Interval
  <1>3. ids \in Surjection(DOMAIN ids, Range(ids))
    BY <1>1 DEF Surjection, Range
  <1>4. /\ IsFiniteSet(Range(ids)) /\ Cardinality(Range(ids)) <= Cardinality(DOMAIN ids)
        /\ ids \in Injection(DOMAIN ids, Range(ids))
               => Cardinality(Range(ids)) = Cardinality(DOMAIN ids)
    BY <1>2, <1>3, FS_Surjection
  <1>5. (\A i, j \in DOMAIN ids : ids[i] = ids[j] => i = j)
            => ids \in Injection(DOMAIN ids, Range(ids))
    BY <1>3 DEF Injection, IsInjective, Surjection
  <1>6. Cardinality(Range(ids)) \in Nat
    BY <1>4, FS_CardinalityType
  <1> QED BY <1>2, <1>4, <1>5, <1>6

\* The NFTs of a user are finitely many.
LEMMA StakedFinite ==
    ASSUME NEW s, NEW u
    PROVE  StakedBy(s, u) \subseteq Nfts /\ IsFiniteSet(StakedBy(s, u))
           /\ Cardinality(StakedBy(s, u)) \in Nat
  <1>1. StakedBy(s, u) \subseteq Nfts
    BY DEF StakedBy
  <1>2. IsFiniteSet(StakedBy(s, u))
    BY <1>1, StakingAssumption, FS_Subset
  <1> QED BY <1>1, <1>2, FS_CardinalityType

\* User v's power is still at least, or exactly, the number of NFTs that v has staked.
PowerFits(s, t, v) ==
    /\ Cardinality(StakedBy(s, v)) <= s.power[v].now
           => Cardinality(StakedBy(t, v)) <= t.power[v].now
    /\ Cardinality(StakedBy(s, v)) = s.power[v].now
           => Cardinality(StakedBy(t, v)) = t.power[v].now

LEMMA UnstakedPower ==
    ASSUME NEW s, NEW t, NEW n, StakeInv(s, n), NEW u \in Users, NEW ids \in Seq(Nfts),
           Moved(s, t, n, u, -Len(ids)), CanUnstake(s, u, ids), Unstaked(s, t, n, u, ids)
    PROVE  \A v \in Users : PowerFits(s, t, v)
  <1> SUFFICES ASSUME NEW v \in Users PROVE PowerFits(s, t, v)
    OBVIOUS
  <1>0. t.staked = s.staked \ ({u} \X Range(ids))
    BY DEF Unstaked
  <1>1. Len(ids) \in Nat /\ -Len(ids) \in Int
    OBVIOUS
  <1>2. /\ t.power[u].now = s.power[u].now - Len(ids) /\ s.power[u].now \in Nat
        /\ \A w \in Users \ {u} : t.power[w] = s.power[w]
    BY <1>1, MovedPower DEF PowerMoved
  <1>3. CASE v # u
    <2>1. StakedBy(t, v) = StakedBy(s, v)
      BY <1>0, <1>3 DEF StakedBy
    <2> QED BY <1>2, <1>3, <2>1 DEF PowerFits
  <1>4. CASE v = u
    <2>1. Range(ids) \subseteq StakedBy(s, u)
      BY DEF CanUnstake, StakedBy, Range
    <2>2. StakedBy(t, u) = StakedBy(s, u) \ Range(ids)
      BY <1>0 DEF StakedBy
    <2>3. StakedBy(s, u) \cap Range(ids) = Range(ids)
      BY <2>1
    <2>4. Cardinality(Range(ids)) = Len(ids)
      <3>1. \A i, j \in DOMAIN ids : ids[i] = ids[j] => i = j
        BY DEF CanUnstake
      <3> QED BY <3>1, ListSize
    <2>5. IsFiniteSet(StakedBy(s, u)) /\ Cardinality(StakedBy(s, u)) \in Nat
      BY StakedFinite
    <2>6. Cardinality(StakedBy(t, u)) = Cardinality(StakedBy(s, u)) - Len(ids)
      <3> DEFINE A == StakedBy(s, u)
                 R == Range(ids)
      <3>1. StakedBy(t, u) = A \ R /\ A \cap R = R /\ IsFiniteSet(A)
        BY <2>2, <2>3, <2>5
      <3> HIDE DEF A, R
      <3>2. Cardinality(A \ R) = Cardinality(A) - Cardinality(A \cap R)
        BY <3>1, FS_Difference
      <3> QED BY <2>4, <3>1, <3>2 DEF A, R
    <2> QED BY <1>1, <1>2, <1>4, <2>5, <2>6 DEF PowerFits
  <1> QED BY <1>3, <1>4

\* New claims on a list of NFTs, behind the old ones.
Added(old, ids, r) == old \o [i \in DOMAIN ids |-> Claim(ids[i], r)]

\* The claims new are the old ones and then those on the NFTs ids.
IsAdded(old, ids, new) ==
    /\ new \in Seq(NftClaims) /\ DOMAIN new = 1 .. Len(old) + Len(ids)
    /\ \A i \in DOMAIN old : new[i] = old[i]
    /\ \A i \in DOMAIN new \ DOMAIN old :
           i - Len(old) \in DOMAIN ids /\ new[i].what = ids[i - Len(old)]

LEMMA ClaimsAdded ==
    ASSUME NEW old \in Seq(NftClaims), NEW ids \in Seq(Nfts), NEW r \in Nat
    PROVE  IsAdded(old, ids, Added(old, ids, r))
  <1> DEFINE new == Added(old, ids, r)
  <1> DEFINE R == NftClaims
             q == [i \in DOMAIN ids |-> Claim(ids[i], r)]
  <1>1. Len(ids) \in Nat /\ DOMAIN ids = 1 .. Len(ids)
    OBVIOUS
  <1>2. \A i \in DOMAIN ids : Claim(ids[i], r) \in R /\ Claim(ids[i], r).what = ids[i]
    BY DEF Claim, NftClaims
  <1>3. q \in Seq(R) /\ Len(q) = Len(ids) /\ \A i \in DOMAIN ids : q[i].what = ids[i]
    <2> DEFINE C(i) == Claim(ids[i], r)
    <2>1. \A i \in 1 .. Len(ids) : C(i) \in R /\ C(i).what = ids[i]
      BY <1>1, <1>2
    <2> HIDE DEF C, R
    <2>2. [i \in 1 .. Len(ids) |-> C(i)] \in Seq(R) /\ Len([i \in 1 .. Len(ids) |-> C(i)]) = Len(ids)
      BY <1>1, <2>1
    <2>3. q = [i \in 1 .. Len(ids) |-> C(i)]
      BY <1>1 DEF C
    <2> QED BY <1>1, <2>1, <2>2, <2>3
  <1> HIDE DEF q, R
  <1>4. new = old \o q
    BY DEF q, Added
  <1> HIDE DEF new
  <1>5. old \in Seq(R) /\ Len(old) \in Nat /\ DOMAIN old = 1 .. Len(old)
    BY DEF R
  <1>6. /\ new \in Seq(R) /\ Len(new) = Len(old) + Len(ids) /\ DOMAIN new = 1 .. Len(old) + Len(ids)
        /\ \A i \in DOMAIN old : new[i] = old[i]
        /\ \A i \in DOMAIN new : i > Len(old) => new[i] = q[i - Len(old)]
    <2>1. /\ new \in Seq(R) /\ Len(new) = Len(old) + Len(q)
          /\ \A i \in 1 .. Len(old) + Len(q) :
                 new[i] = IF i <= Len(old) THEN old[i] ELSE q[i - Len(old)]
      <3>1. /\ old \o q \in Seq(R) /\ Len(old \o q) = Len(old) + Len(q)
            /\ \A i \in 1 .. Len(old) + Len(q) :
                   (old \o q)[i] = IF i <= Len(old) THEN old[i] ELSE q[i - Len(old)]
        BY <1>3, <1>5, ConcatProperties
      <3> DEFINE c == old \o q
      <3>2. new = c
        BY <1>4
      <3> HIDE DEF c
      <3> QED BY <3>1, <3>2, Zenon DEF c
    <2>2. DOMAIN new = 1 .. Len(old) + Len(ids) /\ Len(q) = Len(ids)
      BY <1>3, <2>1
    <2>3. \A i \in 1 .. Len(old) : new[i] = old[i]
      BY <1>1, <1>5, <2>1, <2>2
    <2>4. ASSUME NEW i \in 1 .. Len(old) + Len(ids), i > Len(old) PROVE new[i] = q[i - Len(old)]
      <3>1. ~(i <= Len(old)) /\ i \in 1 .. Len(old) + Len(q)
        BY <1>5, <2>2, <2>4
      <3> QED BY <2>1, <3>1
    <2> QED BY <1>5, <2>1, <2>2, <2>3, <2>4
  <1>7. ASSUME NEW i \in DOMAIN new \ DOMAIN old
        PROVE  i - Len(old) \in DOMAIN ids /\ new[i].what = ids[i - Len(old)]
    <2>1. i > Len(old) /\ i - Len(old) \in 1 .. Len(ids)
      BY <1>1, <1>5, <1>6
    <2> QED BY <1>1, <1>3, <1>6, <2>1
  <1> QED BY <1>6, <1>7 DEF R, IsAdded, new

\* Unstaking NFTs.
LEMMA UnstakeNftsKeep ==
    ASSUME NEW s, NEW t, NEW n \in Nat, StakeInv(s, n), NftInv(s), NEW u \in Users,
           NEW ids \in Seq(Nfts), Moved(s, t, n, u, -Len(ids)), CanUnstake(s, u, ids),
           Unstaked(s, t, n, u, ids)
    PROVE  NftInv(t)
  <1>1. NftTypes(s) /\ Range(ids) \subseteq Nfts
    BY DEF NftInv, Range
  <1>2. /\ t.staked = s.staked \ ({u} \X Range(ids)) /\ t.prepared = s.prepared
        /\ t.duration = s.duration /\ t.recalled = s.recalled /\ t.kind = s.kind
    BY DEF Unstaked, Fields
  <1> DEFINE old == s.claims[u]
             r == ReleaseAt(s, n)
             new == Added(old, ids, r)
  <1>3. \/ /\ s.duration = {} /\ t.owner = Owners(s.owner, Range(ids), u) /\ t.claims = s.claims
        \/ /\ s.duration # {} /\ t.owner = s.owner /\ t.claims = [s.claims EXCEPT ![u] = new]
    BY DEF Unstaked, Added
  <1>4. ASSUME s.duration # {}
        PROVE  /\ new \in Seq(NftClaims) /\ DOMAIN new = 1 .. Len(old) + Len(ids)
               /\ \A i \in DOMAIN old : new[i] = old[i]
               /\ \A i \in DOMAIN new \ DOMAIN old :
                      i - Len(old) \in DOMAIN ids /\ new[i].what = ids[i - Len(old)]
    <2>1. r \in Nat
      <3>1. (CHOOSE d \in s.duration : TRUE) \in Nat
        BY <1>1, <1>4 DEF NftTypes
      <3> QED BY <3>1 DEF ReleaseAt
    <2>2. old \in Seq(NftClaims)
      BY <1>1, TitleOf
    <2> HIDE DEF old, r
    <2>3. IsAdded(old, ids, new)
      BY <2>1, <2>2, ClaimsAdded
    <2> HIDE DEF new
    <2> QED BY <2>3 DEF IsAdded
  <1> HIDE DEF new, r
  <1>5. NftTypes(t)
    <2>1. t.owner \in [Nfts -> Holders]
      <3>1. s.owner \in [Nfts -> Holders] /\ u \in Holders
        BY <1>1 DEF NftTypes, Holders
      <3>2. Owners(s.owner, Range(ids), u) \in [Nfts -> Holders]
        BY <3>1 DEF Owners
      <3> QED BY <1>3, <3>1, <3>2
    <2>2. t.claims \in [Users -> Seq(NftClaims)]
      BY <1>1, <1>3, <1>4 DEF NftTypes
    <2> QED BY <1>1, <1>2, <2>1, <2>2 DEF NftTypes
  <1>6. /\ old \in Seq(NftClaims) /\ Len(old) \in Nat /\ DOMAIN old = 1 .. Len(old)
        /\ \A v \in Users : 0 \notin DOMAIN s.claims[v]
    BY <1>1, TitleOf
  <1>7. DOMAIN s.claims = Users
    BY <1>1 DEF NftTypes
  <1> HIDE DEF old
  <1>8. ASSUME NEW m \in Nfts \ s.recalled PROVE NftSafe(t, m)
    <2>1. NftSafe(s, m)
      BY DEF NftInv
    <2>2. CASE m \notin Range(ids)
      <3>1. t.owner[m] = s.owner[m] /\ t.prepared[m] = s.prepared[m]
        BY <1>2, <1>3, <2>2 DEF Owners
      <3>2. ASSUME NEW v \in Users, NEW i \in Nat, Title(t, m, v, i) PROVE Title(s, m, v, i)
        <4>1. CASE <<v, m>> \in t.staked /\ i = 0
          BY <1>2, <4>1 DEF Title
        <4>2. CASE i \in DOMAIN t.claims[v] /\ t.claims[v][i].what = m
          <5>1. CASE t.claims[v] = s.claims[v]
            BY <4>2, <5>1 DEF Title
          <5>2. CASE v = u /\ s.duration # {} /\ t.claims[v] = new
            <6>1. i \in DOMAIN old
              BY <1>4, <2>2, <4>2, <5>2 DEF Range
            <6> QED BY <1>4, <4>2, <5>2, <6>1 DEF Title, old
          <5> QED BY <1>3, <1>7, <5>1, <5>2
        <4> QED BY <3>2, <4>1, <4>2 DEF Title
      <3> QED BY <2>1, <3>1, <3>2, SafeStays
    <2>3. CASE m \in Range(ids)
      <3>1. Title(s, m, u, 0)
        BY <2>3 DEF CanUnstake, Title
      <3>2. 0 \in Nat
        OBVIOUS
      <3>3. /\ s.owner[m] = Self /\ s.prepared[m] = NoOne
            /\ \A v \in Users : \A i \in Nat : Title(s, m, v, i) => v = u /\ i = 0
        BY <2>1, <3>1, <3>2 DEF NftSafe
      <3>4. \A v \in Users : <<v, m>> \notin t.staked
        <4> SUFFICES ASSUME NEW v \in Users, <<v, m>> \in t.staked PROVE FALSE
          OBVIOUS
        <4>1. <<v, m>> \in s.staked /\ v # u
          BY <1>2, <2>3
        <4>2. Title(s, m, v, 0)
          BY <4>1 DEF Title
        <4> QED BY <3>2, <3>3, <4>1, <4>2
      <3>5. \A v \in Users : \A i \in DOMAIN s.claims[v] : s.claims[v][i].what # m
        <4> SUFFICES ASSUME NEW v \in Users, NEW i \in DOMAIN s.claims[v], s.claims[v][i].what = m
                     PROVE  FALSE
          OBVIOUS
        <4>1. Title(s, m, v, i)
          BY DEF Title
        <4>2. i \in Nat /\ i # 0
          BY <1>1, TitleOf
        <4> QED BY <3>3, <4>1, <4>2
      <3>6. CASE s.duration = {}
        <4>1. ASSUME NEW v \in Users, NEW i \in Nat PROVE ~Title(t, m, v, i)
          BY <1>3, <3>4, <3>5, <3>6 DEF Title
        <4> QED BY <4>1, SafeFree
      <3>7. CASE s.duration # {}
        <4>1. PICK k \in DOMAIN ids : ids[k] = m
          BY <2>3 DEF Range
        <4> DEFINE p == Len(old) + k
        <4>2. p \in Nat /\ k \in Nat
          BY <1>6
        <4>3. t.owner[m] = Self /\ t.prepared[m] = NoOne
          BY <1>2, <1>3, <3>3, <3>7
        <4>4. ASSUME NEW v \in Users, NEW j \in Nat, Title(t, m, v, j) PROVE v = u /\ j = p
          <5>1. j \in DOMAIN t.claims[v] /\ t.claims[v][j].what = m
            BY <3>4, <4>4 DEF Title
          <5>2. v = u /\ t.claims[v] = new
            BY <1>3, <1>7, <3>5, <3>7, <5>1
          <5>3. j \notin DOMAIN old
            BY <1>4, <3>5, <3>7, <5>1, <5>2 DEF old
          <5>4. j - Len(old) \in DOMAIN ids /\ ids[j - Len(old)] = m
            BY <1>4, <3>7, <5>1, <5>2, <5>3
          <5>5. j - Len(old) = k
            BY <4>1, <5>4 DEF CanUnstake
          <5>6. j = Len(old) + k
            BY <1>6, <4>2, <5>5
          <5> QED BY <5>2, <5>6
        <4> HIDE DEF p
        <4>5. \A v \in Users : \A j \in Nat : Title(t, m, v, j) => v = u /\ j = p
          BY <4>4
        <4> QED BY <4>3, <4>5 DEF NftSafe
      <3> QED BY <3>6, <3>7
    <2> QED BY <2>2, <2>3
  <1>9. \A v \in Users : PowerFits(s, t, v)
    BY UnstakedPower
  <1>10. /\ \A m \in Nfts \ t.recalled : NftSafe(t, m)
         /\ t.kind = "cw721" => t.recalled = {} /\ \A m \in Nfts : t.prepared[m] = NoOne
    BY <1>2, <1>8 DEF NftInv
  <1>11. \A v \in Users : Cardinality(StakedBy(t, v)) <= t.power[v].now
    BY <1>9 DEF NftInv, PowerFits
  <1>12. t.kind = "cw721" => \A v \in Users : Cardinality(StakedBy(t, v)) = t.power[v].now
    BY <1>2, <1>9 DEF NftInv, PowerFits
  <1> QED BY <1>5, <1>10, <1>11, <1>12 DEF NftInv

\* Confirming a stake.
LEMMA ConfirmKeeps ==
    ASSUME NEW s, NEW t, NEW n, StakeInv(s, n), NftInv(s), s.kind = "onft", NEW u \in Users,
           NEW ids \in Seq(Nfts), Moved(s, t, n, u, Len(ids)),
           \A m \in Range(ids) : s.prepared[m] = u /\ s.owner[m] = Self,
           SameRest([s EXCEPT !.prepared = Owners(s.prepared, Range(ids), NoOne),
                              !.staked = @ \cup ({u} \X Range(ids))], t)
    PROVE  NftInv(t)
  <1>1. DOMAIN s = Fields /\ NftTypes(s) /\ Range(ids) \subseteq Nfts
    BY DEF StakeInv, NftInv, Range
  <1>2. /\ t.staked = s.staked \cup ({u} \X Range(ids)) /\ t.owner = s.owner
        /\ t.prepared = Owners(s.prepared, Range(ids), NoOne)
        /\ t.claims = s.claims /\ t.duration = s.duration
        /\ t.recalled = s.recalled /\ t.kind = s.kind
    <2> DEFINE o == Owners(s.prepared, Range(ids), NoOne)
               S == s.staked \cup ({u} \X Range(ids))
    <2>1. SameRest([s EXCEPT !.prepared = o, !.staked = S], t)
      OBVIOUS
    <2> HIDE DEF o, S
    <2>2. /\ t.staked = S /\ t.owner = s.owner /\ t.prepared = o /\ t.claims = s.claims
          /\ t.duration = s.duration /\ t.recalled = s.recalled /\ t.kind = s.kind
      BY <1>1, <2>1 DEF SameRest, Fields
    <2> QED BY <2>2 DEF o, S
  <1>3. NftTypes(t)
    <2>1. t.prepared \in [Nfts -> Users \cup {NoOne}]
      BY <1>1, <1>2 DEF NftTypes, Owners
    <2>2. t.staked \subseteq Users \X Nfts
      BY <1>1, <1>2 DEF NftTypes
    <2> QED BY <1>1, <1>2, <2>1, <2>2 DEF NftTypes
  <1>4. u # NoOne
    BY StakedAssumption
  <1>5. ASSUME NEW m \in Nfts \ s.recalled PROVE NftSafe(t, m)
    <2>1. NftSafe(s, m)
      BY DEF NftInv
    <2>2. CASE m \notin Range(ids)
      <3>1. t.owner[m] = s.owner[m] /\ t.prepared[m] = s.prepared[m]
        BY <1>2, <2>2 DEF Owners
      <3>2. ASSUME NEW v \in Users, NEW i \in Nat, Title(t, m, v, i) PROVE Title(s, m, v, i)
        BY <1>2, <2>2, <3>2 DEF Title
      <3> QED BY <2>1, <3>1, <3>2, SafeStays
    <2>3. CASE m \in Range(ids)
      <3>1. t.owner[m] = Self /\ t.prepared[m] = NoOne
        BY <1>2, <2>3 DEF Owners
      <3>2. \A v \in Users : \A i \in Nat : ~Title(s, m, v, i)
        BY <1>4, <2>1, <2>3, NoTitle
      <3>3. ASSUME NEW v \in Users, NEW j \in Nat, Title(t, m, v, j) PROVE v = u /\ j = 0
        BY <1>2, <3>2, <3>3 DEF Title
      <3> QED BY <3>1, <3>3, SafeOne
    <2> QED BY <2>2, <2>3
  <1>6. /\ t.power[u].now = s.power[u].now + Len(ids) /\ s.power[u].now \in Nat
        /\ \A v \in Users \ {u} : t.power[v] = s.power[v]
    <2> DEFINE d == Len(ids)
    <2>1. d \in Int /\ Moved(s, t, n, u, d)
      OBVIOUS
    <2> HIDE DEF d
    <2>2. PowerMoved(s, t, u, d)
      BY <2>1, MovedPower
    <2> QED BY <2>2 DEF d, PowerMoved
  <1>7. ASSUME NEW v \in Users PROVE Cardinality(StakedBy(t, v)) <= t.power[v].now
    <2>1. Cardinality(StakedBy(s, v)) <= s.power[v].now
      BY DEF NftInv
    <2>2. CASE v # u
      <3>1. StakedBy(t, v) = StakedBy(s, v)
        BY <1>2, <2>2 DEF StakedBy
      <3> QED BY <1>6, <2>1, <2>2, <3>1
    <2>3. CASE v = u
      <3> DEFINE A == StakedBy(s, u)
                 R == Range(ids)
      <3>1. StakedBy(t, v) = A \cup R
        BY <1>1, <1>2, <2>3 DEF StakedBy
      <3>2. IsFiniteSet(A) /\ Cardinality(A) \in Nat
        BY StakedFinite
      <3>3. IsFiniteSet(R) /\ Cardinality(R) \in Nat /\ Cardinality(R) <= Len(ids)
        BY ListSize
      <3> HIDE DEF A, R
      <3>4. Cardinality(A \cup R) = Cardinality(A) + Cardinality(R) - Cardinality(A \cap R)
        BY <3>2, <3>3, FS_Union
      <3>5. IsFiniteSet(A \cap R)
        BY <3>2, FS_Intersection
      <3>6. Cardinality(A \cap R) \in Nat
        BY <3>5, FS_CardinalityType
      <3>7. Cardinality(A) <= s.power[u].now
        BY <2>1, <2>3 DEF A
      <3>8. Len(ids) \in Nat
        OBVIOUS
      <3> QED BY <1>6, <2>3, <3>1, <3>2, <3>3, <3>4, <3>6, <3>7, <3>8
    <2> QED BY <2>2, <2>3
  <1> QED BY <1>2, <1>3, <1>5, <1>7 DEF NftInv

\* Preparing a stake.
LEMMA PrepareKeeps ==
    ASSUME NEW s, NEW t, DOMAIN s = Fields, NftInv(s), s.kind = "onft", NEW u \in Users,
           NEW ids \in Seq(Nfts), \A m \in Range(ids) : s.owner[m] = u,
           t = [s EXCEPT !.prepared = Owners(s.prepared, Range(ids), u)]
    PROVE  NftInv(t)
  <1>1. NftTypes(s) /\ Range(ids) \subseteq Nfts
    BY DEF NftInv, Range
  <1>2. /\ t.staked = s.staked /\ t.owner = s.owner
        /\ t.prepared = Owners(s.prepared, Range(ids), u)
        /\ t.claims = s.claims /\ t.duration = s.duration
        /\ t.recalled = s.recalled /\ t.kind = s.kind /\ t.power = s.power
    BY DEF Fields
  <1>3. NftTypes(t)
    <2>1. t.prepared \in [Nfts -> Users \cup {NoOne}]
      BY <1>1, <1>2 DEF NftTypes, Owners
    <2> QED BY <1>1, <1>2, <2>1 DEF NftTypes
  <1>4. u # Self
    BY StakingAssumption
  <1>5. ASSUME NEW m \in Nfts \ s.recalled PROVE NftSafe(t, m)
    <2>1. NftSafe(s, m)
      BY DEF NftInv
    <2>2. CASE m \notin Range(ids)
      <3>1. t.owner[m] = s.owner[m] /\ t.prepared[m] = s.prepared[m]
        BY <1>2, <2>2 DEF Owners
      <3>2. ASSUME NEW v \in Users, NEW i \in Nat, Title(t, m, v, i) PROVE Title(s, m, v, i)
        BY <1>2, <3>2 DEF Title
      <3> QED BY <2>1, <3>1, <3>2, SafeStays
    <2>3. CASE m \in Range(ids)
      <3>1. \A v \in Users : \A i \in Nat : ~Title(s, m, v, i)
        BY <1>4, <2>1, <2>3, NoTitle
      <3>2. \A v \in Users : \A i \in Nat : ~Title(t, m, v, i)
        BY <1>2, <3>1 DEF Title
      <3> QED BY <3>2, SafeFree
    <2> QED BY <2>2, <2>3
  <1>6. \A v \in Users : StakedBy(t, v) = StakedBy(s, v)
    BY <1>2 DEF StakedBy
  <1> QED BY <1>2, <1>3, <1>5, <1>6 DEF NftInv

\* A plain transfer by the owner.
LEMMA TransferKeeps ==
    ASSUME NEW s, NEW t, DOMAIN s = Fields, NftInv(s), NEW id \in Nfts, s.owner[id] \in Users,
           NEW to \in Users \cup {Self}, t = [s EXCEPT !.owner[id] = to]
    PROVE  NftInv(t)
  <1>1. NftTypes(s)
    BY DEF NftInv
  <1>2. /\ t.staked = s.staked /\ t.owner = [s.owner EXCEPT ![id] = to]
        /\ t.prepared = s.prepared /\ t.claims = s.claims /\ t.duration = s.duration
        /\ t.recalled = s.recalled /\ t.kind = s.kind /\ t.power = s.power
    BY DEF Fields
  <1>3. NftTypes(t)
    BY <1>1, <1>2 DEF NftTypes, Holders
  <1>4. s.owner[id] # Self
    BY StakingAssumption
  <1>5. ASSUME NEW m \in Nfts \ s.recalled PROVE NftSafe(t, m)
    <2>1. NftSafe(s, m)
      BY DEF NftInv
    <2>2. \A v \in Users : \A i \in Nat : Title(t, m, v, i) => Title(s, m, v, i)
      BY <1>2 DEF Title
    <2>3. CASE m # id
      <3>1. t.owner[m] = s.owner[m] /\ t.prepared[m] = s.prepared[m]
        BY <1>1, <1>2, <2>3 DEF NftTypes
      <3> QED BY <2>1, <2>2, <3>1, SafeStays
    <2>4. CASE m = id
      <3>1. \A v \in Users : \A i \in Nat : ~Title(s, m, v, i)
        BY <1>4, <2>1, <2>4, NoTitle
      <3>2. \A v \in Users : \A i \in Nat : ~Title(t, m, v, i)
        BY <2>2, <3>1
      <3> QED BY <3>2, SafeFree
    <2> QED BY <2>3, <2>4
  <1>6. \A v \in Users : StakedBy(t, v) = StakedBy(s, v)
    BY <1>2 DEF StakedBy
  <1> QED BY <1>2, <1>3, <1>5, <1>6 DEF NftInv

\* Cancelling a stake: users get back what they prepared and did not confirm; what the
\* DAO takes is recalled.
LEMMA CancelKeeps ==
    ASSUME NEW s, NEW t, DOMAIN s = Fields, NftInv(s), s.kind = "onft", NEW who,
           who \in Users \cup {Dao}, NEW ids \in Seq(Nfts), NEW recipient \in SUBSET Users,
           Cancelled(s, t, who, ids, recipient)
    PROVE  NftInv(t)
  <1>1. NftTypes(s) /\ Range(ids) \subseteq Nfts
    BY DEF NftInv, Range
  <1> DEFINE held == {m \in Range(ids) : s.owner[m] = Self}
             Rec(m) == Receiver(s, who, recipient, m)
             o == [m \in Nfts |-> IF m \in held THEN Rec(m) ELSE s.owner[m]]
             k == IF who = Dao THEN s.recalled \cup held ELSE s.recalled
             p == Owners(s.prepared, Range(ids), NoOne)
  <1>2. /\ t = [s EXCEPT !.owner = o, !.prepared = p, !.recalled = k]
        /\ \A m \in held : Rec(m) # NoOne
        /\ who # Dao => \A m \in Range(ids) : who \in {s.owner[m], s.prepared[m]}
    BY Zenon DEF Cancelled
  <1>3. \A m \in held : Rec(m) \in Users
    <2> SUFFICES ASSUME NEW m \in held PROVE Rec(m) \in Users
      OBVIOUS
    <2>1. CASE who = Dao /\ recipient # {}
      <3>1. Rec(m) = CHOOSE r \in recipient : TRUE
        BY <2>1 DEF Receiver
      <3> QED BY <2>1, <3>1
    <2>2. CASE ~(who = Dao /\ recipient # {})
      <3>1. Rec(m) = s.prepared[m] /\ Rec(m) # NoOne
        BY <1>2, <2>2 DEF Receiver
      <3> QED BY <1>1, <3>1 DEF NftTypes
    <2> QED BY <2>1, <2>2
  <1>4. o \in [Nfts -> Holders]
    BY <1>1, <1>3 DEF NftTypes, Holders
  <1>5. /\ \A m \in Nfts \ held : o[m] = s.owner[m]
        /\ s.recalled \subseteq k /\ (who = Dao => held \subseteq k)
    OBVIOUS
  <1> HIDE DEF o, k, Rec
  <1>6. /\ t.staked = s.staked /\ t.owner = o /\ t.prepared = p /\ t.claims = s.claims
        /\ t.duration = s.duration /\ t.recalled = k /\ t.kind = s.kind /\ t.power = s.power
    <2> HIDE DEF p
    <2> QED BY <1>2 DEF Fields
  <1>7. NftTypes(t)
    <2>1. t.prepared \in [Nfts -> Users \cup {NoOne}]
      BY <1>1, <1>6 DEF NftTypes, Owners
    <2> QED BY <1>1, <1>4, <1>6, <2>1 DEF NftTypes
  <1>8. ASSUME NEW m \in Nfts \ k PROVE NftSafe(t, m)
    <2>1. NftSafe(s, m)
      BY <1>5 DEF NftInv
    <2>2. \A v \in Users : \A i \in Nat : Title(t, m, v, i) => Title(s, m, v, i)
      BY <1>6 DEF Title
    <2>3. CASE m \notin held
      <3>1. t.owner[m] = s.owner[m] /\ t.prepared[m] \in {s.prepared[m], NoOne}
        BY <1>5, <1>6, <2>3 DEF Owners
      <3> QED BY <2>1, <2>2, <3>1, SafeStays
    <2>4. CASE m \in held
      <3>1. who # Dao /\ who \in Users
        BY <1>5, <2>4
      <3>2. who # Self /\ who # NoOne
        BY <3>1, StakingAssumption, StakedAssumption
      <3>3. s.prepared[m] # NoOne
        BY <1>2, <2>4, <3>1, <3>2
      <3>4. \A v \in Users : \A i \in Nat : ~Title(s, m, v, i)
        BY <2>1, <3>3, NoTitle
      <3>5. \A v \in Users : \A i \in Nat : ~Title(t, m, v, i)
        BY <2>2, <3>4
      <3> QED BY <3>5, SafeFree
    <2> QED BY <2>3, <2>4
  <1>9. \A v \in Users : StakedBy(t, v) = StakedBy(s, v)
    BY <1>6 DEF StakedBy
  <1> QED BY <1>6, <1>7, <1>8, <1>9 DEF NftInv

\* The picked claims are those of the positions f yields, all different.
PickedBy(picked, claims, S, f) ==
    /\ f \in [DOMAIN picked -> S]
    /\ \A i, j \in DOMAIN picked : f[i] = f[j] => i = j
    /\ \A i \in DOMAIN picked : picked[i] = claims[f[i]]

\* Mature and waiting claims come from positions of their own.
LEMMA ClaimsSplit ==
    ASSUME NEW T, NEW claims \in Seq(T), NEW n
    PROVE  /\ Mature(claims, n) \in Seq(T) /\ Waiting(claims, n) \in Seq(T)
           /\ \E f : PickedBy(Mature(claims, n), claims,
                              {i \in DOMAIN claims : claims[i].release_at <= n}, f)
           /\ \E f : PickedBy(Waiting(claims, n), claims,
                              {i \in DOMAIN claims : claims[i].release_at > n}, f)
  <1> DEFINE M == {i \in DOMAIN claims : claims[i].release_at <= n}
             W == {i \in DOMAIN claims : claims[i].release_at > n}
  <1>1. M \in SUBSET DOMAIN claims /\ W \in SUBSET DOMAIN claims
    OBVIOUS
  <1> HIDE DEF M, W
  <1>2. Picked(claims, M) \in Seq(T) /\ \E f : PickedBy(Picked(claims, M), claims, M, f)
    BY <1>1, PickedFrom DEF PickedBy
  <1>3. Picked(claims, W) \in Seq(T) /\ \E f : PickedBy(Picked(claims, W), claims, W, f)
    BY <1>1, PickedFrom DEF PickedBy
  <1>4. Mature(claims, n) = Picked(claims, M) /\ Waiting(claims, n) = Picked(claims, W)
    BY DEF Mature, Waiting, M, W
  <1> QED BY <1>2, <1>3, <1>4 DEF M, W

\* Claiming NFTs.
LEMMA ClaimNftsKeeps ==
    ASSUME NEW s, NEW t, DOMAIN s = Fields, NftInv(s), NEW n \in Nat, NEW u \in Users,
           NftsClaimed(s, t, n, u)
    PROVE  NftInv(t)
  <1> DEFINE old == s.claims[u]
             mature == Mature(old, n)
             waiting == Waiting(old, n)
             M == {i \in DOMAIN old : old[i].release_at <= n}
             W == {i \in DOMAIN old : old[i].release_at > n}
             S == Taken(mature)
  <1>1. NftTypes(s)
    BY DEF NftInv
  <1>2. old \in Seq(NftClaims) /\ Len(old) \in Nat /\ DOMAIN old = 1 .. Len(old)
    BY <1>1, TitleOf
  <1>3. M \cap W = {} /\ M \subseteq DOMAIN old /\ W \subseteq DOMAIN old
    <2>1. ASSUME NEW i \in DOMAIN old PROVE old[i].release_at \in Nat
      <3> HIDE DEF old
      <3>1. old[i] \in NftClaims
        BY <1>2
      <3> QED BY <3>1 DEF NftClaims
    <2> QED BY <2>1
  <1>4. /\ mature \in Seq(NftClaims) /\ waiting \in Seq(NftClaims)
        /\ \E f : PickedBy(mature, old, M, f) /\ \E g : PickedBy(waiting, old, W, g)
    <2> HIDE DEF old
    <2> QED BY <1>2, ClaimsSplit
  <1>5. /\ t.owner = Owners(s.owner, S, u) /\ t.claims = [s.claims EXCEPT ![u] = waiting]
        /\ t.staked = s.staked /\ t.prepared = s.prepared /\ t.duration = s.duration
        /\ t.recalled = s.recalled /\ t.kind = s.kind /\ t.power = s.power
    <2> DEFINE o == Owners(s.owner, S, u)
               c == [s.claims EXCEPT ![u] = waiting]
    <2>1. t = [s EXCEPT !.claims = c, !.owner = o]
      BY Zenon DEF NftsClaimed
    <2> HIDE DEF o, c
    <2>2. /\ t.owner = o /\ t.claims = c /\ t.staked = s.staked /\ t.prepared = s.prepared
          /\ t.duration = s.duration /\ t.recalled = s.recalled /\ t.kind = s.kind
          /\ t.power = s.power
      BY <2>1 DEF Fields
    <2> QED BY <2>2 DEF o, c
  <1>6. PICK f : PickedBy(mature, old, M, f)
    BY <1>4
  <1>7. PICK g : PickedBy(waiting, old, W, g)
    BY <1>4
  <1> HIDE DEF mature, waiting, M, W
  <1>8. DOMAIN s.claims = Users /\ DOMAIN waiting = 1 .. Len(waiting) /\ Len(waiting) \in Nat
    BY <1>1, <1>4 DEF NftTypes
  <1>9. /\ t.claims[u] = waiting
        /\ \A v \in Users \ {u} : t.claims[v] = s.claims[v]
    BY <1>5, <1>8
  <1>10. NftTypes(t)
    <2>1. t.owner \in [Nfts -> Holders]
      <3>1. s.owner \in [Nfts -> Holders] /\ u \in Holders
        BY <1>1 DEF NftTypes, Holders
      <3> HIDE DEF S
      <3> QED BY <1>5, <3>1 DEF Owners
    <2>2. t.claims \in [Users -> Seq(NftClaims)]
      BY <1>1, <1>4, <1>5 DEF NftTypes
    <2> QED BY <1>1, <1>5, <2>1, <2>2 DEF NftTypes
  <1>11. ASSUME NEW m, NEW v \in Users, NEW i \in Nat, Title(t, m, v, i)
         PROVE  \/ Title(s, m, v, i) /\ (v # u \/ i = 0)
                \/ /\ v = u /\ i \in DOMAIN waiting
                   /\ g[i] \in W /\ g[i] \in Nat /\ g[i] # 0 /\ Title(s, m, u, g[i])
    <2>1. CASE i = 0 /\ <<v, m>> \in t.staked
      BY <1>5, <2>1 DEF Title
    <2>2. CASE v # u /\ i \in DOMAIN t.claims[v] /\ t.claims[v][i].what = m
      BY <1>9, <2>2 DEF Title
    <2>3. CASE v = u /\ i \in DOMAIN t.claims[v] /\ t.claims[v][i].what = m
      <3>1. i \in DOMAIN waiting /\ waiting[i].what = m
        BY <1>9, <2>3
      <3>2. g[i] \in W /\ waiting[i] = old[g[i]]
        BY <1>7, <3>1 DEF PickedBy
      <3>3. g[i] \in DOMAIN old /\ g[i] \in Nat /\ g[i] # 0
        BY <1>2, <1>3, <3>2
      <3>4. Title(s, m, u, g[i])
        BY <3>1, <3>2, <3>3 DEF Title
      <3> QED BY <2>3, <3>1, <3>2, <3>3, <3>4
    <2> QED BY <1>11, <2>1, <2>2, <2>3 DEF Title
  <1>12. ASSUME NEW m \in Nfts \ s.recalled PROVE NftSafe(t, m)
    <2>1. NftSafe(s, m)
      BY DEF NftInv
    <2>2. CASE m \in S
      <3>1. PICK k \in DOMAIN mature : mature[k].what = m
        BY <2>2 DEF Taken
      <3>2. f[k] \in M /\ mature[k] = old[f[k]]
        BY <1>6 DEF PickedBy
      <3>3. f[k] \in DOMAIN old /\ f[k] \in Nat /\ f[k] # 0
        BY <1>2, <1>3, <3>2
      <3>4. Title(s, m, u, f[k])
        BY <3>1, <3>2, <3>3 DEF Title
      <3>5. \A v \in Users : \A i \in Nat : Title(s, m, v, i) => v = u /\ i = f[k]
        BY <2>1, <3>3, <3>4 DEF NftSafe
      <3>6. ASSUME NEW v \in Users, NEW i \in Nat, Title(t, m, v, i) PROVE FALSE
        <4>1. CASE Title(s, m, v, i) /\ (v # u \/ i = 0)
          BY <3>3, <3>5, <4>1
        <4>2. CASE g[i] \in W /\ g[i] \in Nat /\ Title(s, m, u, g[i])
          <5>1. g[i] = f[k]
            BY <3>5, <4>2
          <5> QED BY <1>3, <3>2, <4>2, <5>1
        <4> QED BY <1>11, <3>6, <4>1, <4>2
      <3> QED BY <3>6, SafeFree
    <2>3. CASE m \notin S
      <3>1. t.owner[m] = s.owner[m] /\ t.prepared[m] = s.prepared[m]
        <4> HIDE DEF S
        <4> QED BY <1>5, <2>3 DEF Owners
      <3>2. ASSUME NEW v \in Users, NEW w \in Users, NEW i \in Nat, NEW j \in Nat,
                   Title(t, m, v, i), Title(t, m, w, j)
            PROVE  v = w /\ i = j
        <4>1. \/ Title(s, m, v, i) /\ (v # u \/ i = 0)
              \/ /\ v = u /\ i \in DOMAIN waiting
                 /\ g[i] \in Nat /\ g[i] # 0 /\ Title(s, m, u, g[i])
          BY <1>11, <3>2
        <4>2. \/ Title(s, m, w, j) /\ (w # u \/ j = 0)
              \/ /\ w = u /\ j \in DOMAIN waiting
                 /\ g[j] \in Nat /\ g[j] # 0 /\ Title(s, m, u, g[j])
          BY <1>11, <3>2
        <4>3. \A x, y \in Users : \A a, b \in Nat :
                  Title(s, m, x, a) /\ Title(s, m, y, b) => x = y /\ a = b
          BY <2>1 DEF NftSafe
        <4>4. \A a, b \in DOMAIN waiting : g[a] = g[b] => a = b
          BY <1>7 DEF PickedBy
        <4> QED BY <4>1, <4>2, <4>3, <4>4
      <3>3. ASSUME NEW v \in Users, NEW i \in Nat, Title(t, m, v, i)
            PROVE  t.owner[m] = Self /\ t.prepared[m] = NoOne
        BY <1>11, <2>1, <3>1, <3>3 DEF NftSafe
      <3> QED BY <3>2, <3>3 DEF NftSafe
    <2> QED BY <2>2, <2>3
  <1>13. \A v \in Users : StakedBy(t, v) = StakedBy(s, v)
    BY <1>5 DEF StakedBy
  <1> QED BY <1>5, <1>10, <1>12, <1>13 DEF NftInv

\* A handler that touches neither NFTs nor claims.
LEMMA OtherKeeps ==
    ASSUME NEW s, NEW t, NftInv(s), t.owner = s.owner, t.staked = s.staked, t.claims = s.claims,
           t.prepared = s.prepared, t.recalled = s.recalled, t.kind = s.kind, t.power = s.power,
           t.duration \in SUBSET Nat
    PROVE  NftInv(t)
  <1>1. NftTypes(t)
    BY DEF NftInv, NftTypes
  <1>2. ASSUME NEW m \in Nfts \ s.recalled PROVE NftSafe(t, m)
    <2>1. NftSafe(s, m)
      BY DEF NftInv
    <2>2. \A v \in Users : \A i \in Nat : Title(t, m, v, i) => Title(s, m, v, i)
      BY DEF Title
    <2> QED BY <2>1, <2>2, SafeStays
  <1>3. \A v \in Users : StakedBy(t, v) = StakedBy(s, v)
    BY DEF StakedBy
  <1> QED BY <1>1, <1>2, <1>3 DEF NftInv

IsNft == store.kind \in {"cw721", "onft"}

\* Every handler of the NFT modules keeps the invariant.
LEMMA NftStep ==
    ASSUME SInv, IsNft, NftInv(store), Next
    PROVE  NftInv(store')
  <1>1. /\ height \in Nat /\ StakeInv(store, height) /\ DOMAIN store = Fields
        /\ kind \in {"cw721", "onft"} /\ store.duration \in SUBSET Nat
    BY DEF SInv, StakeInv, IsNft, kind, NftInv, NftTypes
  <1>2. ASSUME NEW u \in Users, NEW n \in Nfts, StakeNft(u, n) PROVE NftInv(store')
    <2>1. store.kind = "cw721"
      BY <1>2 DEF StakeNft, kind
    <2>2. /\ Moved(store, store', height, u, 1) /\ store.owner[n] = u
          /\ SameRest([store EXCEPT !.owner[n] = Self, !.staked = @ \cup {<<u, n>>}], store')
      BY <1>1, <1>2, StakeNftSteps
    <2> QED BY <1>1, <2>1, <2>2, StakeNftKeeps
  <1>3. ASSUME NEW u \in Users, NEW ids \in Lists, PrepareStake(u, ids) PROVE NftInv(store')
    <2>1. store.kind = "onft" /\ store' \in ON!execute_prepare_stake(store, u, ids)
      BY <1>3 DEF PrepareStake, Becomes, kind
    <2>2. /\ \A m \in Range(ids) : store.owner[m] = u
          /\ store' = [store EXCEPT !.prepared = Owners(store.prepared, Range(ids), u)]
      BY <2>1, OnftPrepare
    <2>3. ids \in Seq(Nfts)
      BY StakedAssumption
    <2> QED BY <1>1, <2>1, <2>2, <2>3, PrepareKeeps
  <1>4. ASSUME NEW u \in Users, NEW ids \in Lists, ConfirmStake(u, ids) PROVE NftInv(store')
    <2>1. store.kind = "onft" /\ ids \in Seq(Nfts)
      BY <1>4, StakedAssumption DEF ConfirmStake, kind
    <2>2. /\ Moved(store, store', height, u, Len(ids))
          /\ \A m \in Range(ids) : store.prepared[m] = u /\ store.owner[m] = Self
          /\ SameRest([store EXCEPT !.prepared = Owners(store.prepared, Range(ids), NoOne),
                                    !.staked = @ \cup ({u} \X Range(ids))], store')
      BY <1>1, <1>4, ConfirmSteps
    <2> QED BY <1>1, <2>1, <2>2, ConfirmKeeps
  <1>5. ASSUME NEW u \in Users, NEW ids \in Lists, UnstakeNfts(u, ids) PROVE NftInv(store')
    <2>1. ids \in Seq(Nfts)
      BY StakedAssumption
    <2>2. /\ Moved(store, store', height, u, -Len(ids))
          /\ CanUnstake(store, u, ids) /\ Unstaked(store, store', height, u, ids)
      BY <1>1, <1>5, UnstakeNftSteps
    <2> QED BY <1>1, <2>1, <2>2, UnstakeNftsKeep
  <1>6. ASSUME NEW n \in Nfts, NEW to \in Users \cup {Self}, TransferNft(n, to)
        PROVE  NftInv(store')
    <2>1. store.owner[n] \in Users /\ store' = [store EXCEPT !.owner[n] = to]
      BY <1>6 DEF TransferNft, Becomes
    <2> QED BY <1>1, <2>1, TransferKeeps
  <1>7. ASSUME NEW who \in Users \cup {Dao}, NEW ids \in Lists, NEW recipient \in SUBSET Users,
               CancelStake(who, ids, recipient)
        PROVE  NftInv(store')
    <2>1. /\ store.kind = "onft" /\ ids \in Seq(Nfts)
          /\ store' \in ON!execute_cancel_stake(store, who, ids, recipient)
      BY <1>7, StakedAssumption DEF CancelStake, Becomes, kind
    <2>2. Cancelled(store, store', who, ids, recipient)
      BY <1>1, <2>1, OnftCancel
    <2> QED BY <1>1, <2>1, <2>2, CancelKeeps
  <1>8. ASSUME NEW u \in Users, ClaimMature(u) PROVE NftInv(store')
    <2>1. NftsClaimed(store, store', height, u)
      <3>1. CASE kind = "cw721"
        <4>1. store' \in C721!execute_claim_nfts(store, height, u)
          BY <1>8, <3>1 DEF ClaimMature, ClaimResults, Becomes, kind
        <4> QED BY <1>1, <4>1, Cw721Claim
      <3>2. CASE kind = "onft"
        <4>1. store' \in ON!execute_claim_nfts(store, height, u)
          BY <1>8, <3>2 DEF ClaimMature, ClaimResults, Becomes, kind
        <4> QED BY <1>1, <4>1, OnftClaim
      <3> QED BY <1>1, <3>1, <3>2
    <2> QED BY <1>1, <2>1, ClaimNftsKeeps
  <1>9. ASSUME NEW d \in Durations, UpdateConfig(Dao, d) PROVE NftInv(store')
    <2>1. store' = [store EXCEPT !.duration = d] /\ d \in SUBSET Nat
      BY <1>1, <1>9, ConfigSteps, StakedAssumption
    <2>2. /\ store'.owner = store.owner /\ store'.staked = store.staked
          /\ store'.claims = store.claims /\ store'.prepared = store.prepared
          /\ store'.recalled = store.recalled /\ store'.kind = store.kind
          /\ store'.power = store.power /\ store'.duration \in SUBSET Nat
      BY <1>1, <2>1 DEF Fields
    <2> QED BY <2>2, OtherKeeps
  <1>10. ASSUME NEW x, UpdateActiveThreshold(Dao, x) PROVE NftInv(store')
    <2>1. store' = [store EXCEPT !.threshold = x]
      BY <1>1, <1>10, ThresholdSteps
    <2>2. /\ store'.owner = store.owner /\ store'.staked = store.staked
          /\ store'.claims = store.claims /\ store'.prepared = store.prepared
          /\ store'.recalled = store.recalled /\ store'.kind = store.kind
          /\ store'.power = store.power /\ store'.duration \in SUBSET Nat
      BY <1>1, <2>1 DEF Fields
    <2> QED BY <2>2, OtherKeeps
  <1>11. ASSUME AddHook(Dao) \/ RemoveHook(Dao) PROVE NftInv(store')
    <2>1. HookSet(store, store')
      BY <1>1, <1>11, HookSteps
    <2>2. /\ store'.owner = store.owner /\ store'.staked = store.staked
          /\ store'.claims = store.claims /\ store'.prepared = store.prepared
          /\ store'.recalled = store.recalled /\ store'.kind = store.kind
          /\ store'.power = store.power /\ store'.duration \in SUBSET Nat
      BY <1>1, <2>1 DEF HookSet, Fields
    <2> QED BY <2>2, OtherKeeps
  <1>12. CASE NextBlock
    BY <1>12 DEF NextBlock
  <1>13. ASSUME NEW u \in Users, NEW n \in Amounts, Stake(u, n) \/ UnstakeTokens(u, n) \/ Fund(u, n)
         PROVE  FALSE
    BY <1>1, <1>13 DEF Stake, UnstakeTokens, Fund, Becomes
  <1>14. ASSUME NEW ids \in Lists, NEW u \in Users,
                CancelStake(u, ids, {}) \/ CancelStake(Dao, ids, {u}) \/ CancelStake(Dao, ids, {})
         PROVE  NftInv(store')
    <2>1. u \in Users \cup {Dao} /\ Dao \in Users \cup {Dao} /\ {u} \in SUBSET Users
          /\ {} \in SUBSET Users
      OBVIOUS
    <2> QED BY <1>7, <1>14, <2>1
  <1>15. ASSUME NEW ids \in Lists, CancelStake(Dao, ids, {}) PROVE NftInv(store')
    <2>1. Dao \in Users \cup {Dao} /\ {} \in SUBSET Users
      OBVIOUS
    <2> QED BY <1>7, <1>15, <2>1
  <1> QED BY <1>2, <1>3, <1>4, <1>5, <1>6, <1>8, <1>9, <1>10, <1>11, <1>12, <1>13, <1>14,
             <1>15 DEF Next

\* New contracts of the NFT modules.
LEMMA NftNew ==
    ASSUME NEW k \in {"cw721", "onft"}, NEW msg, NEW b, NEW o \in [Nfts -> Holders],
           msg.duration \in SUBSET Nat
    PROVE  NftInv(NewStore(k, msg, b, o))
  <1> DEFINE s == NewStore(k, msg, b, o)
  <1>1. /\ s.kind = k /\ s.owner = o /\ s.staked = {} /\ s.claims = [u \in Users |-> <<>>]
        /\ s.prepared = [n \in Nfts |-> NoOne] /\ s.recalled = {}
        /\ s.duration = msg.duration /\ s.power = [u \in Users |-> Snapshot(0)]
    BY DEF NewStore
  <1> HIDE DEF s
  <1>2. <<>> \in Seq(NftClaims) /\ DOMAIN <<>> = {}
    OBVIOUS
  <1>3. NftTypes(s)
    BY <1>1, <1>2 DEF NftTypes
  <1>4. ASSUME NEW m \in Nfts PROVE NftSafe(s, m)
    <2>1. \A u \in Users : \A i \in Nat : ~Title(s, m, u, i)
      BY <1>1, <1>2 DEF Title
    <2> QED BY <2>1, SafeFree
  <1>5. ASSUME NEW u \in Users PROVE Cardinality(StakedBy(s, u)) = 0 /\ s.power[u].now = 0
    <2>1. StakedBy(s, u) = {}
      BY <1>1 DEF StakedBy
    <2> QED BY <1>1, <2>1, FS_EmptySet DEF Snapshot
  <1>6. NftInv(s)
    BY <1>1, <1>3, <1>4, <1>5 DEF NftInv
  <1> QED BY <1>6 DEF s

NInv == SInv /\ (IsNft => NftInv(store))

LEMMA NftInit == Init => NInv
  <1> SUFFICES ASSUME Init PROVE NInv
    OBVIOUS
  <1>1. SInv
    BY StakesInit
  <1>2. \A k, msg, b, o : NewStore(k, msg, b, o).kind = k
    BY DEF NewStore
  <1>3. ASSUME IsNft PROVE NftInv(store)
    <2>1. CASE \E x \in Tokens["cw721"], msg \in Msgs["cw721"] :
                   store = NewStore("cw721", msg, [h \in Holders |-> 0], x)
      <3>1. PICK x \in Tokens["cw721"], msg \in Msgs["cw721"] :
                   store = NewStore("cw721", msg, [h \in Holders |-> 0], x)
        BY <2>1
      <3>2. x \in [Nfts -> Holders] /\ msg.duration \in SUBSET Nat
        BY StakedAssumption
      <3> QED BY <3>1, <3>2, NftNew
    <2>2. CASE \E x \in Tokens["onft"], msg \in Msgs["onft"] :
                   store = NewStore("onft", msg, [h \in Holders |-> 0], x)
      <3>1. PICK x \in Tokens["onft"], msg \in Msgs["onft"] :
                   store = NewStore("onft", msg, [h \in Holders |-> 0], x)
        BY <2>2
      <3>2. x \in [Nfts -> Holders] /\ msg.duration \in SUBSET Nat
        BY StakedAssumption
      <3> QED BY <3>1, <3>2, NftNew
    <2>3. CASE \E x, msg : store = NewStore("token", msg, x, <<>>) \/ store = NewStore("cw20", msg, x, <<>>)
      <3>1. store.kind \in {"token", "cw20"}
        BY <1>2, <2>3
      <3> QED BY <1>3, <3>1 DEF IsNft
    <2> QED BY <2>1, <2>2, <2>3, InitialStore
  <1> QED BY <1>1, <1>3 DEF NInv

LEMMA NftHolds == Spec => []NInv
  <1>1. ASSUME NInv, [Next]_vars PROVE NInv'
    <2>1. SInv /\ SInv' /\ store'.kind = store.kind
      BY <1>1, StakesStep DEF NInv
    <2>2. CASE Next
      BY <1>1, <2>1, <2>2, NftStep DEF NInv, IsNft
    <2>3. CASE UNCHANGED vars
      BY <1>1, <2>1, <2>3 DEF NInv, IsNft, vars
    <2> QED BY <1>1, <2>2, <2>3
  <1>2. NInv /\ [Next]_vars => NInv'
    BY <1>1
  <1> QED BY <1>2, NftInit, PTL DEF Spec

\* A tally may rely on it that the powers of all users add up to the total power, at every
\* height up to the next (SnapshotMap and SnapshotItem, written in register_staked_nfts,
\* execute_stake and execute_unstake), and in the cw721 module a user's power is the number
\* of NFTs the user has staked (register_staked_nft, register_unstaked_nfts).
THEOREM StakesAddUp == Spec => []PowersAddUp
  <1>1. ASSUME NInv PROVE PowersAddUp
    <2>1. /\ SInv /\ height \in Nat \ {0} /\ StakeInv(store, height) /\ PastAddsUp(store, height)
          /\ store.kind \in Kinds
      BY <1>1 DEF NInv, SInv, StakeInv
    <2>2. /\ height \in Nat /\ height + 1 \in Nat /\ height + 1 > height
      BY <2>1
    <2>3. ASSUME NEW h \in 1 .. height + 1
          PROVE  Sum([u \in Users |-> Power(store, u, h)], Users) = TotalPower(store, h)
      <3>1. [u \in Users |-> Power(store, u, h)] = PowersAt(store, h)
        BY <2>1, Queries DEF PowersAt
      <3>2. Sum(PowersAt(store, h), Users) = SumOver(PowersAt(store, h), Users)
        BY DEF Sum, SumOver
      <3>3. SumOver(PowersAt(store, h), Users) = may_load_at_height(store.total, h)
        <4>1. CASE h = height + 1
          BY <2>1, <2>2, <4>1, LoadsNow
        <4>2. CASE h \in 1 .. height
          BY <2>1, <4>2 DEF PastAddsUp
        <4> QED BY <2>2, <4>1, <4>2
      <3> QED BY <2>1, <3>1, <3>2, <3>3, Queries
    <2>4. ASSUME kind = "cw721", NEW u \in Users
          PROVE  Power(store, u, height + 1) = Cardinality({n \in Nfts : <<u, n>> \in store.staked})
      <3>1. Cardinality(StakedBy(store, u)) = store.power[u].now
        BY <1>1, <2>4 DEF NInv, IsNft, NftInv, kind
      <3>2. Power(store, u, height + 1) = store.power[u].now
        BY <2>1, <2>2, LoadsNow, Queries
      <3> QED BY <3>1, <3>2 DEF StakedBy
    <2> QED BY <2>3, <2>4 DEF PowersAddUp
  <1>2. NInv => PowersAddUp
    BY <1>1
  <1> QED BY <1>2, NftHolds, PTL

----------------------------------------------------------------------------
(* Sums of claims *)

TokenClaims == [what : Nat, release_at : Nat]

Whats(claims) == [i \in DOMAIN claims |-> claims[i].what]

\* The sum of claims is a number.
LEMMA AmountIs ==
    ASSUME NEW claims \in Seq(TokenClaims)
    PROVE  /\ Amount(claims) = SumOver(Whats(claims), DOMAIN claims) /\ Amount(claims) \in Nat
           /\ \A i \in DOMAIN claims : /\ Whats(claims)[i] = claims[i].what
                                       /\ claims[i].what \in Nat /\ claims[i].what <= Amount(claims)
  <1>1. Amount(claims) = SumOver(Whats(claims), DOMAIN claims)
    BY DEF Amount, Sum, SumOver, Whats
  <1> DEFINE w == Whats(claims)
             D == DOMAIN claims
  <1>2. Len(claims) \in Nat /\ D = 1 .. Len(claims)
    OBVIOUS
  <1>3. IsFiniteSet(D)
    BY <1>2, FS_Interval
  <1>4. ASSUME NEW i \in D PROVE w[i] = claims[i].what /\ w[i] \in Nat
    <2>1. claims[i] \in TokenClaims
      BY <1>2
    <2> QED BY <2>1 DEF TokenClaims, Whats
  <1> HIDE DEF w, D
  <1>5. SumOver(w, D) \in Nat
    BY <1>3, <1>4, SumNat
  <1>6. \A i \in D : w[i] <= SumOver(w, D)
    BY <1>3, <1>4, SumPart
  <1> QED BY <1>1, <1>4, <1>5, <1>6 DEF w, D

\* One more number in a sum.
LEMMA SumNext ==
    ASSUME NEW n \in Nat, NEW f, \A i \in 1 .. n + 1 : f[i] \in Nat
    PROVE  SumOver(f, 1 .. n + 1) = SumOver(f, 1 .. n) + f[n + 1]
  <1> DEFINE S == 1 .. n + 1
             y == n + 1
  <1>1. IsFiniteSet(S) /\ y \in S /\ S \ {y} = 1 .. n
    BY FS_Interval
  <1>2. \A i \in S : f[i] \in Int
    OBVIOUS
  <1>3. IsFiniteSet(1 .. n)
    BY FS_Interval
  <1>4. SumOver(f, 1 .. n) \in Nat /\ f[y] \in Nat
    BY <1>3, SumNat
  <1> HIDE DEF S, y
  <1>5. SumOver(f, S) = f[y] + SumOver(f, S \ {y})
    BY <1>1, <1>2, SumRemove
  <1>6. SumOver(f, S) = SumOver(f, 1 .. n) + f[y]
    <2> DEFINE a == SumOver(f, 1 .. n)
    <2>1. a \in Nat /\ SumOver(f, S) = f[y] + a
      BY <1>1, <1>4, <1>5
    <2> HIDE DEF a
    <2>2. f[y] + a = a + f[y]
      BY <1>4, <2>1
    <2> QED BY <2>1, <2>2 DEF a
  <1> QED BY <1>6 DEF S, y

\* One more claim.
LEMMA AmountAppend ==
    ASSUME NEW claims \in Seq(TokenClaims), NEW c \in TokenClaims
    PROVE  /\ Append(claims, c) \in Seq(TokenClaims) /\ c.what \in Nat
           /\ Amount(Append(claims, c)) = Amount(claims) + c.what
  <1> DEFINE q == Append(claims, c)
             n == Len(claims)
             f == Whats(q)
             g == Whats(claims)
  <1>1. /\ n \in Nat /\ DOMAIN claims = 1 .. n /\ q \in Seq(TokenClaims) /\ DOMAIN q = 1 .. n + 1
        /\ q[n + 1] = c /\ \A i \in 1 .. n : q[i] = claims[i]
    OBVIOUS
  <1>2. c.what \in Nat
    BY DEF TokenClaims
  <1> HIDE DEF q, n
  <1>3. /\ Amount(q) = SumOver(f, 1 .. n + 1)
        /\ \A i \in 1 .. n + 1 : f[i] = q[i].what /\ f[i] \in Nat
    BY <1>1, AmountIs
  <1>4. /\ Amount(claims) = SumOver(g, 1 .. n)
        /\ \A i \in 1 .. n : g[i] = claims[i].what
    BY <1>1, AmountIs
  <1> HIDE DEF f, g
  <1>5. SumOver(f, 1 .. n + 1) = SumOver(f, 1 .. n) + f[n + 1]
    BY <1>1, <1>3, SumNext
  <1>6. SumOver(f, 1 .. n) = SumOver(g, 1 .. n)
    <2>1. IsFiniteSet(1 .. n)
      BY <1>1, FS_Interval
    <2>2. \A i \in 1 .. n : f[i] = g[i]
      BY <1>1, <1>3, <1>4
    <2> QED BY <2>1, <2>2, SumSame
  <1>7. f[n + 1] = c.what
    BY <1>1, <1>3
  <1>8. Amount(q) = Amount(claims) + c.what
    BY <1>3, <1>4, <1>5, <1>6, <1>7, Zenon
  <1>9. q \in Seq(TokenClaims)
    BY <1>1
  <1> QED BY <1>2, <1>8, <1>9 DEF q

\* The values of a picking.
IsPicking(g, claims, S) ==
    /\ g[0] = <<>>
    /\ \A n \in 0 .. Len(claims) - 1 :
           /\ n + 1 \in S => g[n + 1] = Append(g[n], claims[n + 1])
           /\ n + 1 \notin S => g[n + 1] = g[n]

LEMMA PickingValues ==
    ASSUME NEW claims, NEW S, Len(claims) \in Nat
    PROVE  IsPicking(Picking(claims, S), claims, S)
  <1> DEFINE g == Picking(claims, S)
             L == Len(claims)
  <1>1. Picks(g, claims, S)
    BY PickingExists
  <1> HIDE DEF g
  <1>2. g[0] = <<>>
    BY <1>1 DEF Picks
  <1>3. ASSUME NEW n \in 0 .. L - 1
        PROVE  /\ n + 1 \in S => g[n + 1] = Append(g[n], claims[n + 1])
               /\ n + 1 \notin S => g[n + 1] = g[n]
    <2> DEFINE m == n + 1
    <2>1. m \in 0 .. L /\ m # 0 /\ m - 1 = n
      OBVIOUS
    <2> HIDE DEF m
    <2>2. g[m] = IF m = 0 THEN <<>>
                 ELSE IF m \in S THEN Append(g[m - 1], claims[m]) ELSE g[m - 1]
      BY <1>1, <2>1 DEF Picks
    <2>3. /\ m \in S => g[m] = Append(g[n], claims[m])
          /\ m \notin S => g[m] = g[n]
      BY <2>1, <2>2
    <2> QED BY <2>3 DEF m
  <1> QED BY <1>2, <1>3 DEF g, IsPicking

\* Mature and waiting claims together amount to all of them.
LEMMA AmountSplit ==
    ASSUME NEW claims \in Seq(TokenClaims), NEW n \in Nat
    PROVE  /\ Mature(claims, n) \in Seq(TokenClaims) /\ Waiting(claims, n) \in Seq(TokenClaims)
           /\ Amount(Mature(claims, n)) + Amount(Waiting(claims, n)) = Amount(claims)
  <1> DEFINE M == {i \in DOMAIN claims : claims[i].release_at <= n}
             W == {i \in DOMAIN claims : claims[i].release_at > n}
             g == Picking(claims, M)
             h == Picking(claims, W)
             L == Len(claims)
             f == Whats(claims)
             Adds(k) == /\ g[k] \in Seq(TokenClaims) /\ h[k] \in Seq(TokenClaims)
                        /\ Amount(g[k]) + Amount(h[k]) = SumOver(f, 1 .. k)
             P == {k \in 0 .. L : Adds(k)}
  <1>1. L \in Nat /\ DOMAIN claims = 1 .. L
    OBVIOUS
  <1>2. \A i \in 1 .. L : claims[i] \in TokenClaims /\ f[i] = claims[i].what /\ f[i] \in Nat
    <2> HIDE DEF f
    <2> QED BY <1>1, AmountIs DEF f
  <1>3. \A i \in 1 .. L : (i \in M /\ i \notin W) \/ (i \in W /\ i \notin M)
    <2>1. \A i \in 1 .. L : claims[i].release_at \in Nat
      BY <1>2 DEF TokenClaims
    <2> QED BY <1>1, <2>1
  <1>4. /\ g[0] = <<>> /\ h[0] = <<>>
        /\ \A k \in 0 .. L - 1 :
               /\ k + 1 \in M => g[k + 1] = Append(g[k], claims[k + 1])
               /\ k + 1 \notin M => g[k + 1] = g[k]
               /\ k + 1 \in W => h[k + 1] = Append(h[k], claims[k + 1])
               /\ k + 1 \notin W => h[k + 1] = h[k]
    <2> HIDE DEF M, W
    <2>1. Len(claims) \in Nat
      OBVIOUS
    <2>2. IsPicking(g, claims, M)
      BY <2>1, PickingValues
    <2>3. IsPicking(h, claims, W)
      BY <2>1, PickingValues
    <2> HIDE DEF g, h
    <2> QED BY <2>2, <2>3 DEF IsPicking
  <1>5. Mature(claims, n) = g[L] /\ Waiting(claims, n) = h[L]
    <2>1. Mature(claims, n) = Picked(claims, M) /\ Waiting(claims, n) = Picked(claims, W)
      BY DEF Mature, Waiting
    <2> HIDE DEF M, W
    <2> QED BY <2>1, PickedIs
  <1>6. Amount(claims) = SumOver(f, 1 .. L)
    BY <1>1, AmountIs
  <1> HIDE DEF M, W, g, h, f
  <1>7. 0 \in P
    <2>1. <<>> \in Seq(TokenClaims) /\ DOMAIN <<>> = {}
      OBVIOUS
    <2>2. Amount(<<>>) = 0
      <3>1. Amount(<<>>) = SumOver(Whats(<<>>), {})
        BY <2>1, AmountIs
      <3> QED BY <3>1, SumEmpty
    <2>3. 1 .. 0 = {}
      OBVIOUS
    <2>4. SumOver(f, 1 .. 0) = 0
      BY <2>3, SumEmpty
    <2>5. Adds(0)
      BY <1>4, <2>1, <2>2, <2>4
    <2> HIDE DEF Adds
    <2> QED BY <1>1, <2>5
  <1>8. ASSUME NEW k \in 0 .. L - 1, k \in P PROVE k + 1 \in P
    <2> DEFINE c == claims[k + 1]
    <2>1. k \in Nat /\ k + 1 \in 1 .. L /\ k + 1 \in 0 .. L
      BY <1>1
    <2>2. c \in TokenClaims /\ f[k + 1] = c.what /\ c.what \in Nat
      BY <1>2, <2>1
    <2>3. SumOver(f, 1 .. k + 1) = SumOver(f, 1 .. k) + f[k + 1]
      <3>1. \A i \in 1 .. k + 1 : f[i] \in Nat
        BY <1>1, <1>2, <2>1
      <3> QED BY <2>1, <3>1, SumNext
    <2>4. Adds(k)
      BY <1>8
    <2>5. Amount(g[k]) \in Nat /\ Amount(h[k]) \in Nat
      BY <2>4, AmountIs
    <2> HIDE DEF c
    <2>6. CASE k + 1 \in M /\ k + 1 \notin W
      <3>1. g[k + 1] = Append(g[k], c) /\ h[k + 1] = h[k]
        BY <1>4, <2>6 DEF c
      <3>2. /\ Append(g[k], c) \in Seq(TokenClaims)
            /\ Amount(Append(g[k], c)) = Amount(g[k]) + c.what
        BY <2>2, <2>4, AmountAppend
      <3>3. Adds(k + 1)
        BY <2>2, <2>3, <2>4, <2>5, <3>1, <3>2
      <3> QED BY <2>1, <3>3
    <2>7. CASE k + 1 \in W /\ k + 1 \notin M
      <3>1. h[k + 1] = Append(h[k], c) /\ g[k + 1] = g[k]
        BY <1>4, <2>7 DEF c
      <3>2. /\ Append(h[k], c) \in Seq(TokenClaims)
            /\ Amount(Append(h[k], c)) = Amount(h[k]) + c.what
        BY <2>2, <2>4, AmountAppend
      <3>3. Adds(k + 1)
        BY <2>2, <2>3, <2>4, <2>5, <3>1, <3>2
      <3> QED BY <2>1, <3>3
    <2> QED BY <1>3, <2>1, <2>6, <2>7
  <1>9. \A k \in 0 .. L : k \in P
    <2> HIDE DEF P
    <2> QED BY <1>1, <1>7, <1>8, InductionUpTo
  <1>10. Adds(L)
    BY <1>1, <1>9
  <1> QED BY <1>5, <1>6, <1>10

----------------------------------------------------------------------------
(* Tokens *)

\* Claiming is the same in both contracts of tokens.
LEMMA SumOperators ==
    /\ \A f, S : TS!Sum(f, S) = Sum(f, S)
    /\ \A f, S : C20!Sum(f, S) = Sum(f, S)
  BY Zenon DEF Sum, TS!Sum, C20!Sum, MapThenSumSet, TS!MapThenSumSet, C20!MapThenSumSet,
         MapThenFoldSet, TS!MapThenFoldSet, C20!MapThenFoldSet

LEMMA ClaimOperators ==
    /\ \A s, n, u : TS!execute_claim(s, n, u) = Claimed(s, n, u)
    /\ \A s, n, u : C20!execute_claim(s, n, u) = Claimed(s, n, u)
  <1>1. \A c : TS!Amount(c) = Amount(c) /\ C20!Amount(c) = Amount(c)
    BY SumOperators DEF Amount, TS!Amount, C20!Amount
  <1>2. \A c, n : /\ TS!Mature(c, n) = Mature(c, n) /\ TS!Waiting(c, n) = Waiting(c, n)
                  /\ C20!Mature(c, n) = Mature(c, n) /\ C20!Waiting(c, n) = Waiting(c, n)
    BY Zenon DEF Mature, TS!Mature, C20!Mature, Waiting, TS!Waiting, C20!Waiting,
                 Picked, TS!Picked, C20!Picked
  <1>3. ASSUME NEW s, NEW n, NEW u PROVE TS!execute_claim(s, n, u) = Claimed(s, n, u)
    <2> DEFINE R == TS!Amount(TS!Mature(s.claims[u], n))
               W == TS!Waiting(s.claims[u], n)
               Q == Amount(Mature(s.claims[u], n))
               V == Waiting(s.claims[u], n)
               E(a, c) == [s EXCEPT !.claims[u] = c, !.bank = Pay(@, Self, u, a)]
               G(a) == a # 0 /\ a <= s.bank[Self]
    <2>1. R = Q /\ W = V
      BY <1>1, <1>2
    <2>2. TS!execute_claim(s, n, u) = Ok(G(R), E(R, W))
      BY DEF TS!execute_claim, TS!Claimed, TS!Ok, Ok, TS!Pay, Pay
    <2>3. Claimed(s, n, u) = Ok(G(Q), E(Q, V))
      BY DEF Claimed, Ok, Pay
    <2> HIDE DEF R, W, Q, V, E, G
    <2> QED BY <2>1, <2>2, <2>3
  <1>4. ASSUME NEW s, NEW n, NEW u PROVE C20!execute_claim(s, n, u) = Claimed(s, n, u)
    <2> DEFINE R == C20!Amount(C20!Mature(s.claims[u], n))
               W == C20!Waiting(s.claims[u], n)
               Q == Amount(Mature(s.claims[u], n))
               V == Waiting(s.claims[u], n)
               E(a, c) == [s EXCEPT !.claims[u] = c, !.bank = Pay(@, Self, u, a)]
               G(a) == a # 0 /\ a <= s.bank[Self]
    <2>1. R = Q /\ W = V
      BY <1>1, <1>2
    <2>2. C20!execute_claim(s, n, u) = Ok(G(R), E(R, W))
      BY DEF C20!execute_claim, C20!Claimed, C20!Ok, Ok, C20!Pay, Pay
    <2>3. Claimed(s, n, u) = Ok(G(Q), E(Q, V))
      BY DEF Claimed, Ok, Pay
    <2> HIDE DEF R, W, Q, V, E, G
    <2> QED BY <2>1, <2>2, <2>3
  <1> QED BY <1>3, <1>4

TokenTypes(s) ==
    /\ s.bank \in [Holders -> Nat] /\ s.claims \in [Users -> Seq(TokenClaims)]
    /\ s.duration \in SUBSET Nat /\ s.recalled = {}

\* What the stakers own together.
Stakes(s) == IF s.kind = "token" THEN s.total.now ELSE s.balance

\* What is claimed.
Owed(s) == SumOver([u \in Users |-> Amount(s.claims[u])], Users)

\* What the contract holds beyond the claims.
Surplus(s) == s.bank[Self] - Owed(s)

\* The contract can pay all claims and all stakes at once.
TokenInv(s) == TokenTypes(s) /\ Stakes(s) <= Surplus(s)

LEMMA OwedIs ==
    ASSUME NEW s, TokenTypes(s)
    PROVE  /\ Owed(s) \in Nat /\ s.bank[Self] \in Nat /\ Surplus(s) \in Int
           /\ \A u \in Users : /\ s.claims[u] \in Seq(TokenClaims)
                               /\ Amount(s.claims[u]) \in Nat /\ Amount(s.claims[u]) <= Owed(s)
  <1> DEFINE f == [u \in Users |-> Amount(s.claims[u])]
  <1>1. ASSUME NEW u \in Users
        PROVE  s.claims[u] \in Seq(TokenClaims) /\ f[u] = Amount(s.claims[u]) /\ f[u] \in Nat
    <2>1. s.claims[u] \in Seq(TokenClaims)
      BY DEF TokenTypes
    <2>2. Amount(s.claims[u]) \in Nat
      BY <2>1, AmountIs
    <2> QED BY <2>1, <2>2
  <1>2. IsFiniteSet(Users)
    BY StakingAssumption
  <1>3. s.bank[Self] \in Nat
    BY DEF TokenTypes, Holders
  <1>4. Owed(s) = SumOver(f, Users)
    BY DEF Owed
  <1> HIDE DEF f
  <1>5. SumOver(f, Users) \in Nat
    BY <1>1, <1>2, SumNat
  <1>6. \A u \in Users : f[u] <= SumOver(f, Users)
    BY <1>1, <1>2, SumPart
  <1>7. Surplus(s) \in Int
    BY <1>3, <1>4, <1>5 DEF Surplus
  <1> QED BY <1>1, <1>3, <1>4, <1>5, <1>6, <1>7

\* The claims of one user change.
LEMMA OwedChange ==
    ASSUME NEW s, NEW t, TokenTypes(s), TokenTypes(t), NEW u \in Users,
           \A v \in Users \ {u} : t.claims[v] = s.claims[v]
    PROVE  Owed(t) = Owed(s) + (Amount(t.claims[u]) - Amount(s.claims[u]))
  <1> DEFINE f == [v \in Users |-> Amount(s.claims[v])]
             g == [v \in Users |-> Amount(t.claims[v])]
  <1>1. \A v \in Users : f[v] \in Int
    BY OwedIs
  <1>2. g[u] \in Int
    BY OwedIs
  <1>3. \A v \in Users \ {u} : g[v] = f[v]
    OBVIOUS
  <1>4. Owed(s) = SumOver(f, Users) /\ Owed(t) = SumOver(g, Users)
    BY DEF Owed
  <1>5. f[u] = Amount(s.claims[u]) /\ g[u] = Amount(t.claims[u])
    OBVIOUS
  <1> HIDE DEF f, g
  <1>6. SumOver(g, Users) = SumOver(f, Users) + (g[u] - f[u])
    BY <1>1, <1>2, <1>3, SumUpdate, StakingAssumption
  <1> QED BY <1>4, <1>5, <1>6

\* Tokens are paid between a user and the contract.
LEMMA Paid ==
    ASSUME NEW bank \in [Holders -> Nat], NEW u \in Users, NEW a \in Nat
    PROVE  /\ a <= bank[u] => /\ Pay(bank, u, Self, a) \in [Holders -> Nat]
                              /\ Pay(bank, u, Self, a)[Self] = bank[Self] + a
           /\ a <= bank[Self] => /\ Pay(bank, Self, u, a) \in [Holders -> Nat]
                                 /\ Pay(bank, Self, u, a)[Self] = bank[Self] - a
  <1>1. u \in Holders /\ Self \in Holders /\ u # Self
    BY StakingAssumption DEF Holders
  <1>2. bank[u] \in Nat /\ bank[Self] \in Nat
    BY <1>1
  <1>3. ASSUME a <= bank[u]
        PROVE  /\ Pay(bank, u, Self, a) \in [Holders -> Nat]
               /\ Pay(bank, u, Self, a)[Self] = bank[Self] + a
    BY <1>1, <1>2, <1>3 DEF Pay
  <1>4. ASSUME a <= bank[Self]
        PROVE  /\ Pay(bank, Self, u, a) \in [Holders -> Nat]
               /\ Pay(bank, Self, u, a)[Self] = bank[Self] - a
    BY <1>1, <1>2, <1>4 DEF Pay
  <1> QED BY <1>3, <1>4

\* The claims and the balance of the contract decide what it holds beyond the claims.
LEMMA SurplusSame ==
    ASSUME NEW s, NEW t, t.claims = s.claims
    PROVE  Owed(t) = Owed(s)
  BY DEF Owed

\* What is paid out, now or later, is no longer held beyond the claims.
LEMMA PaidOutSurplus ==
    ASSUME NEW s, DOMAIN s = Fields, TokenTypes(s), NEW n \in Nat, NEW u \in Users,
           NEW a \in Nat, NEW r \in PaidOut(s, n, u, a)
    PROVE  TokenTypes(r) /\ Surplus(r) = Surplus(s) - a
  <1>1. Owed(s) \in Nat /\ s.bank[Self] \in Nat /\ s.bank \in [Holders -> Nat]
    BY OwedIs DEF TokenTypes
  <1>2. CASE s.duration = {}
    <2> DEFINE b == Pay(s.bank, Self, u, a)
    <2>1. r = [s EXCEPT !.bank = b] /\ a <= s.bank[Self]
      BY <1>1, <1>2 DEF PaidOut, Ok
    <2>2. b \in [Holders -> Nat] /\ b[Self] = s.bank[Self] - a
      BY <1>1, <2>1, Paid
    <2> HIDE DEF b
    <2>3. /\ r.bank = b /\ r.claims = s.claims /\ r.duration = s.duration
          /\ r.recalled = s.recalled
      BY <2>1 DEF Fields
    <2>4. TokenTypes(r)
      BY <2>2, <2>3 DEF TokenTypes
    <2>5. Owed(r) = Owed(s)
      BY <2>3, SurplusSame
    <2> QED BY <1>1, <2>2, <2>3, <2>4, <2>5 DEF Surplus
  <1>3. CASE s.duration # {}
    <2> DEFINE c == Claim(a, ReleaseAt(s, n))
               q == Append(s.claims[u], c)
    <2>1. r = [s EXCEPT !.claims[u] = q]
      BY <1>3 DEF PaidOut, Ok
    <2>2. ReleaseAt(s, n) \in Nat
      <3>1. (CHOOSE d \in s.duration : TRUE) \in Nat
        BY <1>3 DEF TokenTypes
      <3> QED BY <3>1 DEF ReleaseAt
    <2>3. c \in TokenClaims /\ c.what = a
      BY <2>2 DEF Claim, TokenClaims
    <2>4. s.claims[u] \in Seq(TokenClaims) /\ Amount(s.claims[u]) \in Nat
      BY OwedIs
    <2> HIDE DEF c
    <2>5. q \in Seq(TokenClaims) /\ Amount(q) = Amount(s.claims[u]) + a
      BY <2>3, <2>4, AmountAppend
    <2> HIDE DEF q
    <2>6. /\ r.bank = s.bank /\ r.claims = [s.claims EXCEPT ![u] = q]
          /\ r.duration = s.duration /\ r.recalled = s.recalled
      BY <2>1 DEF Fields
    <2>7. TokenTypes(r)
      BY <2>5, <2>6 DEF TokenTypes
    <2>8. r.claims[u] = q /\ \A v \in Users \ {u} : r.claims[v] = s.claims[v]
      BY <2>6 DEF TokenTypes
    <2>9. Owed(r) = Owed(s) + (Amount(r.claims[u]) - Amount(s.claims[u]))
      BY <2>7, <2>8, OwedChange
    <2>10. Owed(r) = Owed(s) + a
      BY <1>1, <2>4, <2>5, <2>8, <2>9
    <2> QED BY <1>1, <2>6, <2>7, <2>10 DEF Surplus
  <1> QED BY <1>2, <1>3

\* What is paid in is held beyond the claims.
LEMMA PaidInSurplus ==
    ASSUME NEW s, TokenTypes(s), NEW u \in Users, NEW a \in Nat, a <= s.bank[u],
           NEW t, t.bank = Pay(s.bank, u, Self, a), t.claims = s.claims,
           t.duration = s.duration, t.recalled = s.recalled
    PROVE  TokenTypes(t) /\ Surplus(t) = Surplus(s) + a
  <1>1. Owed(s) \in Nat /\ s.bank[Self] \in Nat /\ s.bank \in [Holders -> Nat]
    BY OwedIs DEF TokenTypes
  <1>2. t.bank \in [Holders -> Nat] /\ t.bank[Self] = s.bank[Self] + a
    BY <1>1, Paid
  <1>3. TokenTypes(t)
    BY <1>2 DEF TokenTypes
  <1>4. Owed(t) = Owed(s)
    BY SurplusSame
  <1> QED BY <1>1, <1>2, <1>3, <1>4 DEF Surplus

\* Mature claims are paid from what is held for them.
LEMMA ClaimedSurplus ==
    ASSUME NEW s, DOMAIN s = Fields, TokenTypes(s), NEW n \in Nat, NEW u \in Users,
           NEW t \in Claimed(s, n, u)
    PROVE  TokenTypes(t) /\ Surplus(t) = Surplus(s)
  <1> DEFINE c == s.claims[u]
             w == Waiting(c, n)
             a == Amount(Mature(c, n))
             b == Pay(s.bank, Self, u, a)
  <1>1. /\ Owed(s) \in Nat /\ s.bank[Self] \in Nat /\ s.bank \in [Holders -> Nat]
        /\ c \in Seq(TokenClaims) /\ Amount(c) \in Nat
    BY OwedIs DEF TokenTypes
  <1>2. t = [s EXCEPT !.claims[u] = w, !.bank = b] /\ a <= s.bank[Self]
    BY DEF Claimed, Ok
  <1> HIDE DEF c
  <1>3. /\ Mature(c, n) \in Seq(TokenClaims) /\ w \in Seq(TokenClaims)
        /\ a + Amount(w) = Amount(c)
    BY <1>1, AmountSplit
  <1>4. a \in Nat /\ Amount(w) \in Nat
    BY <1>3, AmountIs
  <1> HIDE DEF w, a
  <1>5. b \in [Holders -> Nat] /\ b[Self] = s.bank[Self] - a
    BY <1>1, <1>2, <1>4, Paid
  <1> HIDE DEF b
  <1>6. /\ t.bank = b /\ t.claims = [s.claims EXCEPT ![u] = w]
        /\ t.duration = s.duration /\ t.recalled = s.recalled
    BY <1>2 DEF Fields
  <1>7. TokenTypes(t)
    BY <1>3, <1>5, <1>6 DEF TokenTypes
  <1>8. t.claims[u] = w /\ \A v \in Users \ {u} : t.claims[v] = s.claims[v]
    BY <1>6 DEF TokenTypes
  <1>9. Owed(t) = Owed(s) + (Amount(t.claims[u]) - Amount(s.claims[u]))
    BY <1>7, <1>8, OwedChange
  <1>10. Owed(t) = Owed(s) + (Amount(w) - Amount(c))
    BY <1>8, <1>9 DEF c
  <1>11. Owed(t) = Owed(s) - a
    BY <1>1, <1>3, <1>4, <1>10
  <1> QED BY <1>1, <1>4, <1>5, <1>6, <1>7, <1>11 DEF Surplus

IsToken == store.kind \in {"token", "cw20"}

\* What the stakers of tokens own together, after a stake has moved.
LEMMA TotalMoved ==
    ASSUME NEW s, NEW t, NEW n, NEW u, NEW d, Moved(s, t, n, u, d)
    PROVE  t.total.now = s.total.now + d /\ t.kind = s.kind
  BY DEF Moved, Written

\* Staking keeps the invariant.
LEMMA StakeTokensKeeps ==
    ASSUME NEW s, NEW n \in Nat, StakeInv(s, n), TokenInv(s), NEW u \in Users, NEW a \in Nat, NEW t,
           \/ s.kind = "token" /\ t \in TS!execute_stake(s, n, u, a)
           \/ s.kind = "cw20" /\ t \in C20!execute_stake(s, n, u, a)
    PROVE  TokenInv(t)
  <1>1. /\ DOMAIN s = Fields /\ s.total.now \in Nat /\ s.balance \in Nat /\ TokenTypes(s)
        /\ Surplus(s) \in Int /\ Stakes(s) <= Surplus(s)
    BY StakeIsPart, OwedIs DEF StakeInv, TokenInv
  <1>2. CASE s.kind = "token" /\ t \in TS!execute_stake(s, n, u, a)
    <2> DEFINE r == [s EXCEPT !.bank = Pay(s.bank, u, Self, a)]
    <2>1. Moved(s, t, n, u, a) /\ a <= s.bank[u] /\ SameRest(r, t)
      BY <1>1, <1>2, TokenStake
    <2>2. /\ t.bank = Pay(s.bank, u, Self, a) /\ t.claims = s.claims
          /\ t.duration = s.duration /\ t.recalled = s.recalled
      BY <1>1, <2>1 DEF SameRest, Fields
    <2>3. TokenTypes(t) /\ Surplus(t) = Surplus(s) + a
      BY <1>1, <2>1, <2>2, PaidInSurplus
    <2>4. t.total.now = s.total.now + a /\ t.kind = "token"
      BY <1>2, <2>1, TotalMoved
    <2>5. Stakes(t) <= Surplus(t)
      BY <1>1, <1>2, <2>3, <2>4 DEF Stakes
    <2> QED BY <2>3, <2>5 DEF TokenInv
  <1>3. CASE s.kind = "cw20" /\ t \in C20!execute_stake(s, n, u, a)
    <2> DEFINE r == [s EXCEPT !.bank = Pay(s.bank, u, Self, a), !.balance = @ + a]
               d == C20!amount_to_stake(s.total.now, s.balance, a)
    <2>1. Moved(s, t, n, u, d) /\ a <= s.bank[u] /\ SameRest(r, t)
      BY <1>1, <1>3, Cw20Stake
    <2>2. /\ t.bank = Pay(s.bank, u, Self, a) /\ t.claims = s.claims
          /\ t.duration = s.duration /\ t.recalled = s.recalled /\ t.balance = s.balance + a
      BY <1>1, <2>1 DEF SameRest, Fields
    <2>3. TokenTypes(t) /\ Surplus(t) = Surplus(s) + a
      BY <1>1, <2>1, <2>2, PaidInSurplus
    <2> HIDE DEF d
    <2>4. t.kind = "cw20"
      BY <1>3, <2>1, TotalMoved
    <2>5. Stakes(t) <= Surplus(t)
      BY <1>1, <1>3, <2>2, <2>3, <2>4 DEF Stakes
    <2> QED BY <2>3, <2>5 DEF TokenInv
  <1> QED BY <1>2, <1>3

\* Unstaking keeps the invariant.
LEMMA UnstakeTokensKeeps ==
    ASSUME NEW s, NEW n \in Nat, StakeInv(s, n), TokenInv(s), NEW u \in Users, NEW a \in Nat, NEW t,
           \/ s.kind = "token" /\ t \in TS!execute_unstake(s, n, u, a)
           \/ s.kind = "cw20" /\ t \in C20!execute_unstake(s, n, u, a)
    PROVE  TokenInv(t)
  <1>1. /\ DOMAIN s = Fields /\ s.total.now \in Nat /\ s.balance \in Nat /\ TokenTypes(s)
        /\ Surplus(s) \in Int /\ Stakes(s) <= Surplus(s)
    BY StakeIsPart, OwedIs DEF StakeInv, TokenInv
  <1>2. CASE s.kind = "token" /\ t \in TS!execute_unstake(s, n, u, a)
    <2>1. Moved(s, t, n, u, -a) /\ \E r \in PaidOut(s, n, u, a) : SameRest(r, t)
      BY <1>1, <1>2, TokenUnstake
    <2>2. PICK r \in PaidOut(s, n, u, a) : SameRest(r, t)
      BY <2>1
    <2>3. TokenTypes(r) /\ Surplus(r) = Surplus(s) - a
      <3>1. DOMAIN s = Fields /\ TokenTypes(s)
        BY <1>1
      <3> QED BY ONLY <3>1, n \in Nat, u \in Users, a \in Nat, r \in PaidOut(s, n, u, a),
                      PaidOutSurplus
    <2>4. /\ t.bank = r.bank /\ t.claims = r.claims /\ t.duration = r.duration
          /\ t.recalled = r.recalled
      BY <2>2 DEF SameRest, Fields
    <2>5. TokenTypes(t) /\ Surplus(t) = Surplus(r)
      BY <2>3, <2>4, SurplusSame DEF TokenTypes, Surplus
    <2>6. t.total.now = s.total.now + (-a) /\ t.kind = "token"
      BY <1>2, <2>1, TotalMoved
    <2>7. Stakes(t) <= Surplus(t)
      BY <1>1, <1>2, <2>3, <2>5, <2>6 DEF Stakes
    <2> QED BY <2>5, <2>7 DEF TokenInv
  <1>3. CASE s.kind = "cw20" /\ t \in C20!execute_unstake(s, n, u, a)
    <2> DEFINE c == C20!amount_to_claim(s.total.now, s.balance, a)
    <2>1. /\ Moved(s, t, n, u, -a) /\ s.total.now # 0
          /\ \E r \in PaidOut(s, n, u, c) : SameRest([r EXCEPT !.balance = r.balance - c], t)
      BY <1>1, <1>3, Cw20Unstake
    <2>2. c \in Nat
      <3> DEFINE m == a * s.balance
                 b == s.total.now
      <3>1. m \in Nat /\ b \in Nat /\ b # 0
        BY <1>1, <2>1
      <3> HIDE DEF m, b
      <3>2. m \div b \in Nat
        BY <3>1
      <3> QED BY <3>2 DEF m, b, C20!amount_to_claim
    <2> HIDE DEF c
    <2>3. PICK r \in PaidOut(s, n, u, c) : SameRest([r EXCEPT !.balance = r.balance - c], t)
      BY <2>1
    <2>4. TokenTypes(r) /\ Surplus(r) = Surplus(s) - c
      BY <1>1, <2>2, PaidOutSurplus
    <2>5. r.balance = s.balance /\ DOMAIN r = Fields
      BY <1>1, PaidOutStakes DEF SameStakes
    <2>6. /\ t.bank = r.bank /\ t.claims = r.claims /\ t.duration = r.duration
          /\ t.recalled = r.recalled /\ t.balance = s.balance - c
      BY <2>3, <2>5 DEF SameRest, Fields
    <2>7. TokenTypes(t) /\ Surplus(t) = Surplus(r)
      BY <2>4, <2>6, SurplusSame DEF TokenTypes, Surplus
    <2>8. t.kind = "cw20"
      BY <1>3, <2>1, TotalMoved
    <2>9. Stakes(t) <= Surplus(t)
      BY <1>1, <1>3, <2>2, <2>4, <2>6, <2>7, <2>8 DEF Stakes
    <2> QED BY <2>7, <2>9 DEF TokenInv
  <1> QED BY <1>2, <1>3

\* What leaves the claims, the balances and the stakes alone keeps the invariant.
LEMMA OtherTokensKeep ==
    ASSUME NEW s, NEW t, TokenInv(s), t.bank = s.bank, t.claims = s.claims,
           t.duration \in SUBSET Nat, t.recalled = s.recalled, t.kind = s.kind,
           t.total = s.total, t.balance = s.balance
    PROVE  TokenInv(t)
  <1>1. TokenTypes(t)
    BY DEF TokenInv, TokenTypes
  <1>2. Surplus(t) = Surplus(s) /\ Stakes(t) = Stakes(s)
    BY SurplusSame DEF Surplus, Stakes
  <1> QED BY <1>1, <1>2 DEF TokenInv

\* Every handler of the token modules keeps the invariant.
LEMMA TokenStep ==
    ASSUME SInv, IsToken, TokenInv(store), Next
    PROVE  TokenInv(store')
  <1>1. /\ height \in Nat /\ StakeInv(store, height) /\ DOMAIN store = Fields
        /\ kind \in {"token", "cw20"} /\ store.duration \in SUBSET Nat /\ TokenTypes(store)
    BY DEF SInv, StakeInv, IsToken, kind, TokenInv, TokenTypes
  <1>2. ASSUME NEW u \in Users, NEW a \in Amounts, Stake(u, a) PROVE TokenInv(store')
    <2>1. \/ store.kind = "token" /\ store' \in TS!execute_stake(store, height, u, a)
          \/ store.kind = "cw20" /\ store' \in C20!execute_stake(store, height, u, a)
      BY <1>1, <1>2 DEF Stake, Becomes, kind
    <2>2. a \in Nat
      BY StakedAssumption
    <2> QED BY <1>1, <2>1, <2>2, StakeTokensKeeps
  <1>3. ASSUME NEW u \in Users, NEW a \in Amounts, UnstakeTokens(u, a) PROVE TokenInv(store')
    <2>1. \/ store.kind = "token" /\ store' \in TS!execute_unstake(store, height, u, a)
          \/ store.kind = "cw20" /\ store' \in C20!execute_unstake(store, height, u, a)
      BY <1>1, <1>3 DEF UnstakeTokens, UnstakeResults, Becomes, kind
    <2>2. a \in Nat
      BY StakedAssumption
    <2> QED BY <1>1, <2>1, <2>2, UnstakeTokensKeeps
  <1>4. ASSUME NEW u \in Users, NEW a \in Amounts, Fund(u, a) PROVE TokenInv(store')
    <2>1. a \in Nat /\ store.kind = "cw20" /\ store' \in C20!execute_fund(store, u, a)
      BY <1>4, StakedAssumption DEF Fund, Becomes, kind
    <2>2. /\ store' = [store EXCEPT !.bank = Pay(store.bank, u, Self, a), !.balance = @ + a]
          /\ a <= store.bank[u]
      BY <2>1 DEF C20!execute_fund, C20!Ok, C20!Pay, Pay
    <2>3. /\ store'.bank = Pay(store.bank, u, Self, a) /\ store'.claims = store.claims
          /\ store'.duration = store.duration /\ store'.recalled = store.recalled
          /\ store'.balance = store.balance + a /\ store'.kind = store.kind
      BY <1>1, <2>2 DEF Fields
    <2>4. TokenTypes(store') /\ Surplus(store') = Surplus(store) + a
      BY <1>1, <2>1, <2>2, <2>3, PaidInSurplus
    <2>5. store.balance \in Nat /\ Surplus(store) \in Int /\ Stakes(store) <= Surplus(store)
      BY <1>1, OwedIs DEF StakeInv, TokenInv
    <2>6. Stakes(store) = store.balance /\ Stakes(store') = store.balance + a
      BY <2>1, <2>3 DEF Stakes
    <2>7. Stakes(store') <= Surplus(store')
      BY <2>1, <2>4, <2>5, <2>6
    <2> QED BY <2>4, <2>7 DEF TokenInv
  <1>5. ASSUME NEW u \in Users, ClaimMature(u) PROVE TokenInv(store')
    <2>1. store' \in Claimed(store, height, u)
      <3>1. CASE kind = "token"
        <4>1. store' \in TS!execute_claim(store, height, u)
          BY <1>5, <3>1 DEF ClaimMature, ClaimResults, Becomes, kind
        <4> QED BY <4>1, ClaimOperators
      <3>2. CASE kind = "cw20"
        <4>1. store' \in C20!execute_claim(store, height, u)
          BY <1>5, <3>2 DEF ClaimMature, ClaimResults, Becomes, kind
        <4> QED BY <4>1, ClaimOperators
      <3> QED BY <1>1, <3>1, <3>2
    <2>2. TokenTypes(store') /\ Surplus(store') = Surplus(store)
      BY <1>1, <2>1, ClaimedSurplus
    <2>3. SameStakes(store, store') /\ store'.balance = store.balance
      BY <1>1, <1>5, ClaimSteps
    <2>4. Stakes(store') = Stakes(store)
      BY <2>3 DEF Stakes, SameStakes
    <2> QED BY <2>2, <2>4 DEF TokenInv
  <1>6. ASSUME NEW d \in Durations, UpdateConfig(Dao, d) PROVE TokenInv(store')
    <2>1. store' = [store EXCEPT !.duration = d] /\ d \in SUBSET Nat
      BY <1>1, <1>6, ConfigSteps, StakedAssumption
    <2>2. /\ store'.bank = store.bank /\ store'.claims = store.claims
          /\ store'.duration \in SUBSET Nat /\ store'.recalled = store.recalled
          /\ store'.kind = store.kind /\ store'.total = store.total
          /\ store'.balance = store.balance
      BY <1>1, <2>1 DEF Fields
    <2> QED BY <2>2, OtherTokensKeep
  <1>7. ASSUME NEW x, UpdateActiveThreshold(Dao, x) PROVE TokenInv(store')
    <2>1. store' = [store EXCEPT !.threshold = x]
      BY <1>1, <1>7, ThresholdSteps
    <2>2. /\ store'.bank = store.bank /\ store'.claims = store.claims
          /\ store'.duration \in SUBSET Nat /\ store'.recalled = store.recalled
          /\ store'.kind = store.kind /\ store'.total = store.total
          /\ store'.balance = store.balance
      BY <1>1, <2>1 DEF Fields
    <2> QED BY <2>2, OtherTokensKeep
  <1>8. ASSUME AddHook(Dao) \/ RemoveHook(Dao) PROVE TokenInv(store')
    <2>1. HookSet(store, store')
      BY <1>1, <1>8, HookSteps
    <2>2. /\ store'.bank = store.bank /\ store'.claims = store.claims
          /\ store'.duration \in SUBSET Nat /\ store'.recalled = store.recalled
          /\ store'.kind = store.kind /\ store'.total = store.total
          /\ store'.balance = store.balance
      BY <1>1, <2>1 DEF HookSet, Fields
    <2> QED BY <2>2, OtherTokensKeep
  <1>9. CASE NextBlock
    BY <1>9 DEF NextBlock
  <1>10. ASSUME NEW u, NEW n, StakeNft(u, n) PROVE FALSE
    BY <1>1, <1>10 DEF StakeNft
  <1>11. ASSUME NEW u, NEW ids,
                PrepareStake(u, ids) \/ ConfirmStake(u, ids) \/ UnstakeNfts(u, ids)
         PROVE  FALSE
    BY <1>1, <1>11 DEF PrepareStake, ConfirmStake, UnstakeNfts
  <1>12. ASSUME NEW n, NEW to, TransferNft(n, to) PROVE FALSE
    BY <1>1, <1>12 DEF TransferNft
  <1>13. ASSUME NEW who, NEW ids, NEW recipient, CancelStake(who, ids, recipient) PROVE FALSE
    BY <1>1, <1>13 DEF CancelStake
  <1> QED BY <1>2, <1>3, <1>4, <1>5, <1>6, <1>7, <1>8, <1>9, <1>10, <1>11, <1>12, <1>13 DEF Next

\* New contracts of the token modules.
LEMMA TokenNewStore ==
    ASSUME NEW k \in {"token", "cw20"}, NEW msg, NEW b \in [Holders -> Nat], NEW o,
           msg.duration \in SUBSET Nat
    PROVE  TokenInv(NewStore(k, msg, b, o))
  <1> DEFINE s == NewStore(k, msg, b, o)
  <1>1. /\ s.kind = k /\ s.bank = b /\ s.claims = [u \in Users |-> <<>>] /\ s.recalled = {}
        /\ s.duration = msg.duration /\ s.total = Snapshot(0) /\ s.balance = 0
    BY DEF NewStore
  <1> HIDE DEF s
  <1>2. <<>> \in Seq(TokenClaims) /\ DOMAIN <<>> = {}
    OBVIOUS
  <1>3. TokenTypes(s)
    BY <1>1, <1>2 DEF TokenTypes
  <1>4. Amount(<<>>) = 0
    <2>1. Amount(<<>>) = SumOver(Whats(<<>>), {})
      BY <1>2, AmountIs
    <2> QED BY <2>1, SumEmpty
  <1>5. Owed(s) = 0
    <2> DEFINE f == [u \in Users |-> Amount(s.claims[u])]
    <2>1. \A u \in Users : f[u] = 0
      BY <1>1, <1>4
    <2>2. Owed(s) = SumOver(f, Users)
      BY DEF Owed
    <2> HIDE DEF f
    <2> QED BY <2>1, <2>2, SumZero, StakingAssumption
  <1>6. Stakes(s) = 0
    BY <1>1 DEF Stakes, Snapshot
  <1>7. s.bank[Self] \in Nat
    BY <1>1 DEF Holders
  <1>8. TokenInv(s)
    BY <1>3, <1>5, <1>6, <1>7 DEF TokenInv, Surplus
  <1> QED BY <1>8 DEF s

WInv == NInv /\ (IsToken => TokenInv(store))

LEMMA WithdrawalInit == Init => WInv
  <1> SUFFICES ASSUME Init PROVE WInv
    OBVIOUS
  <1>1. NInv
    BY NftInit
  <1>2. \A k, msg, b, o : NewStore(k, msg, b, o).kind = k
    BY DEF NewStore
  <1>3. ASSUME IsToken PROVE TokenInv(store)
    <2>1. ASSUME NEW k \in {"token", "cw20"}, NEW x \in Tokens[k], NEW msg \in Msgs[k],
                 store = NewStore(k, msg, x, <<>>)
          PROVE  TokenInv(store)
      <3>1. x \in [Holders -> Nat] /\ msg.duration \in SUBSET Nat
        BY StakedAssumption
      <3> QED BY <2>1, <3>1, TokenNewStore
    <2>2. CASE \E x \in Tokens["token"], msg \in Msgs["token"] : store = NewStore("token", msg, x, <<>>)
      BY <2>1, <2>2
    <2>3. CASE \E x \in Tokens["cw20"], msg \in Msgs["cw20"] : store = NewStore("cw20", msg, x, <<>>)
      BY <2>1, <2>3
    <2>4. CASE \E x, msg, b : store = NewStore("cw721", msg, b, x) \/ store = NewStore("onft", msg, b, x)
      <3>1. store.kind \in {"cw721", "onft"}
        BY <1>2, <2>4
      <3> QED BY <1>3, <3>1 DEF IsToken
    <2> QED BY <2>2, <2>3, <2>4, InitialStore
  <1> QED BY <1>1, <1>3 DEF WInv

LEMMA WithdrawalHolds == Spec => []WInv
  <1>1. ASSUME WInv, [Next]_vars, NInv' PROVE WInv'
    <2>1. SInv /\ store'.kind = store.kind
      BY <1>1, StakesStep DEF WInv, NInv
    <2>2. CASE Next
      BY <1>1, <2>1, <2>2, TokenStep DEF WInv, IsToken
    <2>3. CASE UNCHANGED vars
      BY <1>1, <2>1, <2>3 DEF WInv, IsToken, vars
    <2> QED BY <1>1, <2>2, <2>3
  <1>2. WInv /\ [Next]_vars /\ NInv' => WInv'
    BY <1>1
  <1> QED BY <1>2, WithdrawalInit, NftHolds, PTL DEF Spec

----------------------------------------------------------------------------
(* Whoever may unstake or claim is paid *)

LEMMA PaysOut ==
    ASSUME NEW s, NEW n, NEW u, NEW a, s.bank[Self] >= a,
           s.duration = {} \/ Len(s.claims[u]) < MaxClaims
    PROVE  PaidOut(s, n, u, a) # {}
  BY DEF PaidOut, Ok

\* What one user has staked can be paid out.
LEMMA TokensUnstaked ==
    ASSUME NEW s, NEW n \in Nat, StakeInv(s, n), TokenInv(s), NEW u \in Users,
           s.power[u].now > 0, s.duration = {} \/ Len(s.claims[u]) < MaxClaims
    PROVE  /\ s.kind = "token" => TS!execute_unstake(s, n, u, s.power[u].now) # {}
           /\ s.kind = "cw20" => C20!execute_unstake(s, n, u, s.power[u].now) # {}
  <1> DEFINE a == s.power[u].now
             T == s.total.now
  <1>1. a \in Nat /\ T \in Nat /\ a <= T /\ a > 0
    BY StakeIsPart
  <1>2. /\ s.balance \in Nat /\ s.bank[Self] \in Nat /\ Owed(s) \in Nat
        /\ Stakes(s) <= Surplus(s)
    BY OwedIs DEF StakeInv, TokenInv
  <1>3. CASE s.kind = "token"
    <2>1. Stakes(s) = T
      BY <1>3 DEF Stakes
    <2>2. s.bank[Self] >= a
      <3> HIDE DEF a, T
      <3> QED BY <1>1, <1>2, <2>1 DEF Surplus
    <2>3. PICK r : r \in PaidOut(s, n, u, a)
      BY <2>2, PaysOut
    <2>4. Ok(a # 0 /\ a <= s.power[u].now /\ a <= s.total.now,
             TS!unstake_hook_msgs(TS!SetPower(r, n, u, s.power[u].now - a, s.total.now - a), u, a))
              # {}
      BY <1>1 DEF Ok
    <2>5. TS!execute_unstake(s, n, u, a) # {}
      BY <2>3, <2>4, TokenPaysOut, TokenOperators DEF TS!execute_unstake
    <2> QED BY <1>3, <2>5
  <1>4. CASE s.kind = "cw20"
    <2> DEFINE c == C20!amount_to_claim(T, s.balance, a)
    <2>1. c \in Nat /\ c <= s.balance
      <3> DEFINE B == s.balance
                 m == a * B
      <3>1. B \in Nat /\ T \in Nat /\ T > 0 /\ a \in Nat /\ a <= T
        BY <1>1, <1>2
      <3> HIDE DEF B, T, a
      <3>2. m \in Nat /\ m <= B * T
        BY <3>1
      <3> HIDE DEF m
      <3>3. m \div T \in Nat /\ (m \div T) * T <= m
        BY <3>1, <3>2, FloorBounds
      <3>4. m \div T <= B
        <4> DEFINE q == m \div T
        <4>1. q \in Nat /\ q * T <= B * T
          BY <3>1, <3>2, <3>3
        <4> HIDE DEF q
        <4>2. q <= B
          BY <3>1, <4>1
        <4> QED BY <4>2 DEF q
      <3> QED BY <3>3, <3>4 DEF m, B, C20!amount_to_claim
    <2>2. Stakes(s) = s.balance
      BY <1>4 DEF Stakes
    <2> HIDE DEF c
    <2>3. s.bank[Self] >= c
      BY <1>2, <2>1, <2>2 DEF Surplus
    <2>4. PICK r : r \in PaidOut(s, n, u, c)
      BY <2>3, PaysOut
    <2> DEFINE E(x) == C20!unstake_hook_msgs(C20!SetPower([x EXCEPT !.balance = @ - c], n, u,
                                             s.power[u].now - a, s.total.now - a), u, a)
               G == a <= s.power[u].now /\ c <= s.balance
    <2>5. G /\ ~(T = 0 \/ a > T)
      BY <1>1, <2>1
    <2>6. C20!execute_unstake(s, n, u, a) = UNION {C20!Ok(G, E(x)) : x \in C20!PaidOut(s, n, u, c)}
      BY <2>5 DEF C20!execute_unstake, c
    <2> HIDE DEF E, G
    <2>7. E(r) \in C20!Ok(G, E(r))
      BY <2>5 DEF C20!Ok
    <2>8. C20!execute_unstake(s, n, u, a) # {}
      BY <2>4, <2>6, <2>7, Cw20PaysOut
    <2> QED BY <1>4, <2>8
  <1> QED BY <1>3, <1>4

\* Whatever tokens are mature can be paid.
LEMMA TokensClaimed ==
    ASSUME NEW s, NEW n \in Nat, StakeInv(s, n), TokenInv(s), NEW u \in Users,
           \E i \in DOMAIN Mature(s.claims[u], n) : Mature(s.claims[u], n)[i].what # 0
    PROVE  Claimed(s, n, u) # {}
  <1> DEFINE c == s.claims[u]
             M == Mature(c, n)
             a == Amount(M)
             w == Amount(Waiting(c, n))
  <1>1. /\ s.balance \in Nat /\ s.total.now \in Nat /\ s.bank[Self] \in Nat /\ Owed(s) \in Nat
        /\ Stakes(s) <= Surplus(s)
        /\ c \in Seq(TokenClaims) /\ Amount(c) \in Nat /\ Amount(c) <= Owed(s)
    BY StakeIsPart, OwedIs DEF StakeInv, TokenInv
  <1>2. PICK i \in DOMAIN M : M[i].what # 0
    OBVIOUS
  <1> HIDE DEF c
  <1>3. M \in Seq(TokenClaims) /\ Waiting(c, n) \in Seq(TokenClaims) /\ a + w = Amount(c)
    BY <1>1, AmountSplit
  <1> HIDE DEF M
  <1>4. a \in Nat /\ M[i].what \in Nat /\ M[i].what <= a
    BY <1>3, AmountIs
  <1>5. w \in Nat
    BY <1>3, AmountIs
  <1> HIDE DEF a, w
  <1>6. a # 0 /\ a <= Amount(c)
    BY <1>1, <1>2, <1>3, <1>4, <1>5
  <1>7. Stakes(s) \in Nat
    BY <1>1 DEF Stakes
  <1>8. a <= s.bank[Self]
    BY <1>1, <1>4, <1>6, <1>7 DEF Surplus
  <1>9. Claimed(s, n, u) = Ok(a # 0 /\ a <= s.bank[Self],
            [s EXCEPT !.claims[u] = Waiting(@, n), !.bank = Pay(@, Self, u, a)])
    BY DEF Claimed, a, M, c
  <1> QED BY <1>6, <1>8, <1>9 DEF Ok

\* An NFT that is staked can be unstaked.
LEMMA NftUnstaked ==
    ASSUME NEW s, NEW n \in Nat, StakeInv(s, n), NftInv(s), NEW u \in Users,
           NEW m \in Nfts \ s.recalled, <<u, m>> \in s.staked,
           s.duration = {} \/ Len(s.claims[u]) < MaxClaims
    PROVE  C721!execute_unstake(s, n, u, <<m>>) # {} /\ ON!execute_unstake(s, n, u, <<m>>) # {}
  <1> DEFINE ids == <<m>>
             p == s.power[u].now - Len(ids)
             q == s.total.now - Len(ids)
             v == [s EXCEPT !.staked = @ \ ({u} \X {m})]
             w == SetPower(v, n, u, p, q)
  <1>1. DOMAIN s = Fields /\ NftTypes(s) /\ NftSafe(s, m)
    BY DEF StakeInv, NftInv
  <1>2. s.owner[m] = Self
    <2>1. Title(s, m, u, 0) /\ 0 \in Nat
      BY DEF Title
    <2> QED BY <1>1, <2>1 DEF NftSafe
  <1>3. 1 <= s.power[u].now /\ 1 <= s.total.now
    <2>1. Cardinality(StakedBy(s, u)) <= s.power[u].now
      BY DEF NftInv
    <2>2. IsFiniteSet(StakedBy(s, u)) /\ Cardinality(StakedBy(s, u)) \in Nat /\ m \in StakedBy(s, u)
      BY StakedFinite DEF StakedBy
    <2>3. Cardinality(StakedBy(s, u)) # 0
      BY <2>2, FS_EmptySet
    <2>4. s.power[u].now \in Nat /\ s.total.now \in Nat /\ s.power[u].now <= s.total.now
      BY StakeIsPart
    <2> QED BY <2>1, <2>2, <2>3, <2>4
  <1>4. /\ ids # <<>> /\ Len(ids) = 1 /\ DOMAIN ids = {1} /\ ids[1] = m
        /\ C721!Range(ids) = {m} /\ ON!Range(ids) = {m}
        /\ C721!IsInjective(ids) /\ ON!IsInjective(ids)
    <2>1. ids # <<>> /\ Len(ids) = 1 /\ DOMAIN ids = {1} /\ ids[1] = m
      OBVIOUS
    <2> HIDE DEF ids
    <2> QED BY <2>1 DEF C721!Range, ON!Range, C721!IsInjective, ON!IsInjective
  <1>5. Len(s.claims[u]) \in Nat /\ MaxClaims \in Nat
    BY <1>1, TitleOf, StakingAssumption
  <1>6. v.owner = s.owner /\ SameStakes(s, v) /\ DOMAIN v = Fields
    BY <1>1 DEF Fields, SameStakes
  <1> HIDE DEF ids
  <1>7. w.owner = s.owner
    <2> HIDE DEF v
    <2>1. w.owner = v.owner
      BY <1>6 DEF SetPower, Fields
    <2> QED BY <1>6, <2>1
  <1>8. w \in C721!register_unstaked_nfts(s, n, u, ids)
    <2>1. w = C721!SetPower(v, n, u, p, q)
      BY Cw721Operators
    <2> HIDE DEF w
    <2>2. C721!register_unstaked_nfts(s, n, u, ids)
              = C721!Ok(/\ \A id \in C721!Range(ids) : <<u, id>> \in s.staked
                        /\ C721!IsInjective(ids)
                        /\ Len(ids) <= s.power[u].now /\ Len(ids) <= s.total.now, w)
      BY <1>4, <2>1 DEF C721!register_unstaked_nfts
    <2> QED BY <1>3, <1>4, <2>2 DEF C721!Ok
  <1>9. w \in ON!register_unstaked_nfts(s, n, u, ids)
    <2>1. w = ON!SetPower(v, n, u, p, q)
      BY OnftOperators
    <2> HIDE DEF w
    <2>2. ON!register_unstaked_nfts(s, n, u, ids)
              = ON!Ok(/\ \A id \in ON!Range(ids) : <<u, id>> \in s.staked
                      /\ ON!IsInjective(ids)
                      /\ Len(ids) <= s.power[u].now /\ Len(ids) <= s.total.now, w)
      BY <1>4, <2>1 DEF ON!register_unstaked_nfts
    <2> QED BY <1>3, <1>4, <2>2 DEF ON!Ok
  <1> HIDE DEF w
  <1>10. s.duration # {} => Len(s.claims[u]) + Len(ids) <= MaxClaims
    BY <1>4, <1>5
  <1>11. C721!execute_unstake(s, n, u, ids) # {}
    <2> DEFINE Back(y) == IF s.duration = {} THEN C721!Sent(y, ids, u)
                          ELSE C721!Ok(Len(s.claims[u]) + Len(ids) <= MaxClaims,
                                       [y EXCEPT !.claims[u] =
                                           C721!create_nft_claims(@, ids, C721!ReleaseAt(s, n))])
               R == UNION {Back(y) : y \in C721!register_unstaked_nfts(s, n, u, ids)}
    <2>1. Back(w) # {}
      BY <1>2, <1>4, <1>7, <1>10 DEF C721!Sent, C721!Ok
    <2>2. C721!execute_unstake(s, n, u, ids) = {C721!unstake_hook_msgs(r, u, Len(ids)) : r \in R}
      BY <1>4 DEF C721!execute_unstake
    <2> HIDE DEF Back
    <2>3. R # {}
      BY <1>8, <2>1
    <2> HIDE DEF R
    <2> QED BY <2>2, <2>3
  <1>12. ON!execute_unstake(s, n, u, ids) # {}
    <2> DEFINE Back(y) == IF s.duration = {} THEN ON!Sent(y, [x \in ON!Range(ids) |-> u])
                          ELSE ON!Ok(Len(s.claims[u]) + Len(ids) <= MaxClaims,
                                     [y EXCEPT !.claims[u] =
                                         @ \o [i \in DOMAIN ids |->
                                                  ON!Claim(ids[i], ON!ReleaseAt(s, n))]])
               R == UNION {Back(y) : y \in ON!register_unstaked_nfts(s, n, u, ids)}
    <2>1. Back(w) # {}
      BY <1>2, <1>4, <1>7, <1>10 DEF ON!Sent, ON!Ok
    <2>2. ON!execute_unstake(s, n, u, ids) = {ON!unstake_hook_msgs(r, u, Len(ids)) : r \in R}
      BY <1>4 DEF ON!execute_unstake
    <2> HIDE DEF Back
    <2>3. R # {}
      BY <1>9, <2>1
    <2> HIDE DEF R
    <2> QED BY <2>2, <2>3
  <1> QED BY <1>11, <1>12 DEF ids

\* Mature claims on NFTs that were not taken back can be paid.
LEMMA NftsReturned ==
    ASSUME NEW s, NEW n \in Nat, StakeInv(s, n), NftInv(s), NEW u \in Users,
           DOMAIN Mature(s.claims[u], n) # {},
           \A i \in DOMAIN Mature(s.claims[u], n) : Mature(s.claims[u], n)[i].what \notin s.recalled
    PROVE  C721!execute_claim_nfts(s, n, u) # {} /\ ON!execute_claim_nfts(s, n, u) # {}
  <1> DEFINE c == s.claims[u]
             mature == Mature(c, n)
             waiting == Waiting(c, n)
             ids == [i \in DOMAIN mature |-> mature[i].what]
             v == [s EXCEPT !.claims[u] = waiting]
             M == {i \in DOMAIN c : c[i].release_at <= n}
  <1>1. DOMAIN s = Fields /\ NftTypes(s)
    BY DEF StakeInv, NftInv
  <1>2. c \in Seq(NftClaims) /\ DOMAIN c = 1 .. Len(c) /\ Len(c) \in Nat
    BY <1>1, TitleOf
  <1>3. mature \in Seq(NftClaims) /\ \E f : PickedBy(mature, c, M, f)
    <2> HIDE DEF c
    <2> QED BY <1>2, ClaimsSplit
  <1>4. PICK f : PickedBy(mature, c, M, f)
    BY <1>3
  <1> HIDE DEF mature
  <1>5. ASSUME NEW i \in DOMAIN mature
        PROVE  /\ f[i] \in Nat /\ Title(s, mature[i].what, u, f[i]) /\ mature[i].what \in Nfts
               /\ NftSafe(s, mature[i].what)
    <2>1. f[i] \in M /\ mature[i] = c[f[i]]
      BY <1>4 DEF PickedBy
    <2>2. f[i] \in DOMAIN c /\ f[i] \in Nat
      BY <1>2, <2>1
    <2>3. Title(s, mature[i].what, u, f[i])
      BY <2>1, <2>2 DEF Title
    <2>4. mature[i].what \in Nfts
      <3> HIDE DEF c
      <3>1. c[f[i]] \in NftClaims
        BY <1>2, <2>2
      <3> QED BY <2>1, <3>1 DEF NftClaims
    <2>5. mature[i].what \notin s.recalled
      BY DEF mature
    <2> QED BY <2>2, <2>3, <2>4, <2>5 DEF NftInv
  <1>6. \A i \in DOMAIN mature : s.owner[mature[i].what] = Self
    BY <1>5 DEF NftSafe
  <1>7. ASSUME NEW i \in DOMAIN mature, NEW j \in DOMAIN mature, mature[i].what = mature[j].what
        PROVE  i = j
    <2>1. f[i] = f[j]
      BY <1>5, <1>7 DEF NftSafe
    <2> QED BY <1>4, <2>1 DEF PickedBy
  <1>8. DOMAIN mature # {} /\ mature # <<>>
    <2>1. DOMAIN mature # {}
      BY DEF mature
    <2>2. DOMAIN <<>> = {}
      OBVIOUS
    <2> QED BY <2>1, <2>2
  <1>9. DOMAIN ids # {} /\ ids # <<>> /\ DOMAIN ids = DOMAIN mature
    <2>1. DOMAIN ids = DOMAIN mature
      OBVIOUS
    <2>2. DOMAIN <<>> = {}
      OBVIOUS
    <2> HIDE DEF ids
    <2> QED BY <1>8, <2>1, <2>2
  <1>10. v.owner = s.owner
    BY <1>1 DEF Fields
  <1>11. C721!execute_claim_nfts(s, n, u) # {}
    <2>1. C721!Mature(c, n) = mature /\ C721!Waiting(c, n) = waiting
      BY Cw721Matures DEF mature
    <2>2. C721!claim_nfts(s, n, u) = [to_send |-> ids, store |-> v]
      BY <2>1 DEF C721!claim_nfts
    <2>3. \A m \in C721!Range(ids) : s.owner[m] = Self
      BY <1>6 DEF C721!Range
    <2> HIDE DEF ids, v
    <2>4. C721!execute_claim_nfts(s, n, u) = C721!Sent(v, ids, u)
      BY <1>9, <2>2 DEF C721!execute_claim_nfts
    <2> QED BY <1>10, <2>3, <2>4 DEF C721!Sent, C721!Ok
  <1>12. ON!execute_claim_nfts(s, n, u) # {}
    <2>1. ON!Mature(c, n) = mature /\ ON!Waiting(c, n) = waiting
      BY OnftMatures DEF mature
    <2>2. ON!IsInjective(ids)
      BY <1>7 DEF ON!IsInjective
    <2> DEFINE to == [x \in {mature[i].what : i \in DOMAIN mature} |-> u]
    <2>3. ON!execute_claim_nfts(s, n, u) = ON!Sent(v, to)
      BY <1>8, <2>1, <2>2 DEF ON!execute_claim_nfts
    <2>4. \A m \in DOMAIN to : s.owner[m] = Self
      BY <1>6
    <2> HIDE DEF v, to
    <2> QED BY <1>10, <2>3, <2>4 DEF ON!Sent, ON!Ok
  <1> QED BY <1>11, <1>12

\* Whoever has staked can unstake all of it, and whatever claims are mature are paid, NFTs
\* that the DAO took back excepted (execute_unstake, execute_claim and execute_claim_nfts of
\* the four modules): nobody's leaving takes what others are owed.
THEOREM EveryoneCanLeave == Spec => []Withdrawable
  <1>1. ASSUME WInv PROVE Withdrawable
    <2>1. /\ height \in Nat /\ StakeInv(store, height) /\ store.kind \in Kinds
      BY <1>1 DEF WInv, NInv, SInv, StakeInv
    <2>2. /\ kind \in {"token", "cw20"} => TokenInv(store)
          /\ kind \in {"cw721", "onft"} => NftInv(store)
      BY <1>1 DEF WInv, NInv, IsToken, IsNft, kind
    <2>3. ASSUME NEW u \in Users, kind \in {"token", "cw20"}, store.power[u].now > 0, HasRoom(u)
          PROVE  UnstakeResults(store, u, store.power[u].now) # {}
      <3>1. /\ kind = "token" => TS!execute_unstake(store, height, u, store.power[u].now) # {}
            /\ kind = "cw20" => C20!execute_unstake(store, height, u, store.power[u].now) # {}
        BY <2>1, <2>2, <2>3, TokensUnstaked DEF HasRoom, kind
      <3> QED BY <2>3, <3>1 DEF UnstakeResults, kind
    <2>4. ASSUME NEW u \in Users, kind \in {"cw721", "onft"}, NEW m \in Nfts \ store.recalled,
                 <<u, m>> \in store.staked, HasRoom(u)
          PROVE  UnstakeResults(store, u, <<m>>) # {}
      <3>1. /\ C721!execute_unstake(store, height, u, <<m>>) # {}
            /\ ON!execute_unstake(store, height, u, <<m>>) # {}
        BY <2>1, <2>2, <2>4, NftUnstaked DEF HasRoom
      <3> QED BY <2>4, <3>1 DEF UnstakeResults, kind
    <2>5. ASSUME NEW u \in Users,
                 \E i \in DOMAIN Mature(store.claims[u], height) :
                     Mature(store.claims[u], height)[i].what # 0,
                 \A i \in DOMAIN Mature(store.claims[u], height) :
                     Mature(store.claims[u], height)[i].what \notin store.recalled
          PROVE  ClaimResults(store, u) # {}
      <3>1. CASE kind \in {"token", "cw20"}
        <4>1. Claimed(store, height, u) # {}
          BY <2>1, <2>2, <2>5, <3>1, TokensClaimed
        <4> QED BY <3>1, <4>1, ClaimOperators DEF ClaimResults, kind
      <3>2. CASE kind \in {"cw721", "onft"}
        <4>1. NftInv(store) /\ DOMAIN Mature(store.claims[u], height) # {}
          BY <2>2, <2>5, <3>2
        <4>2. \A i \in DOMAIN Mature(store.claims[u], height) :
                  Mature(store.claims[u], height)[i].what \notin store.recalled
          BY <2>5
        <4>3. /\ C721!execute_claim_nfts(store, height, u) # {}
              /\ ON!execute_claim_nfts(store, height, u) # {}
          BY ONLY <2>1, <4>1, <4>2, u \in Users, NftsReturned
        <4> QED BY <3>2, <4>3 DEF ClaimResults, kind
      <3> QED BY <2>1, <3>1, <3>2 DEF Kinds, kind
    <2> QED BY <2>3, <2>4, <2>5 DEF Withdrawable
  <1>2. WInv => Withdrawable
    BY <1>1
  <1> QED BY <1>2, WithdrawalHolds, PTL

----------------------------------------------------------------------------
(* The active threshold *)

\* What there is to be staked.
Supply(s) == IF s.kind \in {"token", "cw20"} THEN SumOver(s.bank, Holders) ELSE Cardinality(Nfts)

\* The threshold asks for no more than there is.
Within(threshold, supply) == threshold \in SUBSET ActiveThreshold /\ ValidThreshold(threshold, supply)

\* Rounding up a share of the supply yields no more than the supply.
LEMMA RequiredWithin ==
    ASSUME NEW threshold, NEW supply \in Nat, Within(threshold, supply), NEW t \in threshold
    PROVE  supply >= RequiredStake(t, supply)
  <1>1. t \in ActiveThreshold
    BY DEF Within
  <1>2. CASE t.kind = "absolute_count"
    <2>1. t.count \in Nat
      BY <1>1, <1>2 DEF ActiveThreshold
    <2>2. t.count <= supply
      BY <1>2 DEF Within, ValidThreshold, assert_valid_absolute_count_threshold
    <2> QED BY <1>2, <2>1, <2>2 DEF RequiredStake
  <1>3. CASE t.kind # "absolute_count"
    <2> DEFINE p == t.percent
               P == PrecisionFactor
               D == DecimalOne
               m == supply * P
               q == (m * p) \div D
    <2>1. t.kind = "percentage" /\ p \in Nat
      BY <1>1, <1>3 DEF ActiveThreshold
    <2>2. p <= D /\ D \in Nat /\ D > 0 /\ P \in Nat /\ P > 0
      BY <2>1, StakingAssumption DEF Within, ValidThreshold, assert_valid_percentage_threshold
    <2>3. RequiredStake(t, supply) = (q + P - 1) \div P
      BY <2>1 DEF RequiredStake
    <2> HIDE DEF p, P, D, q
    <2>4. m \in Nat
      BY <2>2
    <2> HIDE DEF m
    <2>5. m * p \in Nat /\ m * p <= m * D
      BY <2>1, <2>2, <2>4
    <2>6. q \in Nat /\ q * D <= m * D
      <3> DEFINE x == m * p
                 y == m * D
      <3>1. x \in Nat /\ x <= y /\ y \in Nat
        BY <2>2, <2>4, <2>5
      <3>2. q = x \div D
        BY DEF q
      <3> HIDE DEF x, y
      <3>3. q \in Nat /\ q * D <= x
        BY <2>2, <3>1, <3>2, FloorBounds
      <3>4. q * D \in Nat
        BY <2>2, <3>3
      <3>5. q * D <= y
        BY <3>1, <3>3, <3>4
      <3> QED BY <3>3, <3>5 DEF y
    <2>7. q <= m
      <3>1. ASSUME q >= m + 1 PROVE FALSE
        <4>1. q * D >= (m + 1) * D
          BY <2>2, <2>4, <2>6, <3>1
        <4>2. (m + 1) * D = m * D + D /\ m * D \in Nat /\ q * D \in Nat
          BY <2>2, <2>4, <2>6
        <4> QED BY <2>2, <2>6, <4>1, <4>2
      <3> QED BY <2>4, <2>6, <3>1
    <2>8. q + P - 1 \in Nat
      BY <2>2, <2>6
    <2> DEFINE z == q + P - 1
               r == z \div P
    <2>9. r \in Nat /\ r * P <= z
      <3> HIDE DEF z
      <3>1. z \in Nat
        BY <2>8 DEF z
      <3> QED BY <2>2, <3>1, FloorBounds
    <2>10. r * P < m + P
      <3>1. z < m + P /\ z \in Nat
        BY <2>2, <2>4, <2>6, <2>7
      <3> HIDE DEF z, r
      <3> DEFINE v == r * P
      <3>2. v \in Nat /\ v <= z
        BY <2>2, <2>9
      <3> HIDE DEF v
      <3>3. v < m + P
        BY <2>2, <2>4, <3>1, <3>2
      <3> QED BY <3>3 DEF v
    <2> HIDE DEF z, r
    <2>11. r <= supply
      <3>1. ASSUME r >= supply + 1 PROVE FALSE
        <4>1. r * P >= (supply + 1) * P
          BY <2>2, <2>9, <3>1
        <4>2. (supply + 1) * P = m + P
          BY <2>2 DEF m
        <4>3. r * P \in Nat
          BY <2>2, <2>9
        <4> QED BY <2>2, <2>4, <2>10, <4>1, <4>2, <4>3
      <3> QED BY <2>9, <3>1
    <2> QED BY <2>3, <2>9, <2>11 DEF r, z
  <1> QED BY <1>2, <1>3

\* Paying moves tokens between holders.
LEMMA PayKeepsSum ==
    ASSUME NEW bank \in [Holders -> Nat], NEW u \in Users, NEW a \in Nat
    PROVE  /\ a <= bank[u] => SumOver(Pay(bank, u, Self, a), Holders) = SumOver(bank, Holders)
           /\ a <= bank[Self] => SumOver(Pay(bank, Self, u, a), Holders) = SumOver(bank, Holders)
  <1>1. IsFiniteSet(Holders)
    <2>1. IsFiniteSet({Self}) /\ IsFiniteSet({Self} \cup {Dao})
      BY FS_Singleton, FS_AddElement
    <2>2. Holders = Users \cup ({Self} \cup {Dao})
      BY DEF Holders
    <2> QED BY <2>1, <2>2, StakingAssumption, FS_Union
  <1>2. ASSUME NEW x \in Holders, NEW y \in Holders, x # y, a <= bank[x]
        PROVE  SumOver(Pay(bank, x, y, a), Holders) = SumOver(bank, Holders)
    <2> DEFINE f == [bank EXCEPT ![x] = bank[x] - a]
               g == Pay(bank, x, y, a)
    <2>1. \A z \in Holders : bank[z] \in Int
      OBVIOUS
    <2>2. /\ \A z \in Holders : f[z] \in Int
          /\ f[x] = bank[x] - a /\ f[y] = bank[y] /\ \A z \in Holders \ {x} : f[z] = bank[z]
      BY <1>2
    <2>3. g[y] = bank[y] + a /\ g[y] \in Int /\ \A z \in Holders \ {y} : g[z] = f[z]
      BY <1>2 DEF Pay
    <2> HIDE DEF f, g
    <2>4. SumOver(f, Holders) = SumOver(bank, Holders) + (f[x] - bank[x])
      BY <1>1, <2>1, <2>2, SumUpdate
    <2>5. SumOver(g, Holders) = SumOver(f, Holders) + (g[y] - f[y])
      <3>1. (\A z \in Holders : f[z] \in Int) /\ g[y] \in Int /\ \A z \in Holders \ {y} : g[z] = f[z]
        BY <2>2, <2>3
      <3> QED BY ONLY <1>1, <3>1, y \in Holders, SumUpdate
    <2>6. SumOver(bank, Holders) \in Int
      BY <1>1, <2>1, SumInt
    <2>7. SumOver(g, Holders) = SumOver(bank, Holders)
      BY <2>1, <2>2, <2>3, <2>4, <2>5, <2>6
    <2> QED BY <2>7 DEF g
  <1>3. u \in Holders /\ Self \in Holders /\ u # Self
    BY StakingAssumption DEF Holders
  <1> QED BY <1>2, <1>3

\* The holders have all tokens, the users and the DAO a part of them.
LEMMA SupplyIs ==
    ASSUME NEW bank \in [Holders -> Nat]
    PROVE  /\ SumOver(bank, Holders) \in Nat /\ SumOver(bank, Users) \in Nat /\ bank[Dao] \in Nat
           /\ SumOver(bank, Users) <= SumOver(bank, Holders)
  <1> DEFINE S == Holders \ {Dao}
  <1>1. IsFiniteSet(Users) /\ IsFiniteSet(S) /\ IsFiniteSet(Holders)
    <2>1. S = Users \cup {Self} /\ Holders = S \cup {Dao}
      BY StakingAssumption DEF Holders
    <2> HIDE DEF S
    <2> QED BY <2>1, FS_AddElement, StakingAssumption
  <1>2. Self \in S /\ Dao \in Holders /\ S \ {Self} = Users
    BY StakingAssumption DEF Holders
  <1>3. /\ \A x \in Holders : bank[x] \in Nat /\ bank[x] \in Int
        /\ \A x \in S : bank[x] \in Int
        /\ \A x \in Users : bank[x] \in Nat
    BY DEF Holders
  <1>4. SumOver(bank, Holders) = bank[Dao] + SumOver(bank, S)
    BY <1>1, <1>2, <1>3, SumRemove
  <1> HIDE DEF S
  <1>5. SumOver(bank, S) = bank[Self] + SumOver(bank, Users)
    BY <1>1, <1>2, <1>3, SumRemove
  <1>6. SumOver(bank, Users) \in Nat
    BY <1>1, <1>3, SumNat
  <1>7. bank[Dao] \in Nat /\ bank[Self] \in Nat
    BY <1>2, <1>3 DEF S
  <1> QED BY <1>4, <1>5, <1>6, <1>7

LEMMA SumIs == \A f, S : Sum(f, S) = SumOver(f, S)
  BY Zenon DEF Sum, SumOver, MapThenSumSet, MapThenFoldSet

\* Validation is the same in the four contracts.
LEMMA ThresholdOperators ==
    ASSUME NEW threshold, NEW supply
    PROVE  /\ TS!ValidThreshold(threshold, supply) = ValidThreshold(threshold, supply)
           /\ C20!ValidThreshold(threshold, supply) = ValidThreshold(threshold, supply)
           /\ C721!ValidThreshold(threshold, supply) = ValidThreshold(threshold, supply)
           /\ ON!ValidThreshold(threshold, supply) = ValidThreshold(threshold, supply)
  BY DEF ValidThreshold, assert_valid_percentage_threshold, assert_valid_absolute_count_threshold,
         TS!ValidThreshold, TS!assert_valid_percentage_threshold,
         TS!assert_valid_absolute_count_threshold,
         C20!ValidThreshold, C20!assert_valid_percentage_threshold,
         C20!assert_valid_absolute_count_threshold,
         C721!ValidThreshold, C721!assert_valid_percentage_threshold,
         C721!assert_valid_absolute_count_threshold,
         ON!ValidThreshold, ON!assert_valid_percentage_threshold,
         ON!assert_valid_absolute_count_threshold

LEMMA CountOperators == C721!Count = Cardinality(Nfts) /\ ON!Count = Cardinality(Nfts)
  BY Zenon DEF C721!Count, ON!Count, C721!Cardinality, ON!Cardinality, Cardinality

\* It is enough to know the kinds apart.
LEMMA WithinByKind ==
    ASSUME NEW threshold \in SUBSET ActiveThreshold, NEW supply,
           \A t \in threshold : t.kind = "percentage" => assert_valid_percentage_threshold(t.percent),
           \A t \in threshold : t.kind = "absolute_count" =>
               assert_valid_absolute_count_threshold(t.count, supply)
    PROVE  Within(threshold, supply)
  BY DEF Within, ValidThreshold, ActiveThreshold

\* A new dao-voting-token-staked: only what the users hold counts for a token it makes,
\* and what the DAO holds does not count for one that a factory makes.
LEMMA TokenStart ==
    ASSUME NEW msg, msg.asset \in {"existing", "new", "factory"},
           msg.threshold \in SUBSET ActiveThreshold,
           NEW bank \in [Holders -> Nat], NEW s \in TS!instantiate(msg, bank)
    PROVE  Within(msg.threshold, SumOver(bank, Holders))
  <1> DEFINE A == SumOver(bank, Holders)
             B == SumOver(bank, Users)
  <1>1. TS!Sum(bank, TS!Holders) = A /\ TS!Sum(bank, Users) = B
    <2>1. TS!Holders = Holders
      BY DEF TS!Holders, Holders
    <2>2. TS!Sum(bank, TS!Holders) = Sum(bank, TS!Holders) /\ TS!Sum(bank, Users) = Sum(bank, Users)
      BY SumOperators
    <2> QED BY <2>1, <2>2, SumIs
  <1>2. A \in Nat /\ B \in Nat /\ bank[Dao] \in Nat /\ B <= A
    BY SupplyIs
  <1> HIDE DEF A, B
  <1>3. \A t \in msg.threshold : t.kind = "percentage" => assert_valid_percentage_threshold(t.percent)
    BY DEF TS!instantiate, TS!assert_valid_percentage_threshold, assert_valid_percentage_threshold
  <1>4. ASSUME NEW t \in msg.threshold, t.kind = "absolute_count"
        PROVE  assert_valid_absolute_count_threshold(t.count, A)
    <2>1. t.count \in Nat
      BY <1>4 DEF ActiveThreshold
    <2>2. CASE msg.asset = "existing"
      <3>1. TS!ValidThreshold(msg.threshold, A)
        BY <1>1, <2>2 DEF TS!instantiate, TS!Ok
      <3> QED BY <1>4, <3>1, ThresholdOperators DEF ValidThreshold
    <2>3. CASE msg.asset = "new"
      <3>1. TS!Stakeable(msg, B)
        BY <1>1, <2>3 DEF TS!instantiate, TS!reply_issuer, TS!Ok
      <3>2. t.count # 0 /\ t.count <= B
        BY <1>4, <3>1 DEF TS!Stakeable, TS!assert_valid_absolute_count_threshold
      <3> QED BY <1>2, <2>1, <3>2 DEF assert_valid_absolute_count_threshold
    <2>4. CASE msg.asset = "factory"
      <3>1. TS!Stakeable(msg, A - bank[Dao])
        BY <1>1, <2>4 DEF TS!instantiate, TS!reply_factory, TS!Ok
      <3>2. t.count # 0 /\ t.count <= A - bank[Dao]
        BY <1>4, <3>1 DEF TS!Stakeable, TS!assert_valid_absolute_count_threshold
      <3> QED BY <1>2, <2>1, <3>2 DEF assert_valid_absolute_count_threshold
    <2> QED BY <2>2, <2>3, <2>4
  <1>5. Within(msg.threshold, A)
    BY <1>3, <1>4, WithinByKind
  <1> QED BY <1>5 DEF A

\* A new dao-voting-cw20-staked.
LEMMA Cw20Start ==
    ASSUME NEW msg, msg.threshold \in SUBSET ActiveThreshold,
           NEW bank \in [Holders -> Nat], NEW s \in C20!instantiate(msg, bank)
    PROVE  Within(msg.threshold, SumOver(bank, Holders))
  <1> DEFINE A == SumOver(bank, Holders)
  <1>1. C20!Sum(bank, C20!Holders) = A
    <2>1. C20!Holders = Holders
      BY DEF C20!Holders, Holders
    <2>2. C20!Sum(bank, C20!Holders) = Sum(bank, C20!Holders)
      BY SumOperators
    <2> QED BY <2>1, <2>2, SumIs
  <1> HIDE DEF A
  <1>2. \A t \in msg.threshold : t.kind = "percentage" => assert_valid_percentage_threshold(t.percent)
    BY DEF C20!instantiate, C20!assert_valid_percentage_threshold, assert_valid_percentage_threshold
  <1>3. \A t \in msg.threshold : t.kind = "absolute_count" =>
            assert_valid_absolute_count_threshold(t.count, A)
    BY <1>1 DEF C20!instantiate, C20!reply, C20!Ok, C20!assert_valid_absolute_count_threshold,
                assert_valid_absolute_count_threshold
  <1>4. Within(msg.threshold, A)
    BY <1>2, <1>3, WithinByKind
  <1> QED BY <1>4 DEF A

\* A factory is trusted to make as many NFTs as it should.
FactoryCounts ==
    \A msg \in Msgs["cw721"] : msg.asset = "factory" =>
        \A t \in msg.threshold : t.kind = "absolute_count" => t.count \in 1 .. Cardinality(Nfts)

\* A new dao-voting-cw721-staked.
LEMMA Cw721Start ==
    ASSUME FactoryCounts, NEW msg \in Msgs["cw721"], msg.asset \in {"existing", "new", "factory"},
           msg.threshold \in SUBSET ActiveThreshold, NEW owner, NEW s \in C721!instantiate(msg, owner)
    PROVE  Within(msg.threshold, Cardinality(Nfts))
  <1> DEFINE A == Cardinality(Nfts)
  <1>1. C721!Count = A /\ A \in Nat
    BY CountOperators, StakingAssumption, FS_CardinalityType
  <1>2. msg.asset = "factory" =>
            \A t \in msg.threshold : t.kind = "absolute_count" => t.count \in 1 .. A
    BY DEF FactoryCounts
  <1> HIDE DEF A
  <1>3. \A t \in msg.threshold : t.kind = "percentage" => assert_valid_percentage_threshold(t.percent)
    BY DEF C721!instantiate, C721!assert_valid_percentage_threshold,
           assert_valid_percentage_threshold
  <1>4. ASSUME NEW t \in msg.threshold, t.kind = "absolute_count"
        PROVE  assert_valid_absolute_count_threshold(t.count, A)
    <2>1. CASE msg.asset = "existing"
      <3>1. C721!assert_valid_absolute_count_threshold(t.count, A)
        BY <1>1, <1>4, <2>1 DEF C721!instantiate
      <3> QED BY <3>1 DEF C721!assert_valid_absolute_count_threshold,
                          assert_valid_absolute_count_threshold
    <2>2. CASE msg.asset = "new"
      <3>1. C721!assert_valid_absolute_count_threshold(t.count, A)
        BY <1>1, <1>4, <2>2 DEF C721!instantiate, C721!reply, C721!Ok
      <3> QED BY <3>1 DEF C721!assert_valid_absolute_count_threshold,
                          assert_valid_absolute_count_threshold
    <2>3. CASE msg.asset = "factory"
      <3>1. t.count \in 1 .. A
        BY <1>2, <1>4, <2>3
      <3> QED BY <1>1, <3>1 DEF assert_valid_absolute_count_threshold
    <2> QED BY <2>1, <2>2, <2>3
  <1>5. Within(msg.threshold, A)
    BY <1>3, <1>4, WithinByKind
  <1> QED BY <1>5 DEF A

\* A new dao-voting-onft-staked.
LEMMA OnftStart ==
    ASSUME NEW msg, msg.threshold \in SUBSET ActiveThreshold, NEW owner,
           NEW s \in ON!instantiate(msg, owner)
    PROVE  Within(msg.threshold, Cardinality(Nfts))
  <1>1. ON!ValidThreshold(msg.threshold, ON!Count)
    BY DEF ON!instantiate, ON!Ok
  <1> QED BY <1>1, CountOperators, ThresholdOperators DEF Within

\* What there is to be staked and how much of it is asked for.
AsBefore(s, t) ==
    /\ t.threshold = s.threshold
    /\ s.kind \in {"token", "cw20"} => SumOver(t.bank, Holders) = SumOver(s.bank, Holders)

\* A payment or a claim leaves as many tokens as there were.
LEMMA PaidOutSupply ==
    ASSUME NEW s, DOMAIN s = Fields, TokenTypes(s), NEW n, NEW u \in Users, NEW a \in Nat,
           NEW r \in PaidOut(s, n, u, a)
    PROVE  AsBefore(s, r)
  <1>1. CASE s.duration = {}
    <2>1. r = [s EXCEPT !.bank = Pay(s.bank, Self, u, a)] /\ a <= s.bank[Self]
      BY <1>1 DEF PaidOut, Ok
    <2>2. SumOver(Pay(s.bank, Self, u, a), Holders) = SumOver(s.bank, Holders)
      BY <2>1, PayKeepsSum DEF TokenTypes
    <2>3. r.threshold = s.threshold /\ r.bank = Pay(s.bank, Self, u, a)
      BY <2>1 DEF Fields
    <2> QED BY <2>2, <2>3 DEF AsBefore
  <1>2. CASE s.duration # {}
    <2>1. r = [s EXCEPT !.claims[u] = Append(@, Claim(a, ReleaseAt(s, n)))]
      BY <1>2 DEF PaidOut, Ok
    <2>2. r.threshold = s.threshold /\ r.bank = s.bank
      BY <2>1 DEF Fields
    <2> QED BY <2>2 DEF AsBefore
  <1> QED BY <1>1, <1>2

LEMMA ClaimedSupply ==
    ASSUME NEW s, DOMAIN s = Fields, TokenTypes(s), NEW n \in Nat, NEW u \in Users,
           NEW t \in Claimed(s, n, u)
    PROVE  AsBefore(s, t)
  <1> DEFINE c == s.claims[u]
             w == Waiting(c, n)
             a == Amount(Mature(c, n))
  <1>1. c \in Seq(TokenClaims)
    BY OwedIs
  <1>2. t = [s EXCEPT !.claims[u] = w, !.bank = Pay(s.bank, Self, u, a)] /\ a <= s.bank[Self]
    BY DEF Claimed, Ok
  <1> HIDE DEF c
  <1>3. a \in Nat
    <2>1. Mature(c, n) \in Seq(TokenClaims)
      BY <1>1, AmountSplit
    <2> QED BY <2>1, AmountIs
  <1> HIDE DEF w, a
  <1>4. SumOver(Pay(s.bank, Self, u, a), Holders) = SumOver(s.bank, Holders)
    BY <1>2, <1>3, PayKeepsSum DEF TokenTypes
  <1>5. t.threshold = s.threshold /\ t.bank = Pay(s.bank, Self, u, a)
    BY <1>2 DEF Fields
  <1> QED BY <1>4, <1>5 DEF AsBefore

\* So does a payment to the contract.
LEMMA PaidInSupply ==
    ASSUME NEW s, TokenTypes(s), NEW u \in Users, NEW a \in Nat, a <= s.bank[u], NEW t,
           t.threshold = s.threshold, t.bank = Pay(s.bank, u, Self, a)
    PROVE  AsBefore(s, t)
  BY PayKeepsSum DEF TokenTypes, AsBefore

\* Stakes and unstakes of tokens.
LEMMA StakeTokensSupply ==
    ASSUME NEW s, NEW n \in Nat, StakeInv(s, n), TokenTypes(s), NEW u \in Users, NEW a \in Nat,
           NEW t,
           \/ t \in TS!execute_stake(s, n, u, a)
           \/ t \in C20!execute_stake(s, n, u, a)
    PROVE  AsBefore(s, t)
  <1>1. DOMAIN s = Fields /\ s.total.now \in Nat /\ s.balance \in Nat
    BY StakeIsPart DEF StakeInv
  <1>2. CASE t \in TS!execute_stake(s, n, u, a)
    <2>1. a <= s.bank[u] /\ SameRest([s EXCEPT !.bank = Pay(s.bank, u, Self, a)], t)
      BY <1>1, <1>2, TokenStake
    <2>2. t.threshold = s.threshold /\ t.bank = Pay(s.bank, u, Self, a)
      BY <1>1, <2>1 DEF SameRest, Fields
    <2> QED BY <2>1, <2>2, PaidInSupply
  <1>3. CASE t \in C20!execute_stake(s, n, u, a)
    <2>1. a <= s.bank[u]
          /\ SameRest([s EXCEPT !.bank = Pay(s.bank, u, Self, a), !.balance = @ + a], t)
      BY <1>1, <1>3, Cw20Stake
    <2>2. t.threshold = s.threshold /\ t.bank = Pay(s.bank, u, Self, a)
      BY <1>1, <2>1 DEF SameRest, Fields
    <2> QED BY <2>1, <2>2, PaidInSupply
  <1> QED BY <1>2, <1>3

LEMMA UnstakeTokensSupply ==
    ASSUME NEW s, NEW n \in Nat, StakeInv(s, n), TokenTypes(s), NEW u \in Users, NEW a \in Nat,
           NEW t,
           \/ t \in TS!execute_unstake(s, n, u, a)
           \/ t \in C20!execute_unstake(s, n, u, a)
    PROVE  AsBefore(s, t)
  <1>1. DOMAIN s = Fields /\ s.total.now \in Nat /\ s.balance \in Nat
    BY StakeIsPart DEF StakeInv
  <1>2. CASE t \in TS!execute_unstake(s, n, u, a)
    <2>1. PICK r \in PaidOut(s, n, u, a) : SameRest(r, t)
      BY <1>1, <1>2, TokenUnstake
    <2>2. AsBefore(s, r)
      BY <1>1, PaidOutSupply
    <2>3. t.threshold = r.threshold /\ t.bank = r.bank
      BY <2>1 DEF SameRest, Fields
    <2> QED BY <2>2, <2>3 DEF AsBefore
  <1>3. CASE t \in C20!execute_unstake(s, n, u, a)
    <2> DEFINE c == C20!amount_to_claim(s.total.now, s.balance, a)
    <2>1. /\ s.total.now # 0
          /\ \E r \in PaidOut(s, n, u, c) : SameRest([r EXCEPT !.balance = r.balance - c], t)
      BY <1>1, <1>3, Cw20Unstake
    <2>2. c \in Nat
      <3> DEFINE m == a * s.balance
                 b == s.total.now
      <3>1. m \in Nat /\ b \in Nat /\ b > 0
        BY <1>1, <2>1
      <3> HIDE DEF m, b
      <3>2. m \div b \in Nat
        BY <3>1, FloorBounds
      <3> QED BY <3>2 DEF m, b, C20!amount_to_claim
    <2> HIDE DEF c
    <2>3. PICK r \in PaidOut(s, n, u, c) : SameRest([r EXCEPT !.balance = r.balance - c], t)
      BY <2>1
    <2>4. AsBefore(s, r)
      BY <1>1, <2>2, PaidOutSupply
    <2>5. DOMAIN r = Fields
      BY <1>1, PaidOutStakes DEF SameStakes
    <2>6. t.threshold = r.threshold /\ t.bank = r.bank
      BY <2>3, <2>5 DEF SameRest, Fields
    <2> QED BY <2>4, <2>6 DEF AsBefore
  <1> QED BY <1>2, <1>3

\* The handlers of the modules for tokens, UpdateActiveThreshold excepted.
LEMMA TokenSupplySteps ==
    ASSUME SInv, IsToken, TokenTypes(store), Next
    PROVE  AsBefore(store, store') \/ \E x \in Thresholds[kind] : UpdateActiveThreshold(Dao, x)
  <1>1. /\ height \in Nat /\ StakeInv(store, height) /\ DOMAIN store = Fields
        /\ kind \in {"token", "cw20"}
    BY DEF SInv, StakeInv, IsToken, kind
  <1>2. ASSUME NEW u \in Users, NEW a \in Amounts, Stake(u, a) PROVE AsBefore(store, store')
    <2>1. \/ store' \in TS!execute_stake(store, height, u, a)
          \/ store' \in C20!execute_stake(store, height, u, a)
      BY <1>1, <1>2 DEF Stake, Becomes
    <2>2. a \in Nat
      BY StakedAssumption
    <2> QED BY <1>1, <2>1, <2>2, StakeTokensSupply
  <1>3. ASSUME NEW u \in Users, NEW a \in Amounts, UnstakeTokens(u, a) PROVE AsBefore(store, store')
    <2>1. \/ store' \in TS!execute_unstake(store, height, u, a)
          \/ store' \in C20!execute_unstake(store, height, u, a)
      BY <1>1, <1>3 DEF UnstakeTokens, UnstakeResults, Becomes, kind
    <2>2. a \in Nat
      BY StakedAssumption
    <2> QED BY <1>1, <2>1, <2>2, UnstakeTokensSupply
  <1>4. ASSUME NEW u \in Users, NEW a \in Amounts, Fund(u, a) PROVE AsBefore(store, store')
    <2>1. a \in Nat /\ store' \in C20!execute_fund(store, u, a)
      BY <1>4, StakedAssumption DEF Fund, Becomes
    <2>2. /\ store' = [store EXCEPT !.bank = Pay(store.bank, u, Self, a), !.balance = @ + a]
          /\ a <= store.bank[u]
      BY <2>1 DEF C20!execute_fund, C20!Ok, C20!Pay, Pay
    <2>3. store'.threshold = store.threshold /\ store'.bank = Pay(store.bank, u, Self, a)
      BY <1>1, <2>2 DEF Fields
    <2> QED BY <2>1, <2>2, <2>3, PaidInSupply
  <1>5. ASSUME NEW u \in Users, ClaimMature(u) PROVE AsBefore(store, store')
    <2>1. store' \in Claimed(store, height, u)
      <3>1. CASE kind = "token"
        <4>1. store' \in TS!execute_claim(store, height, u)
          BY <1>5, <3>1 DEF ClaimMature, ClaimResults, Becomes, kind
        <4> QED BY <4>1, ClaimOperators
      <3>2. CASE kind = "cw20"
        <4>1. store' \in C20!execute_claim(store, height, u)
          BY <1>5, <3>2 DEF ClaimMature, ClaimResults, Becomes, kind
        <4> QED BY <4>1, ClaimOperators
      <3> QED BY <1>1, <3>1, <3>2
    <2> QED BY <1>1, <2>1, ClaimedSupply
  <1>6. ASSUME NEW d, UpdateConfig(Dao, d) PROVE AsBefore(store, store')
    <2>1. store' = [store EXCEPT !.duration = d]
      BY <1>1, <1>6, ConfigSteps
    <2> QED BY <1>1, <2>1 DEF AsBefore, Fields
  <1>7. ASSUME AddHook(Dao) \/ RemoveHook(Dao) PROVE AsBefore(store, store')
    <2>1. HookSet(store, store')
      BY <1>1, <1>7, HookSteps
    <2> QED BY <1>1, <2>1 DEF HookSet, AsBefore, Fields
  <1>8. CASE NextBlock
    BY <1>8 DEF NextBlock, AsBefore
  <1>9. ASSUME NEW u, NEW n, StakeNft(u, n) PROVE FALSE
    BY <1>1, <1>9 DEF StakeNft
  <1>10. ASSUME NEW u, NEW ids,
                PrepareStake(u, ids) \/ ConfirmStake(u, ids) \/ UnstakeNfts(u, ids)
         PROVE  FALSE
    BY <1>1, <1>10 DEF PrepareStake, ConfirmStake, UnstakeNfts
  <1>11. ASSUME NEW n, NEW to, TransferNft(n, to) PROVE FALSE
    BY <1>1, <1>11 DEF TransferNft
  <1>12. ASSUME NEW who, NEW ids, NEW recipient, CancelStake(who, ids, recipient) PROVE FALSE
    BY <1>1, <1>12 DEF CancelStake
  <1> QED BY <1>2, <1>3, <1>4, <1>5, <1>6, <1>7, <1>8, <1>9, <1>10, <1>11, <1>12 DEF Next

\* The handlers of the modules for NFTs, UpdateActiveThreshold excepted.
LEMMA NftSupplySteps ==
    ASSUME SInv, IsNft, Next
    PROVE  AsBefore(store, store') \/ \E x \in Thresholds[kind] : UpdateActiveThreshold(Dao, x)
  <1>1. /\ height \in Nat /\ StakeInv(store, height) /\ DOMAIN store = Fields
        /\ kind \in {"cw721", "onft"}
    BY DEF SInv, StakeInv, IsNft, kind
  <1>2. ASSUME store'.threshold = store.threshold PROVE AsBefore(store, store')
    BY <1>1, <1>2 DEF AsBefore, kind
  <1>3. ASSUME NEW u \in Users, NEW n \in Nfts, StakeNft(u, n) PROVE AsBefore(store, store')
    <2>1. SameRest([store EXCEPT !.owner[n] = Self, !.staked = @ \cup {<<u, n>>}], store')
      BY <1>1, <1>3, StakeNftSteps
    <2>2. store'.threshold = store.threshold
      BY <1>1, <2>1 DEF SameRest, Fields
    <2> QED BY <1>2, <2>2
  <1>4. ASSUME NEW u \in Users, NEW ids \in Lists, PrepareStake(u, ids) PROVE AsBefore(store, store')
    <2>1. store' \in ON!execute_prepare_stake(store, u, ids)
      BY <1>4 DEF PrepareStake, Becomes
    <2>2. store' = [store EXCEPT !.prepared = Owners(store.prepared, Range(ids), u)]
      BY <2>1, OnftPrepare
    <2>3. store'.threshold = store.threshold
      BY <1>1, <2>2 DEF Fields
    <2> QED BY <1>2, <2>3
  <1>5. ASSUME NEW u \in Users, NEW ids \in Lists, ConfirmStake(u, ids) PROVE AsBefore(store, store')
    <2>1. SameRest([store EXCEPT !.prepared = Owners(store.prepared, Range(ids), NoOne),
                                 !.staked = @ \cup ({u} \X Range(ids))], store')
      BY <1>1, <1>5, ConfirmSteps
    <2>2. store'.threshold = store.threshold
      BY <1>1, <2>1 DEF SameRest, Fields
    <2> QED BY <1>2, <2>2
  <1>6. ASSUME NEW u \in Users, NEW ids \in Lists, UnstakeNfts(u, ids) PROVE AsBefore(store, store')
    <2>1. Unstaked(store, store', height, u, ids)
      BY <1>1, <1>6, UnstakeNftSteps
    <2>2. store'.threshold = store.threshold
      BY <2>1 DEF Unstaked, Fields
    <2> QED BY <1>2, <2>2
  <1>7. ASSUME NEW n \in Nfts, NEW to, TransferNft(n, to) PROVE AsBefore(store, store')
    <2>1. store' = [store EXCEPT !.owner[n] = to]
      BY <1>7 DEF TransferNft, Becomes
    <2>2. store'.threshold = store.threshold
      BY <1>1, <2>1 DEF Fields
    <2> QED BY <1>2, <2>2
  <1>8. ASSUME NEW who, NEW ids \in Lists, NEW recipient, CancelStake(who, ids, recipient)
        PROVE  AsBefore(store, store')
    <2>1. ids \in Seq(Nfts) /\ store' \in ON!execute_cancel_stake(store, who, ids, recipient)
      BY <1>8, StakedAssumption DEF CancelStake, Becomes
    <2>2. Cancelled(store, store', who, ids, recipient)
      BY <1>1, <2>1, OnftCancel
    <2>3. PICK o, p, k : store' = [store EXCEPT !.owner = o, !.prepared = p, !.recalled = k]
      BY <2>2, Zenon DEF Cancelled
    <2>4. store'.threshold = store.threshold
      BY <1>1, <2>3 DEF Fields
    <2> QED BY <1>2, <2>4
  <1>9. ASSUME NEW u \in Users, ClaimMature(u) PROVE AsBefore(store, store')
    <2>1. NftsClaimed(store, store', height, u)
      <3>1. CASE kind = "cw721"
        <4>1. store' \in C721!execute_claim_nfts(store, height, u)
          BY <1>9, <3>1 DEF ClaimMature, ClaimResults, Becomes, kind
        <4> QED BY <1>1, <4>1, Cw721Claim
      <3>2. CASE kind = "onft"
        <4>1. store' \in ON!execute_claim_nfts(store, height, u)
          BY <1>9, <3>2 DEF ClaimMature, ClaimResults, Becomes, kind
        <4> QED BY <1>1, <4>1, OnftClaim
      <3> QED BY <1>1, <3>1, <3>2
    <2>2. store'.threshold = store.threshold
      BY <1>1, <2>1 DEF NftsClaimed, Fields
    <2> QED BY <1>2, <2>2
  <1>10. ASSUME NEW d, UpdateConfig(Dao, d) PROVE AsBefore(store, store')
    <2>1. store' = [store EXCEPT !.duration = d]
      BY <1>1, <1>10, ConfigSteps
    <2> QED BY <1>1, <2>1 DEF AsBefore, Fields
  <1>11. ASSUME AddHook(Dao) \/ RemoveHook(Dao) PROVE AsBefore(store, store')
    <2>1. HookSet(store, store')
      BY <1>1, <1>11, HookSteps
    <2> QED BY <1>1, <2>1 DEF HookSet, AsBefore, Fields
  <1>12. CASE NextBlock
    BY <1>12 DEF NextBlock, AsBefore
  <1>13. ASSUME NEW u, NEW n, Stake(u, n) \/ UnstakeTokens(u, n) \/ Fund(u, n) PROVE FALSE
    BY <1>1, <1>13 DEF Stake, UnstakeTokens, Fund, Becomes
  <1> QED BY <1>3, <1>4, <1>5, <1>6, <1>7, <1>8, <1>9, <1>10, <1>11, <1>12, <1>13 DEF Next

\* The DAO's new threshold is compared with what there is to be staked at that time.
LEMMA ThresholdChecked ==
    ASSUME StakeInv(store, height), NEW x \in Thresholds[kind], UpdateActiveThreshold(Dao, x)
    PROVE  Within(store'.threshold, Supply(store'))
  <1>1. DOMAIN store = Fields /\ store.kind \in Kinds
    BY DEF StakeInv
  <1>2. store' = [store EXCEPT !.threshold = x]
    BY ThresholdSteps
  <1>3. /\ store'.kind = store.kind /\ store'.bank = store.bank /\ store'.threshold = x
    BY <1>1, <1>2 DEF Fields
  <1>4. Supply(store') = Supply(store)
    BY <1>3 DEF Supply
  <1>5. x \in SUBSET ActiveThreshold
    BY <1>1, StakedAssumption DEF Kinds, kind
  <1>6. CASE kind = "token"
    <2>1. TS!ValidThreshold(x, TS!supply(store))
      BY <1>6 DEF UpdateActiveThreshold, Becomes, TS!update_active_threshold,
                  TS!execute_update_active_threshold, TS!Ok
    <2>2. TS!supply(store) = SumOver(store.bank, Holders)
      <3>1. TS!Holders = Holders
        BY DEF TS!Holders, Holders
      <3>2. TS!supply(store) = TS!Sum(store.bank, Holders)
        BY <3>1 DEF TS!supply
      <3> QED BY <3>2, SumOperators, SumIs
    <2>3. Supply(store) = SumOver(store.bank, Holders)
      BY <1>6 DEF Supply, kind
    <2>4. ValidThreshold(x, Supply(store))
      BY <2>1, <2>2, <2>3, ThresholdOperators
    <2> QED BY <1>3, <1>4, <1>5, <2>4 DEF Within
  <1>7. CASE kind = "cw20"
    <2>1. C20!ValidThreshold(x, C20!token_supply(store))
      BY <1>7 DEF UpdateActiveThreshold, Becomes, C20!update_active_threshold,
                  C20!execute_update_active_threshold, C20!Ok
    <2>2. C20!token_supply(store) = SumOver(store.bank, Holders)
      <3>1. C20!Holders = Holders
        BY DEF C20!Holders, Holders
      <3>2. C20!token_supply(store) = C20!Sum(store.bank, Holders)
        BY <3>1 DEF C20!token_supply
      <3> QED BY <3>2, SumOperators, SumIs
    <2>3. Supply(store) = SumOver(store.bank, Holders)
      BY <1>7 DEF Supply, kind
    <2>4. ValidThreshold(x, Supply(store))
      BY <2>1, <2>2, <2>3, ThresholdOperators
    <2> QED BY <1>3, <1>4, <1>5, <2>4 DEF Within
  <1>8. CASE kind \in {"cw721", "onft"}
    <2>1. \/ C721!ValidThreshold(x, C721!Count)
          \/ ON!ValidThreshold(x, ON!Count)
      BY <1>8 DEF UpdateActiveThreshold, Becomes, C721!update_active_threshold,
                  C721!execute_update_active_threshold, C721!Ok, ON!update_active_threshold,
                  ON!execute_update_active_threshold, ON!Ok
    <2>2. Supply(store) = Cardinality(Nfts)
      BY <1>8 DEF Supply, kind
    <2>3. ValidThreshold(x, Supply(store))
      BY <2>1, <2>2, CountOperators, ThresholdOperators
    <2> QED BY <1>3, <1>4, <1>5, <2>3 DEF Within
  <1> QED BY <1>1, <1>6, <1>7, <1>8 DEF Kinds, kind

\* The inductive invariant: the active threshold asks for no more than there is.
AInv == Within(store.threshold, Supply(store))

LEMMA ThresholdInit == ASSUME FactoryCounts PROVE Init => AInv
  <1> SUFFICES ASSUME Init PROVE AInv
    OBVIOUS
  <1>1. ASSUME NEW k, NEW msg, NEW b, NEW o, store = NewStore(k, msg, b, o)
        PROVE  store.kind = k /\ store.threshold = msg.threshold /\ store.bank = b
    BY <1>1 DEF NewStore
  <1>2. ASSUME NEW msg \in Msgs["token"], NEW t \in Tokens["token"], store \in TS!instantiate(msg, t)
        PROVE  AInv
    <2>1. /\ msg.asset \in {"existing", "new", "factory"} /\ msg.threshold \in SUBSET ActiveThreshold
          /\ t \in [Holders -> Nat]
      BY StakedAssumption
    <2>2. Within(msg.threshold, SumOver(t, Holders))
      BY <1>2, <2>1, TokenStart
    <2>3. store = NewStore("token", msg, t, <<>>)
      BY <1>2, <2>1, TokenNew
    <2> QED BY <1>1, <2>2, <2>3 DEF AInv, Supply
  <1>3. ASSUME NEW msg \in Msgs["cw20"], NEW t \in Tokens["cw20"], store \in C20!instantiate(msg, t)
        PROVE  AInv
    <2>1. msg.threshold \in SUBSET ActiveThreshold /\ t \in [Holders -> Nat]
      BY StakedAssumption
    <2>2. Within(msg.threshold, SumOver(t, Holders))
      BY <1>3, <2>1, Cw20Start
    <2>3. store = NewStore("cw20", msg, t, <<>>)
      BY <1>3, Cw20New
    <2> QED BY <1>1, <2>2, <2>3 DEF AInv, Supply
  <1>4. ASSUME NEW msg \in Msgs["cw721"], NEW t, store \in C721!instantiate(msg, t)
        PROVE  AInv
    <2>1. msg.asset \in {"existing", "new", "factory"} /\ msg.threshold \in SUBSET ActiveThreshold
      BY StakedAssumption
    <2>2. Within(msg.threshold, Cardinality(Nfts))
      BY <1>4, <2>1, Cw721Start
    <2>3. store = NewStore("cw721", msg, [h \in Holders |-> 0], t)
      BY <1>4, Cw721New
    <2> QED BY <1>1, <2>2, <2>3 DEF AInv, Supply
  <1>5. ASSUME NEW msg \in Msgs["onft"], NEW t, store \in ON!instantiate(msg, t)
        PROVE  AInv
    <2>1. msg.threshold \in SUBSET ActiveThreshold
      BY StakedAssumption
    <2>2. Within(msg.threshold, Cardinality(Nfts))
      BY <1>5, <2>1, OnftStart
    <2>3. store = NewStore("onft", msg, [h \in Holders |-> 0], t)
      BY <1>5, OnftNew
    <2> QED BY <1>1, <2>2, <2>3 DEF AInv, Supply
  <1> QED BY <1>2, <1>3, <1>4, <1>5 DEF Init

LEMMA ThresholdStep ==
    ASSUME AInv, WInv, [Next]_vars
    PROVE  AInv'
  <1>1. SInv /\ StakeInv(store, height) /\ store.kind \in Kinds
    BY DEF WInv, NInv, SInv, StakeInv
  <1>2. store'.kind = store.kind
    BY <1>1, StakesStep
  <1>3. ASSUME AsBefore(store, store') PROVE AInv'
    <2>1. store'.threshold = store.threshold /\ Supply(store') = Supply(store)
      BY <1>2, <1>3 DEF AsBefore, Supply
    <2> QED BY <2>1 DEF AInv
  <1>4. ASSUME NEW x \in Thresholds[kind], UpdateActiveThreshold(Dao, x) PROVE AInv'
    BY <1>1, <1>4, ThresholdChecked DEF AInv
  <1>5. CASE Next
    <2>1. CASE IsToken
      <3>1. TokenTypes(store)
        BY <2>1 DEF WInv, TokenInv
      <3> QED BY <1>1, <1>3, <1>4, <1>5, <2>1, <3>1, TokenSupplySteps
    <2>2. CASE IsNft
      BY <1>1, <1>3, <1>4, <1>5, <2>2, NftSupplySteps
    <2> QED BY <1>1, <2>1, <2>2 DEF IsToken, IsNft, Kinds
  <1>6. CASE UNCHANGED vars
    BY <1>6 DEF AInv, vars
  <1> QED BY <1>5, <1>6

\* The four queries ask for the same stakes.
LEMMA ActiveOperators ==
    ASSUME NEW threshold, NEW staked, NEW supply
    PROVE  /\ TS!IsActive(threshold, staked, supply) = IsActive(threshold, staked, supply)
           /\ C20!IsActive(threshold, staked, supply) = IsActive(threshold, staked, supply)
           /\ C721!IsActive(threshold, staked, supply) = IsActive(threshold, staked, supply)
           /\ ON!IsActive(threshold, staked, supply) = IsActive(threshold, staked, supply)
  BY Zenon DEF IsActive, RequiredStake, TS!IsActive, TS!RequiredStake, C20!IsActive,
               C20!RequiredStake, C721!IsActive, C721!RequiredStake, ON!IsActive, ON!RequiredStake

\* Were everything staked, the module would be active.
LEMMA AllStaked ==
    ASSUME Nfts # {}, NEW s, DOMAIN s = Fields, s.kind \in Kinds, NEW n,
           s.kind \in {"token", "cw20"} => TokenTypes(s), Within(s.threshold, Supply(s))
    PROVE  Active([s EXCEPT !.total = Snapshot(Supply(s))], n)
  <1> DEFINE S == Supply(s)
             t == [s EXCEPT !.total = Snapshot(S)]
  <1>1. S \in Nat /\ (s.kind \in {"cw721", "onft"} => S # 0)
    <2>1. CASE s.kind \in {"token", "cw20"}
      BY <2>1, SupplyIs DEF Supply, TokenTypes
    <2>2. CASE ~(s.kind \in {"token", "cw20"})
      <3>1. Supply(s) = Cardinality(Nfts)
        BY <2>2 DEF Supply
      <3>2. Cardinality(Nfts) \in Nat /\ Cardinality(Nfts) # 0
        BY StakingAssumption, FS_CardinalityType, FS_EmptySet
      <3> QED BY <3>1, <3>2
    <2> QED BY <2>1, <2>2
  <1>2. /\ t.kind = s.kind /\ t.threshold = s.threshold /\ t.bank = s.bank /\ t.total = Snapshot(S)
    BY DEF Fields
  <1>3. may_load_at_height(t.total, n) = S /\ t.total.now = S
    BY <1>2 DEF Snapshot, may_load_at_height
  <1> HIDE DEF t
  <1>4. IsActive(t.threshold, S, S)
    <2>1. ASSUME NEW x \in s.threshold PROVE S >= RequiredStake(x, S)
      <3> HIDE DEF S
      <3> QED BY <1>1, RequiredWithin DEF S
    <2> QED BY <1>2, <2>1 DEF IsActive
  <1> HIDE DEF S
  <1>5. CASE s.kind = "token"
    <2>1. TS!supply(t) = S
      <3>1. TS!Holders = Holders
        BY DEF TS!Holders, Holders
      <3>2. TS!supply(t) = TS!Sum(s.bank, Holders)
        BY <1>2, <3>1 DEF TS!supply
      <3>3. S = SumOver(s.bank, Holders)
        BY <1>5 DEF S, Supply
      <3> QED BY <3>2, <3>3, SumOperators, SumIs
    <2>2. TS!query_is_active(t)
      BY <1>3, <1>4, <2>1, ActiveOperators DEF TS!query_is_active
    <2>3. Active(t, n)
      BY <1>2, <1>5, <2>2 DEF Active
    <2> QED BY <2>3 DEF t, S
  <1>6. CASE s.kind = "cw20"
    <2>1. C20!token_supply(t) = S
      <3>1. C20!Holders = Holders
        BY DEF C20!Holders, Holders
      <3>2. C20!token_supply(t) = C20!Sum(s.bank, Holders)
        BY <1>2, <3>1 DEF C20!token_supply
      <3>3. S = SumOver(s.bank, Holders)
        BY <1>6 DEF S, Supply
      <3> QED BY <3>2, <3>3, SumOperators, SumIs
    <2>2. C20!query_total_staked_at_height(t, n) = S
      BY <1>3, Cw20Operators DEF C20!query_total_staked_at_height
    <2>3. C20!query_is_active(t, n)
      BY <1>4, <2>1, <2>2, ActiveOperators DEF C20!query_is_active
    <2>4. Active(t, n)
      BY <1>2, <1>6, <2>3 DEF Active
    <2> QED BY <2>4 DEF t, S
  <1>7. CASE s.kind \in {"cw721", "onft"}
    <2>1. S = Cardinality(Nfts) /\ S # 0
      BY <1>1, <1>7 DEF S, Supply
    <2>2. C721!may_load_at_height(t.total, n) = S /\ ON!may_load_at_height(t.total, n) = S
      BY <1>3, Cw721Operators, OnftOperators
    <2>3. C721!query_is_active(t, n) /\ ON!query_is_active(t, n)
      BY <1>4, <2>1, <2>2, ActiveOperators, CountOperators DEF C721!query_is_active,
         ON!query_is_active
    <2>4. Active(t, n)
      BY <1>2, <1>7, <2>3 DEF Active
    <2> QED BY <2>4 DEF t, S
  <1> QED BY <1>5, <1>6, <1>7 DEF Kinds

\* The active threshold is never out of reach (execute_update_active_threshold and instantiate
\* of the four modules, against query_is_active): were all tokens or NFTs there are staked, the
\* module would be active, however the required stakes are rounded.  For the NFTs this takes a
\* collection that is not empty, as no percentage is met without a stake, and one that has the
\* NFTs an absolute count asks for if a factory makes it: the module does not compare them.
THEOREM ThresholdReachable ==
    ASSUME Nfts # {}, FactoryCounts
    PROVE  Spec => []Activatable
  <1>1. ASSUME AInv, WInv PROVE Activatable
    <2>1. DOMAIN store = Fields /\ store.kind \in Kinds
      BY <1>1 DEF WInv, NInv, SInv, StakeInv
    <2>2. store.kind \in {"token", "cw20"} => TokenTypes(store)
      BY <1>1 DEF WInv, IsToken, TokenInv
    <2>3. Active([store EXCEPT !.total = Snapshot(Supply(store))], height)
      BY <1>1, <2>1, <2>2, AllStaked DEF AInv
    <2>4. Supply(store) = IF kind \in {"token", "cw20"} THEN Sum(store.bank, Holders)
                          ELSE Cardinality(Nfts)
      BY SumIs DEF Supply, kind
    <2> QED BY <2>3, <2>4, Zenon DEF Activatable
  <1>2. AInv /\ WInv => Activatable
    BY <1>1
  <1>3. AInv /\ WInv /\ [Next]_vars => AInv'
    BY ThresholdStep
  <1>4. Init => AInv
    BY ThresholdInit
  <1> QED BY <1>2, <1>3, <1>4, WithdrawalHolds, PTL DEF Spec
=============================================================================
