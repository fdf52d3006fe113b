-------------------------- MODULE ContractsProofs --------------------------
(***************************************************************************)
(* The contracts that stand alone, proved for any number of pools, owners, *)
(* accounts, requests and words.                                           *)
(*                                                                         *)
(* The registry and its reward pools: the inductive invariant is the       *)
(* conjunction of the properties with the types, since each operation      *)
(* reads one map to write another and none of them is inductive alone.     *)
(* The raffle: its loop is followed draw by draw, and what is left of the  *)
(* list and what was drawn are together the list; and answers that draw    *)
(* one candidate are turned, one to one, into answers that draw another.   *)
(* The paymaster: what it reads as the number is never less than the       *)
(* number.                                                                 *)
(***************************************************************************)
EXTENDS RewardPoolRegistry, RebelRunRaffle, RedeemPaymaster,
        CountingProofs, SequenceTheorems, FunctionTheorems

-----------------------------------------------------------------------------
(* The registry                                                            *)

\* An owner with a reward pool has a consumer.
ConsumerThere == \A p \in RewardPools : Created(p) => vrfConsumer[rewardPool[p].owner] # 0

RegistryInv == TypeOK /\ RolesBounded /\ AssetPoolIds /\ NamesResolve /\ OwnersAgree /\ ConsumerThere

PoolInv == PoolTypeOK /\ RolesBounded /\ AssetPoolIds

\* A storage that agrees with its asset pools, as AssetPoolIds asks of created pools.
Numbered(p, s) ==
    /\ s.assetPoolId >= 1
    /\ DOMAIN s.assetPools = 1..s.assetPoolId - 1
    /\ \A k \in DOMAIN s.assetPools : assetPool[s.assetPools[k]] = [rewardPool |-> p, id |-> k]
    /\ \A a \in AssetPools : assetPool[a].rewardPool = p =>
         assetPool[a].id \in DOMAIN s.assetPools /\ s.assetPools[assetPool[a].id] = a

Bounded(s) ==
    /\ Cardinality(s.admins) <= MAX_ADMINS
    /\ Cardinality(s.transferrers) <= MAX_TRANSFERRERS

-----------------------------------------------------------------------------
(* Roles *)

\* A list names no more accounts than it is long.
LEMMA RangeOfList ==
    ASSUME NEW list \in Seq(Users)
    PROVE  /\ Range(list) \subseteq Users /\ IsFiniteSet(Range(list))
           /\ Cardinality(Range(list)) \in Nat /\ Cardinality(Range(list)) <= Len(list)
  <1>1. list \in [1..Len(list) -> Users] /\ Len(list) \in Nat
    OBVIOUS
  <1>2. Range(list) \subseteq Users
    BY <1>1 DEF Range
  <1>3. list \in Surjection(1..Len(list), Range(list))
    BY <1>1 DEF Surjection, Range
  <1>4. IsFiniteSet(1..Len(list)) /\ Cardinality(1..Len(list)) = Len(list)
    <2>1. 1 \in Int /\ Len(list) \in Int /\ Len(list) >= 0
      BY <1>1
    <2>2. /\ IsFiniteSet(1..Len(list))
          /\ Cardinality(1..Len(list)) = IF 1 > Len(list) THEN 0 ELSE Len(list) - 1 + 1
      BY <2>1, FS_Interval
    <2> QED
      BY <2>1, <2>2
  <1>5. IsFiniteSet(Range(list)) /\ Cardinality(Range(list)) <= Len(list)
    BY <1>3, <1>4, FS_Surjection
  <1> QED
    BY <1>2, <1>5, FS_CardinalityType

\* The limit of addAdmins and addTransferrers is enough, although it counts names twice.
LEMMA FitsBounds ==
    ASSUME NEW list \in Seq(Users), NEW S \in SUBSET Users, NEW max \in Nat, Fits(list, S, max)
    PROVE  Cardinality(S \cup Range(list)) <= max
  <1>1. IsFiniteSet(S) /\ Cardinality(S) \in Nat
    BY RewardPoolAssumption, FS_Subset, FS_CardinalityType
  <1>2. IsFiniteSet(Range(list)) /\ Cardinality(Range(list)) \in Nat
        /\ Cardinality(Range(list)) <= Len(list)
    BY RangeOfList
  <1>3. IsFiniteSet(S \cap Range(list)) /\ Cardinality(S \cap Range(list)) \in Nat
    BY <1>1, FS_Intersection, FS_CardinalityType
  <1>4. Cardinality(S \cup Range(list))
          = Cardinality(S) + Cardinality(Range(list)) - Cardinality(S \cap Range(list))
    BY <1>1, <1>2, FS_Union
  <1>5. Len(list) + Cardinality(S) <= max /\ Len(list) \in Nat
    BY DEF Fits
  <1> QED
    BY <1>1, <1>2, <1>3, <1>4, <1>5

\* Taking roles away keeps the limits.
LEMMA FewerFit ==
    ASSUME NEW S \in SUBSET Users, NEW T, NEW max \in Nat, Cardinality(S) <= max
    PROVE  Cardinality(S \ T) <= max
  <1>1. IsFiniteSet(S)
    BY RewardPoolAssumption, FS_Subset
  <1>2. IsFiniteSet(S \ T) /\ Cardinality(S \ T) <= Cardinality(S)
    BY <1>1, FS_Subset
  <1> QED
    BY <1>1, <1>2, FS_CardinalityType

-----------------------------------------------------------------------------
(* Reward pools *)

\* The storage after _createAssetPool.
LEMMA AddAssetPoolStorage ==
    ASSUME NEW p \in RewardPools, NEW s, NEW a \in AssetPools, StorageOK(p, s), Numbered(p, s)
    PROVE  LET t == AddAssetPool(s, a)
           IN  /\ StorageOK(p, t)
               /\ t.owner = s.owner /\ t.name = s.name
               /\ t.admins = s.admins /\ t.transferrers = s.transferrers
               /\ t.assetPoolId = s.assetPoolId + 1
               /\ DOMAIN t.assetPools = 1..t.assetPoolId - 1
               /\ \A k \in DOMAIN s.assetPools : t.assetPools[k] = s.assetPools[k]
               /\ t.assetPools[s.assetPoolId] = a
  <1> DEFINE t == AddAssetPool(s, a)
             m == [k \in DOMAIN s.assetPools \cup {s.assetPoolId} |->
                     IF k = s.assetPoolId THEN a ELSE s.assetPools[k]]
  <1>1. DOMAIN s = DOMAIN BlankRewardPool
    BY DEF StorageOK
  <1>2. t = [s EXCEPT !.assetPools = m, !.assetPoolId = s.assetPoolId + 1]
    BY DEF AddAssetPool
  <1>3. DOMAIN t = DOMAIN s
    BY <1>2
  <1>4. /\ t.owner = s.owner /\ t.name = s.name /\ t.active = s.active
        /\ t.redeemToken = s.redeemToken /\ t.withdrawAddress = s.withdrawAddress
        /\ t.admins = s.admins /\ t.transferrers = s.transferrers
        /\ t.assetPoolId = s.assetPoolId + 1 /\ t.assetPools = m
    BY <1>1, <1>2 DEF BlankRewardPool
  <1>5. s.assetPoolId \in Nat /\ s.assetPoolId >= 1 /\ DOMAIN s.assetPools = 1..s.assetPoolId - 1
    BY DEF StorageOK, Numbered
  <1>6. DOMAIN m = 1..(s.assetPoolId + 1) - 1
    BY <1>5
  <1>7. \A k \in DOMAIN s.assetPools : m[k] = s.assetPools[k]
    BY <1>5
  <1>8. m[s.assetPoolId] = a
    OBVIOUS
  <1>9. \A k \in DOMAIN m : m[k] \in AssetPools
    BY DEF StorageOK
  <1>10. StorageOK(p, t)
    BY <1>1, <1>3, <1>4, <1>5, <1>9 DEF StorageOK
  <1> QED
    BY <1>4, <1>6, <1>7, <1>8, <1>10

\* What a new asset pool leaves of the invariant of the reward pools.
LEMMA CreatesAssetPoolKeeps ==
    ASSUME PoolInv,
           NEW p \in RewardPools, NEW s, NEW a \in AssetPools, NEW amount,
           StorageOK(p, s), s.owner # ZeroAddress, Numbered(p, s), Bounded(s),
           CreatesAssetPool(p, s, a, amount)
    PROVE  /\ PoolInv'
           /\ rewardPool'[p].owner = s.owner /\ rewardPool'[p].name = s.name
           /\ \A q \in RewardPools \ {p} : rewardPool'[q] = rewardPool[q]
  <1> DEFINE t == AddAssetPool(s, a)
  <1>1. /\ StorageOK(p, t)
        /\ t.owner = s.owner /\ t.name = s.name
        /\ t.admins = s.admins /\ t.transferrers = s.transferrers
        /\ t.assetPoolId = s.assetPoolId + 1
        /\ DOMAIN t.assetPools = 1..t.assetPoolId - 1
        /\ \A k \in DOMAIN s.assetPools : t.assetPools[k] = s.assetPools[k]
        /\ t.assetPools[s.assetPoolId] = a
    BY AddAssetPoolStorage
  <1> HIDE DEF t
  <1>2. /\ DOMAIN rewardPool = RewardPools
        /\ assetPool \in [AssetPools -> [rewardPool : RewardPools \cup {ZeroAddress}, id : Nat]]
        /\ \A q \in RewardPools : StorageOK(q, rewardPool[q])
    BY DEF PoolInv, PoolTypeOK
  <1>3. /\ assetPool[a].rewardPool = ZeroAddress
        /\ assetPool' = [assetPool EXCEPT ![a] = [rewardPool |-> p, id |-> s.assetPoolId]]
        /\ rewardPool' = [rewardPool EXCEPT ![p] = t]
    BY DEF CreatesAssetPool, t
  <1>4. /\ DOMAIN rewardPool' = RewardPools
        /\ rewardPool'[p] = t
        /\ \A q \in RewardPools \ {p} : rewardPool'[q] = rewardPool[q]
    BY <1>2, <1>3
  <1>5. /\ assetPool'[a] = [rewardPool |-> p, id |-> s.assetPoolId]
        /\ \A b \in AssetPools \ {a} : assetPool'[b] = assetPool[b]
        /\ s.assetPoolId \in Nat /\ s.assetPoolId >= 1
    BY <1>2, <1>3 DEF StorageOK, Numbered
  <1>6. PoolTypeOK'
    <2>1. assetPool' \in [AssetPools -> [rewardPool : RewardPools \cup {ZeroAddress}, id : Nat]]
      BY <1>2, <1>3, <1>5
    <2> QED
      BY <1>1, <1>2, <1>4, <2>1 DEF PoolTypeOK
  <1>7. RolesBounded'
    <2> SUFFICES ASSUME NEW q \in RewardPools, Created(q)'
                 PROVE  Bounded(rewardPool'[q])
      BY DEF RolesBounded, Bounded
    <2>1. CASE q = p
      BY <1>1, <1>4, <2>1 DEF Bounded
    <2>2. CASE q # p
      BY <1>4, <2>2 DEF PoolInv, RolesBounded, Bounded, Created
    <2> QED
      BY <2>1, <2>2
  <1>8. ASSUME NEW q \in RewardPools, Created(q)'
        PROVE  /\ 1 \in DOMAIN rewardPool'[q].assetPools
               /\ DOMAIN rewardPool'[q].assetPools = 1..rewardPool'[q].assetPoolId - 1
               /\ \A k \in DOMAIN rewardPool'[q].assetPools :
                    assetPool'[rewardPool'[q].assetPools[k]] = [rewardPool |-> q, id |-> k]
    <2>1. CASE q = p
      <3>1. ASSUME NEW k \in DOMAIN s.assetPools
            PROVE  assetPool'[s.assetPools[k]] = [rewardPool |-> p, id |-> k]
        <4>1. s.assetPools[k] \in AssetPools /\ assetPool[s.assetPools[k]] = [rewardPool |-> p, id |-> k]
          BY DEF StorageOK, Numbered
        <4>2. s.assetPools[k] # a
          BY <1>3, <4>1, RewardPoolAssumption
        <4> QED
          BY <1>5, <4>1, <4>2
      <3>2. \A k \in DOMAIN t.assetPools : k \in DOMAIN s.assetPools \/ k = s.assetPoolId
        BY <1>1, <1>5 DEF Numbered
      <3>3. \A k \in DOMAIN t.assetPools : assetPool'[t.assetPools[k]] = [rewardPool |-> p, id |-> k]
        BY <1>1, <1>5, <3>1, <3>2
      <3>4. 1 \in DOMAIN t.assetPools /\ DOMAIN t.assetPools = 1..t.assetPoolId - 1
        BY <1>1, <1>5
      <3>5. rewardPool'[q] = t
        BY <1>4, <2>1
      <3> QED
        BY <2>1, <3>3, <3>4, <3>5
    <2>2. CASE q # p
      <3>1. rewardPool'[q] = rewardPool[q] /\ Created(q)
        BY <1>4, <1>8, <2>2 DEF Created
      <3>2. /\ 1 \in DOMAIN rewardPool[q].assetPools
            /\ DOMAIN rewardPool[q].assetPools = 1..rewardPool[q].assetPoolId - 1
            /\ \A k \in DOMAIN rewardPool[q].assetPools :
                 assetPool[rewardPool[q].assetPools[k]] = [rewardPool |-> q, id |-> k]
        BY <3>1 DEF PoolInv, AssetPoolIds
      <3>3. ASSUME NEW k \in DOMAIN rewardPool[q].assetPools
            PROVE  assetPool'[rewardPool[q].assetPools[k]] = [rewardPool |-> q, id |-> k]
        <4>1. rewardPool[q].assetPools[k] \in AssetPools
          BY <1>2 DEF StorageOK
        <4>2. rewardPool[q].assetPools[k] # a
          <5> DEFINE b == rewardPool[q].assetPools[k]
          <5>0. assetPool[b] = [rewardPool |-> q, id |-> k]
            BY <3>2
          <5> HIDE DEF b
          <5>1. assetPool[b].rewardPool = q
            BY <5>0
          <5>2. q # ZeroAddress
            BY RewardPoolAssumption
          <5> QED
            BY <1>3, <5>1, <5>2 DEF b
        <4> QED
          BY <1>5, <3>2, <4>1, <4>2
      <3> QED
        BY <3>1, <3>2, <3>3
    <2> QED
      BY <2>1, <2>2
  <1>9. ASSUME NEW b \in AssetPools, assetPool'[b].rewardPool # ZeroAddress
        PROVE  LET q == assetPool'[b].rewardPool
               IN  /\ rewardPool'[q].owner # ZeroAddress
                   /\ assetPool'[b].id \in DOMAIN rewardPool'[q].assetPools
                   /\ rewardPool'[q].assetPools[assetPool'[b].id] = b
    <2>1. CASE b = a
      BY <1>1, <1>4, <1>5, <2>1 DEF Created
    <2>2. CASE b # a
      <3> DEFINE q == assetPool[b].rewardPool
      <3>1. assetPool'[b] = assetPool[b] /\ q \in RewardPools
        BY <1>2, <1>5, <1>9, <2>2
      <3>2. /\ Created(q) /\ assetPool[b].id \in DOMAIN rewardPool[q].assetPools
            /\ rewardPool[q].assetPools[assetPool[b].id] = b
        BY <1>9, <3>1 DEF PoolInv, AssetPoolIds
      <3>3. CASE q # p
        BY <1>4, <3>1, <3>2, <3>3 DEF Created
      <3>4. CASE q = p
        <4>1. assetPool[b].id \in DOMAIN s.assetPools /\ s.assetPools[assetPool[b].id] = b
          BY <3>4 DEF Numbered
        <4>2. assetPool[b].id \in DOMAIN t.assetPools /\ t.assetPools[assetPool[b].id] = b
          BY <1>1, <1>5, <4>1 DEF Numbered
        <4> QED
          BY <1>1, <1>4, <3>1, <3>4, <4>2
      <3> QED
        BY <3>3, <3>4
    <2> QED
      BY <2>1, <2>2
  <1>10. AssetPoolIds'
    BY <1>8, <1>9 DEF AssetPoolIds, Created
  <1> QED
    BY <1>1, <1>4, <1>6, <1>7, <1>10 DEF PoolInv

\* What a created reward pool is known to be.
LEMMA CreatedPool ==
    ASSUME PoolInv, NEW p \in RewardPools, Created(p)
    PROVE  StorageOK(p, rewardPool[p]) /\ Numbered(p, rewardPool[p]) /\ Bounded(rewardPool[p])
  <1>1. StorageOK(p, rewardPool[p])
    BY DEF PoolInv, PoolTypeOK
  <1>2. Bounded(rewardPool[p])
    BY DEF PoolInv, RolesBounded, Bounded
  <1>3. /\ 1 \in DOMAIN rewardPool[p].assetPools
        /\ DOMAIN rewardPool[p].assetPools = 1..rewardPool[p].assetPoolId - 1
        /\ \A k \in DOMAIN rewardPool[p].assetPools :
             assetPool[rewardPool[p].assetPools[k]] = [rewardPool |-> p, id |-> k]
    BY DEF PoolInv, AssetPoolIds
  <1>4. rewardPool[p].assetPoolId >= 1
    BY <1>1, <1>3 DEF StorageOK
  <1>5. ASSUME NEW a \in AssetPools, assetPool[a].rewardPool = p
        PROVE  /\ assetPool[a].id \in DOMAIN rewardPool[p].assetPools
               /\ rewardPool[p].assetPools[assetPool[a].id] = a
    <2>1. p # ZeroAddress
      BY RewardPoolAssumption
    <2> QED
      BY <1>5, <2>1 DEF PoolInv, AssetPoolIds
  <1> QED
    BY <1>1, <1>2, <1>3, <1>4, <1>5 DEF Numbered

\* An operation that writes other fields than the owner and the asset pools.
LEMMA WriteKeeps ==
    ASSUME PoolInv, NEW p \in RewardPools, Created(p),
           NEW s, StorageOK(p, s), Bounded(s),
           s.owner = rewardPool[p].owner,
           s.assetPoolId = rewardPool[p].assetPoolId, s.assetPools = rewardPool[p].assetPools,
           rewardPool' = [rewardPool EXCEPT ![p] = s], UNCHANGED assetPool
    PROVE  PoolInv'
  <1>1. /\ rewardPool'[p] = s /\ DOMAIN rewardPool' = RewardPools
        /\ \A q \in RewardPools \ {p} : rewardPool'[q] = rewardPool[q]
    BY DEF PoolInv, PoolTypeOK
  <1>2. \A q \in RewardPools : /\ rewardPool'[q].owner = rewardPool[q].owner
                               /\ rewardPool'[q].assetPoolId = rewardPool[q].assetPoolId
                               /\ rewardPool'[q].assetPools = rewardPool[q].assetPools
    BY <1>1
  <1>3. PoolTypeOK'
    BY <1>1 DEF PoolInv, PoolTypeOK
  <1>4. RolesBounded'
    <2> SUFFICES ASSUME NEW q \in RewardPools, Created(q)'
                 PROVE  Bounded(rewardPool'[q])
      BY DEF RolesBounded, Bounded
    <2>1. CASE q = p
      BY <1>1, <2>1
    <2>2. CASE q # p
      BY <1>1, <2>2 DEF PoolInv, RolesBounded, Bounded, Created
    <2> QED
      BY <2>1, <2>2
  <1>5. AssetPoolIds'
    <2>1. ASSUME NEW q \in RewardPools, Created(q)'
          PROVE  /\ 1 \in DOMAIN rewardPool'[q].assetPools
                 /\ DOMAIN rewardPool'[q].assetPools = 1..rewardPool'[q].assetPoolId - 1
                 /\ \A k \in DOMAIN rewardPool'[q].assetPools :
                      assetPool'[rewardPool'[q].assetPools[k]] = [rewardPool |-> q, id |-> k]
      <3>1. Created(q)
        BY <1>2, <2>1 DEF Created
      <3>2. /\ 1 \in DOMAIN rewardPool[q].assetPools
            /\ DOMAIN rewardPool[q].assetPools = 1..rewardPool[q].assetPoolId - 1
            /\ \A k \in DOMAIN rewardPool[q].assetPools :
                 assetPool[rewardPool[q].assetPools[k]] = [rewardPool |-> q, id |-> k]
        BY <3>1 DEF PoolInv, AssetPoolIds
      <3> QED
        BY <1>2, <3>2
    <2>2. ASSUME NEW a \in AssetPools, assetPool'[a].rewardPool # ZeroAddress
          PROVE  LET q == assetPool'[a].rewardPool
                 IN  /\ rewardPool'[q].owner # ZeroAddress
                     /\ assetPool'[a].id \in DOMAIN rewardPool'[q].assetPools
                     /\ rewardPool'[q].assetPools[assetPool'[a].id] = a
      <3> DEFINE q == assetPool[a].rewardPool
      <3>1. assetPool' = assetPool /\ q \in RewardPools
        BY <2>2 DEF PoolInv, PoolTypeOK
      <3>2. /\ Created(q) /\ assetPool[a].id \in DOMAIN rewardPool[q].assetPools
            /\ rewardPool[q].assetPools[assetPool[a].id] = a
        BY <2>2, <3>1 DEF PoolInv, AssetPoolIds
      <3> QED
        BY <1>2, <3>1, <3>2 DEF Created
    <2> QED
      BY <2>1, <2>2 DEF AssetPoolIds, Created
  <1> QED
    BY <1>3, <1>4, <1>5 DEF PoolInv

\* The operations of a reward pool keep the invariant, the owners and the names.
LEMMA PoolNextKeeps ==
    ASSUME PoolInv, PoolNext
    PROVE  /\ PoolInv'
           /\ \A q \in RewardPools : /\ rewardPool'[q].owner = rewardPool[q].owner
                                     /\ rewardPool'[q].name = rewardPool[q].name
  <1> DEFINE Same == \A q \in RewardPools : /\ rewardPool'[q].owner = rewardPool[q].owner
                                            /\ rewardPool'[q].name = rewardPool[q].name
  <1> SUFFICES ASSUME NEW sender \in Users, NEW p \in RewardPools, IsOwner(sender, p),
                      \/ \E a \in AssetPools, amount \in Prices : CreateAssetPool(sender, p, a, amount)
                      \/ \E to \in WithdrawAddresses : SetWithdrawAddress(sender, p, to)
                      \/ \E flag \in BOOLEAN : SetActive(sender, p, flag)
                      \/ \E list \in RoleLists :
                           \/ AddAdmins(sender, p, list)
                           \/ RemoveAdmins(sender, p, list)
                           \/ AddTransferrers(sender, p, list)
                           \/ RemoveTransferrers(sender, p, list)
               PROVE  PoolInv' /\ Same
    BY DEF PoolNext, CreateAssetPool, SetWithdrawAddress, SetActive,
           AddAdmins, RemoveAdmins, AddTransferrers, RemoveTransferrers
  <1> DEFINE r == rewardPool[p]
  <1>1. Created(p) /\ r.owner # ZeroAddress
    BY DEF IsOwner, Created
  <1>2. StorageOK(p, r) /\ Numbered(p, r) /\ Bounded(r)
    BY <1>1, CreatedPool
  <1>3. DOMAIN rewardPool = RewardPools
    BY DEF PoolInv, PoolTypeOK
  <1> HIDE DEF r
  <1>4. ASSUME NEW a \in AssetPools, NEW amount, CreateAssetPool(sender, p, a, amount)
        PROVE  PoolInv' /\ Same
    <2>1. CreatesAssetPool(p, r, a, amount)
      BY <1>4 DEF CreateAssetPool, r
    <2>2. /\ PoolInv'
          /\ rewardPool'[p].owner = r.owner /\ rewardPool'[p].name = r.name
          /\ \A q \in RewardPools \ {p} : rewardPool'[q] = rewardPool[q]
      BY <1>1, <1>2, <2>1, CreatesAssetPoolKeeps
    <2> QED
      BY <2>2 DEF r
  <1>5. ASSUME NEW s, StorageOK(p, s), Bounded(s),
               s.owner = r.owner, s.name = r.name,
               s.assetPoolId = r.assetPoolId, s.assetPools = r.assetPools,
               rewardPool' = [rewardPool EXCEPT ![p] = s], UNCHANGED assetPool
        PROVE  PoolInv' /\ Same
    <2>1. PoolInv'
      BY <1>1, <1>5, WriteKeeps DEF r
    <2>2. Same
      BY <1>3, <1>5 DEF r
    <2> QED
      BY <2>1, <2>2
  <1>6. ASSUME NEW to \in WithdrawAddresses, SetWithdrawAddress(sender, p, to)
        PROVE  PoolInv' /\ Same
    <2> DEFINE s == [r EXCEPT !.withdrawAddress = to]
    <2>1. to \in Users \cup {ZeroAddress}
      BY RewardPoolAssumption
    <2>2. StorageOK(p, s) /\ Bounded(s)
      BY <1>2, <2>1 DEF StorageOK, Bounded, BlankRewardPool
    <2>3. /\ s.owner = r.owner /\ s.name = r.name
          /\ s.assetPoolId = r.assetPoolId /\ s.assetPools = r.assetPools
      BY <1>2 DEF StorageOK, BlankRewardPool
    <2>4. rewardPool' = [rewardPool EXCEPT ![p] = s] /\ UNCHANGED assetPool
      BY <1>6 DEF SetWithdrawAddress, r
    <2> HIDE DEF s
    <2> QED
      BY <1>5, <2>2, <2>3, <2>4
  <1>7. ASSUME NEW flag \in BOOLEAN, SetActive(sender, p, flag)
        PROVE  PoolInv' /\ Same
    <2> DEFINE s == [r EXCEPT !.active = flag]
    <2>1. StorageOK(p, s) /\ Bounded(s)
      BY <1>2 DEF StorageOK, Bounded, BlankRewardPool
    <2>2. /\ s.owner = r.owner /\ s.name = r.name
          /\ s.assetPoolId = r.assetPoolId /\ s.assetPools = r.assetPools
      BY <1>2 DEF StorageOK, BlankRewardPool
    <2>3. rewardPool' = [rewardPool EXCEPT ![p] = s] /\ UNCHANGED assetPool
      BY <1>7 DEF SetActive, r
    <2> HIDE DEF s
    <2> QED
      BY <1>5, <2>1, <2>2, <2>3
  <1>8. ASSUME NEW S \in SUBSET Users, Cardinality(S) <= MAX_ADMINS,
               rewardPool' = [rewardPool EXCEPT ![p] = [r EXCEPT !.admins = S]], UNCHANGED assetPool
        PROVE  PoolInv' /\ Same
    <2> DEFINE s == [r EXCEPT !.admins = S]
    <2>1. StorageOK(p, s) /\ Bounded(s)
      BY <1>2, <1>8 DEF StorageOK, Bounded, BlankRewardPool
    <2>2. /\ s.owner = r.owner /\ s.name = r.name
          /\ s.assetPoolId = r.assetPoolId /\ s.assetPools = r.assetPools
      BY <1>2 DEF StorageOK, BlankRewardPool
    <2>3. rewardPool' = [rewardPool EXCEPT ![p] = s] /\ UNCHANGED assetPool
      BY <1>8
    <2> HIDE DEF s
    <2> QED
      BY <1>5, <2>1, <2>2, <2>3
  <1>9. ASSUME NEW S \in SUBSET Users, Cardinality(S) <= MAX_TRANSFERRERS,
               rewardPool' = [rewardPool EXCEPT ![p] = [r EXCEPT !.transferrers = S]],
               UNCHANGED assetPool
        PROVE  PoolInv' /\ Same
    <2> DEFINE s == [r EXCEPT !.transferrers = S]
    <2>1. StorageOK(p, s) /\ Bounded(s)
      BY <1>2, <1>9 DEF StorageOK, Bounded, BlankRewardPool
    <2>2. /\ s.owner = r.owner /\ s.name = r.name
          /\ s.assetPoolId = r.assetPoolId /\ s.assetPools = r.assetPools
      BY <1>2 DEF StorageOK, BlankRewardPool
    <2>3. rewardPool' = [rewardPool EXCEPT ![p] = s] /\ UNCHANGED assetPool
      BY <1>9
    <2> HIDE DEF s
    <2> QED
      BY <1>5, <2>1, <2>2, <2>3
  <1>10. /\ r.admins \in SUBSET Users /\ Cardinality(r.admins) <= MAX_ADMINS
         /\ r.transferrers \in SUBSET Users /\ Cardinality(r.transferrers) <= MAX_TRANSFERRERS
         /\ MAX_ADMINS \in Nat /\ MAX_TRANSFERRERS \in Nat
    BY <1>2, RewardPoolAssumption DEF StorageOK, Bounded
  <1>11. ASSUME NEW list \in RoleLists, AddAdmins(sender, p, list)
         PROVE  PoolInv' /\ Same
    <2>1. list \in Seq(Users)
      BY RewardPoolAssumption
    <2>2. Cardinality(r.admins \cup Range(list)) <= MAX_ADMINS
      BY <1>10, <1>11, <2>1, FitsBounds DEF AddAdmins, r
    <2>3. r.admins \cup Range(list) \in SUBSET Users
      BY <1>10, <2>1, RangeOfList
    <2>4. rewardPool' = [rewardPool EXCEPT ![p] = [r EXCEPT !.admins = r.admins \cup Range(list)]]
      BY <1>11 DEF AddAdmins, r
    <2> QED
      BY <1>8, <1>11, <2>2, <2>3, <2>4 DEF AddAdmins
  <1>12. ASSUME NEW list \in RoleLists, RemoveAdmins(sender, p, list)
         PROVE  PoolInv' /\ Same
    <2>1. Cardinality(r.admins \ Range(list)) <= MAX_ADMINS
      BY <1>10, FewerFit
    <2>2. r.admins \ Range(list) \in SUBSET Users
      BY <1>10
    <2>3. rewardPool' = [rewardPool EXCEPT ![p] = [r EXCEPT !.admins = r.admins \ Range(list)]]
      BY <1>12 DEF RemoveAdmins, r
    <2> QED
      BY <1>8, <1>12, <2>1, <2>2, <2>3 DEF RemoveAdmins
  <1>13. ASSUME NEW list \in RoleLists, AddTransferrers(sender, p, list)
         PROVE  PoolInv' /\ Same
    <2>1. list \in Seq(Users)
      BY RewardPoolAssumption
    <2>2. Cardinality(r.transferrers \cup Range(list)) <= MAX_TRANSFERRERS
      BY <1>10, <1>13, <2>1, FitsBounds DEF AddTransferrers, r
    <2>3. r.transferrers \cup Range(list) \in SUBSET Users
      BY <1>10, <2>1, RangeOfList
    <2>4. rewardPool' = [rewardPool EXCEPT ![p] =
                           [r EXCEPT !.transferrers = r.transferrers \cup Range(list)]]
      BY <1>13 DEF AddTransferrers, r
    <2> QED
      BY <1>9, <1>13, <2>2, <2>3, <2>4 DEF AddTransferrers
  <1>14. ASSUME NEW list \in RoleLists, RemoveTransferrers(sender, p, list)
         PROVE  PoolInv' /\ Same
    <2>1. Cardinality(r.transferrers \ Range(list)) <= MAX_TRANSFERRERS
      BY <1>10, FewerFit
    <2>2. r.transferrers \ Range(list) \in SUBSET Users
      BY <1>10
    <2>3. rewardPool' = [rewardPool EXCEPT ![p] =
                           [r EXCEPT !.transferrers = r.transferrers \ Range(list)]]
      BY <1>14 DEF RemoveTransferrers, r
    <2> QED
      BY <1>9, <1>14, <2>1, <2>2, <2>3 DEF RemoveTransferrers
  <1> QED
    BY <1>4, <1>6, <1>7, <1>11, <1>12, <1>13, <1>14

\* initialize makes a reward pool with one asset pool, numbered 1.
LEMMA InitializeKeeps ==
    ASSUME PoolInv, NEW p \in RewardPools, NEW user \in Users, NEW name \in ValidNames,
           NEW method \in Methods, NEW to \in Users \cup {ZeroAddress},
           NEW admins \in RoleLists, NEW a \in AssetPools, NEW amount,
           Initialize(p, user, name, method[1], method[2], to, admins, a, amount)
    PROVE  /\ PoolInv' /\ ~Created(p)
           /\ rewardPool'[p].owner = user /\ rewardPool'[p].name = name
           /\ \A q \in RewardPools \ {p} : rewardPool'[q] = rewardPool[q]
  <1> DEFINE s == [owner |-> user, name |-> name, active |-> TRUE,
                   redeemToken |-> RedeemToken(p, method[1], method[2]),
                   withdrawAddress |-> to,
                   admins |-> Range(admins), transferrers |-> {},
                   assetPoolId |-> 1, assetPools |-> <<>>]
  <1>1. /\ ~Created(p) /\ CreatesAssetPool(p, s, a, amount)
        /\ method[1] = "ExistingERC20" => method[2] # ZeroAddress
        /\ Fits(admins, {}, MAX_ADMINS)
    BY DEF Initialize
  <1>2. admins \in Seq(Users) /\ MAX_ADMINS \in Nat /\ MAX_TRANSFERRERS \in Nat
        /\ p # ZeroAddress /\ user # ZeroAddress
    BY RewardPoolAssumption
  <1>3. Range(admins) \subseteq Users
    BY <1>2, RangeOfList
  <1>4. /\ RedeemToken(p, method[1], method[2]) \in ExistingTokens \cup {p, ZeroAddress}
        /\ RedeemToken(p, method[1], method[2]) # ZeroAddress
    BY <1>1, <1>2, RegistryAssumption DEF RedeemToken
  <1>5. Cardinality(Range(admins)) <= MAX_ADMINS
    <2>1. Cardinality({} \cup Range(admins)) <= MAX_ADMINS
      BY <1>1, <1>2, FitsBounds
    <2>2. {} \cup Range(admins) = Range(admins)
      OBVIOUS
    <2> QED
      BY <2>1, <2>2
  <1>6. Bounded(s)
    BY <1>2, <1>5, FS_EmptySet DEF Bounded
  <1>7. StorageOK(p, s)
    <2>1. s.redeemToken \in ExistingTokens \cup {p, ZeroAddress} /\ s.redeemToken # ZeroAddress
      BY <1>4
    <2>2. DOMAIN s = DOMAIN BlankRewardPool
      BY DEF BlankRewardPool
    <2>5. user \in Users /\ name \in ValidNames /\ 1 \in Nat /\ TRUE \in BOOLEAN /\ {} \subseteq Users
      OBVIOUS
    <2>3. s.admins \subseteq Users /\ s.assetPools = <<>> /\ s.assetPoolId = 1
          /\ s.owner = user /\ s.name = name /\ s.active = TRUE
          /\ s.withdrawAddress = to /\ s.transferrers = {}
      BY <1>3
    <2>4. \A k \in DOMAIN s.assetPools : s.assetPools[k] \in AssetPools
      OBVIOUS
    <2> HIDE DEF s
    <2> QED
      BY <2>1, <2>2, <2>3, <2>4, <2>5 DEF StorageOK
  <1>8. Numbered(p, s)
    <2>1. \A b \in AssetPools : assetPool[b].rewardPool # p
      BY <1>1, <1>2 DEF PoolInv, AssetPoolIds
    <2>2. s.assetPools = <<>> /\ s.assetPoolId = 1
      OBVIOUS
    <2> HIDE DEF s
    <2> QED
      BY <2>1, <2>2 DEF Numbered
  <1>9. s.owner = user /\ s.name = name
    OBVIOUS
  <1> HIDE DEF s
  <1> QED
    BY <1>1, <1>2, <1>6, <1>7, <1>8, <1>9, CreatesAssetPoolKeeps

\* setNewName writes the name only.
LEMMA SetNewNameKeeps ==
    ASSUME PoolInv, NEW p \in RewardPools, Created(p), NEW name \in ValidNames, SetNewName(p, name)
    PROVE  /\ PoolInv'
           /\ rewardPool'[p].name = name /\ rewardPool'[p].owner = rewardPool[p].owner
           /\ \A q \in RewardPools \ {p} : rewardPool'[q] = rewardPool[q]
  <1> DEFINE r == rewardPool[p]
             s == [r EXCEPT !.name = name]
  <1>1. StorageOK(p, r) /\ Bounded(r)
    BY CreatedPool
  <1>2. rewardPool' = [rewardPool EXCEPT ![p] = s] /\ UNCHANGED assetPool
    BY DEF SetNewName
  <1>3. DOMAIN rewardPool = RewardPools
    BY DEF PoolInv, PoolTypeOK
  <1> HIDE DEF r
  <1>4. StorageOK(p, s) /\ Bounded(s)
    BY <1>1 DEF StorageOK, Bounded, BlankRewardPool
  <1>5. /\ s.owner = r.owner /\ s.name = name
        /\ s.assetPoolId = r.assetPoolId /\ s.assetPools = r.assetPools
    BY <1>1 DEF StorageOK, BlankRewardPool
  <1> HIDE DEF s
  <1>6. PoolInv'
    BY <1>2, <1>4, <1>5, WriteKeeps DEF r
  <1> QED
    BY <1>2, <1>3, <1>5, <1>6 DEF r

-----------------------------------------------------------------------------
(* The registry *)

\* Pushing a pool that is not in the list.
LEMMA PushPool ==
    ASSUME NEW list \in Seq(RewardPools), NEW p \in RewardPools,
           IsInjective(list), p \notin Range(list)
    PROVE  /\ Append(list, p) \in Seq(RewardPools)
           /\ Range(Append(list, p)) = Range(list) \cup {p}
           /\ IsInjective(Append(list, p))
  <1>1. /\ Len(list) \in Nat /\ DOMAIN list = 1..Len(list)
        /\ DOMAIN Append(list, p) = 1..Len(list) + 1
        /\ \A k \in 1..Len(list) : Append(list, p)[k] = list[k]
        /\ Append(list, p)[Len(list) + 1] = p
    OBVIOUS
  <1>2. \A k \in 1..Len(list) + 1 : k \in 1..Len(list) \/ k = Len(list) + 1
    BY <1>1
  <1>3. Range(Append(list, p)) \subseteq Range(list) \cup {p}
    BY <1>1, <1>2 DEF Range
  <1>4. Range(list) \cup {p} \subseteq Range(Append(list, p))
    BY <1>1 DEF Range
  <1>5. IsInjective(Append(list, p))
    <2>1. \A k \in 1..Len(list) : list[k] # p
      BY <1>1 DEF Range
    <2>2. \A j, k \in 1..Len(list) : list[j] = list[k] => j = k
      BY <1>1 DEF IsInjective
    <2> SUFFICES ASSUME NEW j \in DOMAIN Append(list, p), NEW k \in DOMAIN Append(list, p),
                        Append(list, p)[j] = Append(list, p)[k]
                 PROVE  j = k
      BY DEF IsInjective
    <2> QED
      BY <1>1, <1>2, <2>1, <2>2
  <1> QED
    BY <1>3, <1>4, <1>5

\* What the operations of reward pools leave alone is enough for the registry.
LEMMA SameRegistryKeeps ==
    ASSUME RegistryInv, PoolInv',
           \A q \in RewardPools : /\ rewardPool'[q].owner = rewardPool[q].owner
                                  /\ rewardPool'[q].name = rewardPool[q].name,
           UNCHANGED registryVars, TypeOK',
           \A u \in Users : vrfConsumer[u] # 0 => vrfConsumer'[u] = vrfConsumer[u]
    PROVE  RegistryInv'
  <1>1. \A q \in RewardPools : Created(q)' <=> Created(q)
    BY DEF Created
  <1>2. NamesResolve'
    BY <1>1 DEF RegistryInv, NamesResolve, registryVars
  <1>3. OwnersAgree'
    BY <1>1 DEF RegistryInv, OwnersAgree, registryVars
  <1>4. ConsumerThere'
    <2> SUFFICES ASSUME NEW q \in RewardPools, Created(q)
                 PROVE  vrfConsumer'[rewardPool[q].owner] # 0
      BY <1>1 DEF ConsumerThere
    <2>1. rewardPool[q].owner \in Users
      BY DEF RegistryInv, TypeOK, PoolTypeOK, StorageOK, Created
    <2> QED
      BY <2>1 DEF RegistryInv, ConsumerThere
  <1> QED
    BY <1>2, <1>3, <1>4 DEF RegistryInv, PoolInv

LEMMA RegistryInvInit == Init => RegistryInv
  <1> SUFFICES ASSUME Init PROVE RegistryInv
    OBVIOUS
  <1>1. \A p \in RewardPools : ~Created(p) /\ rewardPool[p] = BlankRewardPool
    BY DEF Init, PoolInit, Created, BlankRewardPool
  <1>2. \A p \in RewardPools : StorageOK(p, BlankRewardPool)
    BY DEF StorageOK, BlankRewardPool
  <1>3. PoolTypeOK
    BY <1>1, <1>2 DEF Init, PoolInit, PoolTypeOK, BlankAssetPool
  <1>4. AssetPoolIds
    <2>1. \A a \in AssetPools : assetPool[a].rewardPool = ZeroAddress
      BY DEF Init, PoolInit, BlankAssetPool
    <2> QED
      BY <1>1, <2>1 DEF AssetPoolIds
  <1>5. RolesBounded /\ NamesResolve /\ ConsumerThere
    BY <1>1 DEF RolesBounded, NamesResolve, ConsumerThere
  <1>6. TypeOK
    BY <1>3, RegistryAssumption DEF Init, TypeOK
  <1>7. OwnersAgree
    <2>1. \A p \in RewardPools : poolToOwner[p] = None
      BY DEF Init
    <2>2. \A u \in Users : u # None /\ Range(ownerToPools[u]) = {} /\ IsInjective(ownerToPools[u])
      BY RegistryAssumption DEF Init, Range, IsInjective
    <2> QED
      BY <1>1, <2>1, <2>2 DEF OwnersAgree
  <1> QED
    BY <1>3, <1>4, <1>5, <1>6, <1>7 DEF RegistryInv

\* createRewardPool.
LEMMA CreateRewardPoolKeeps ==
    ASSUME RegistryInv, NEW user \in Users, NEW raw \in RawNames, NEW value \in Values,
           NEW method \in Methods, NEW to \in WithdrawAddresses, NEW admins \in RoleLists,
           NEW p \in RewardPools, NEW a \in AssetPools, NEW amount \in Prices,
           CreateRewardPool(user, raw, value, method, to, admins, p, a, amount)
    PROVE  /\ RegistryInv'
           /\ \A n \in ValidNames : usedNames[n] # None => usedNames'[n] = usedNames[n]
           /\ \A u \in Users : vrfConsumer[u] # 0 => vrfConsumer'[u] = vrfConsumer[u]
  <1> DEFINE name == Trimmed[raw]
             w == IF to = ZeroAddress THEN user ELSE to
  <1>1. /\ name \in ValidNames /\ usedNames[name] = None
        /\ TransferCreationFee(value) /\ SetVRFConsumer(user)
        /\ Initialize(p, user, name, method[1], method[2], w, admins, a, amount)
        /\ Register(user, p, name)
        /\ UNCHANGED <<fee, revenueWallet>>
    BY DEF CreateRewardPool, ValidatesName
  <1>2. w \in Users \cup {ZeroAddress}
    BY RewardPoolAssumption
  <1> HIDE DEF name, w
  <1>3. PoolInv
    BY DEF RegistryInv, PoolInv, TypeOK
  <1>4. /\ PoolInv' /\ ~Created(p)
        /\ rewardPool'[p].owner = user /\ rewardPool'[p].name = name
        /\ \A q \in RewardPools \ {p} : rewardPool'[q] = rewardPool[q]
    BY <1>1, <1>2, <1>3, InitializeKeeps
  <1>5. /\ usedNames \in [ValidNames -> RewardPools \cup {None}]
        /\ ownerToPools \in [Users -> Seq(RewardPools)]
        /\ poolToOwner \in [RewardPools -> Users \cup {None}]
        /\ vrfConsumer \in [Users -> Nat] /\ paymaster \in [Users -> Nat] /\ deployed \in Nat
        /\ fee \in Nat /\ revenueWallet \in Wallets
        /\ ether \in [Wallets \cup {Registry} -> Nat]
    BY DEF RegistryInv, TypeOK
  <1>6. /\ ownerToPools' = [ownerToPools EXCEPT ![user] = Append(ownerToPools[user], p)]
        /\ poolToOwner' = [poolToOwner EXCEPT ![p] = user]
        /\ usedNames' = [usedNames EXCEPT ![name] = p]
    BY <1>1 DEF Register
  <1>7. p # ZeroAddress /\ user # ZeroAddress /\ None \notin Users /\ None \notin RewardPools
    BY RewardPoolAssumption, RegistryAssumption
  <1>8. Created(p)' /\ \A q \in RewardPools \ {p} : Created(q)' <=> Created(q)
    BY <1>4, <1>7 DEF Created
  <1>9. \A n \in ValidNames : usedNames[n] # None => usedNames'[n] = usedNames[n]
    BY <1>1, <1>5, <1>6
  <1>10. /\ vrfConsumer' \in [Users -> Nat] /\ deployed' \in Nat /\ paymaster' = paymaster
         /\ vrfConsumer'[user] # 0
         /\ \A u \in Users : vrfConsumer[u] # 0 => vrfConsumer'[u] = vrfConsumer[u]
    <2>1. CASE vrfConsumer[user] = 0
      <3>1. /\ deployed' = deployed + 1 /\ paymaster' = paymaster
            /\ vrfConsumer' = [vrfConsumer EXCEPT ![user] = deployed + 1]
        BY <1>1, <2>1 DEF SetVRFConsumer
      <3> QED
        BY <1>5, <2>1, <3>1
    <2>2. CASE vrfConsumer[user] # 0
      BY <1>1, <1>5, <2>2 DEF SetVRFConsumer
    <2> QED
      BY <2>1, <2>2
  <1>11. ether' \in [Wallets \cup {Registry} -> Nat]
    <2>1. value \in Nat
      BY RegistryAssumption
    <2>2. PICK h \in Wallets \cup {Registry} : ether' = [ether EXCEPT ![h] = ether[h] + value]
      BY <1>1, <1>5 DEF TransferCreationFee
    <2>3. ether[h] + value \in Nat
      BY <1>5, <2>1
    <2> QED
      BY <1>5, <2>2, <2>3
  <1>12. p \notin Range(ownerToPools[user]) /\ IsInjective(ownerToPools[user])
    BY <1>4, <1>7 DEF RegistryInv, OwnersAgree
  <1>13. /\ Append(ownerToPools[user], p) \in Seq(RewardPools)
         /\ Range(Append(ownerToPools[user], p)) = Range(ownerToPools[user]) \cup {p}
         /\ IsInjective(Append(ownerToPools[user], p))
    BY <1>5, <1>12, PushPool
  <1>14. TypeOK'
    <2>1. /\ usedNames' \in [ValidNames -> RewardPools \cup {None}]
          /\ poolToOwner' \in [RewardPools -> Users \cup {None}]
      BY <1>5, <1>6
    <2>2. ownerToPools' \in [Users -> Seq(RewardPools)]
      BY <1>5, <1>6, <1>13
    <2> QED
      BY <1>1, <1>4, <1>5, <1>10, <1>11, <2>1, <2>2 DEF TypeOK, PoolInv
  <1>15. NamesResolve'
    <2> SUFFICES ASSUME NEW q \in RewardPools, Created(q)'
                 PROVE  rewardPool'[q].name \in ValidNames /\ usedNames'[rewardPool'[q].name] = q
      BY DEF NamesResolve
    <2>1. CASE q = p
      BY <1>1, <1>4, <1>5, <1>6, <2>1
    <2>2. CASE q # p
      <3>1. rewardPool[q].name \in ValidNames /\ usedNames[rewardPool[q].name] = q
        BY <1>8, <2>2 DEF RegistryInv, NamesResolve
      <3> QED
        BY <1>4, <1>7, <1>9, <2>2, <3>1
    <2> QED
      BY <2>1, <2>2
  <1>16. OwnersAgree'
    <2>1. ASSUME NEW q \in RewardPools
          PROVE  /\ Created(q)' <=> poolToOwner'[q] # None
                 /\ Created(q)' => poolToOwner'[q] = rewardPool'[q].owner
      <3>1. CASE q = p
        BY <1>4, <1>5, <1>6, <1>7, <1>8, <3>1
      <3>2. CASE q # p
        BY <1>4, <1>5, <1>6, <1>8, <3>2 DEF RegistryInv, OwnersAgree
      <3> QED
        BY <3>1, <3>2
    <2>2. ASSUME NEW u \in Users
          PROVE  /\ Range(ownerToPools'[u]) = {q \in RewardPools : poolToOwner'[q] = u}
                 /\ IsInjective(ownerToPools'[u])
      <3>1. /\ Range(ownerToPools[u]) = {q \in RewardPools : poolToOwner[q] = u}
            /\ IsInjective(ownerToPools[u]) /\ poolToOwner[p] = None
        BY <1>4 DEF RegistryInv, OwnersAgree
      <3>2. poolToOwner'[p] = user /\ \A q \in RewardPools \ {p} : poolToOwner'[q] = poolToOwner[q]
        BY <1>5, <1>6
      <3>3. CASE u = user
        <4>1. ownerToPools'[u] = Append(ownerToPools[user], p)
          BY <1>5, <1>6, <3>3
        <4>2. {q \in RewardPools : poolToOwner'[q] = u} = {q \in RewardPools : poolToOwner[q] = u} \cup {p}
          BY <3>2, <3>3
        <4> QED
          BY <1>13, <3>1, <3>3, <4>1, <4>2
      <3>4. CASE u # user
        <4>1. ownerToPools'[u] = ownerToPools[u]
          BY <1>5, <1>6, <3>4
        <4>2. {q \in RewardPools : poolToOwner'[q] = u} = {q \in RewardPools : poolToOwner[q] = u}
          BY <1>7, <3>1, <3>2, <3>4
        <4> QED
          BY <3>1, <4>1, <4>2
      <3> QED
        BY <3>3, <3>4
    <2> QED
      BY <2>1, <2>2 DEF OwnersAgree
  <1>17. ConsumerThere'
    <2> SUFFICES ASSUME NEW q \in RewardPools, Created(q)'
                 PROVE  vrfConsumer'[rewardPool'[q].owner] # 0
      BY DEF ConsumerThere
    <2>1. CASE q = p
      BY <1>4, <1>10, <2>1
    <2>2. CASE q # p
      <3>0. Created(q)
        BY <1>8, <2>2
      <3>1. Created(q) /\ rewardPool[q].owner \in Users
        BY <3>0 DEF RegistryInv, TypeOK, PoolTypeOK, StorageOK, Created
      <3> QED
        BY <1>4, <1>10, <2>2, <3>1 DEF RegistryInv, ConsumerThere
    <2> QED
      BY <2>1, <2>2
  <1> QED
    BY <1>4, <1>9, <1>10, <1>14, <1>15, <1>16, <1>17 DEF RegistryInv, PoolInv

\* setNewRewardPoolName.
LEMMA SetNewRewardPoolNameKeeps ==
    ASSUME RegistryInv, NEW sender \in Users, NEW p \in RewardPools, NEW raw \in RawNames,
           SetNewRewardPoolName(sender, p, raw)
    PROVE  /\ RegistryInv'
           /\ \A n \in ValidNames : usedNames[n] # None => usedNames'[n] = usedNames[n]
           /\ UNCHANGED vrfConsumer
  <1> DEFINE name == Trimmed[raw]
  <1>1. /\ name \in ValidNames /\ usedNames[name] = None
        /\ poolToOwner[p] = sender
        /\ usedNames' = [usedNames EXCEPT ![name] = p] /\ SetNewName(p, name)
        /\ UNCHANGED <<ownerToPools, poolToOwner, serviceVars, feeVars>>
    BY DEF SetNewRewardPoolName, ValidatesName
  <1> HIDE DEF name
  <1>2. PoolInv /\ Created(p)
    BY <1>1, RegistryAssumption DEF RegistryInv, PoolInv, TypeOK, OwnersAgree
  <1>3. /\ PoolInv'
        /\ rewardPool'[p].name = name /\ rewardPool'[p].owner = rewardPool[p].owner
        /\ \A q \in RewardPools \ {p} : rewardPool'[q] = rewardPool[q]
    BY <1>1, <1>2, SetNewNameKeeps
  <1>4. usedNames \in [ValidNames -> RewardPools \cup {None}] /\ None \notin RewardPools
    BY RegistryAssumption DEF RegistryInv, TypeOK
  <1>5. \A n \in ValidNames : usedNames[n] # None => usedNames'[n] = usedNames[n]
    BY <1>1, <1>4
  <1>6. /\ \A q \in RewardPools : rewardPool'[q].owner = rewardPool[q].owner
        /\ \A q \in RewardPools : Created(q)' <=> Created(q)
    BY <1>3 DEF Created
  <1>7. TypeOK'
    <2>1. usedNames' \in [ValidNames -> RewardPools \cup {None}]
      BY <1>1, <1>4
    <2> QED
      BY <1>1, <1>3, <2>1 DEF RegistryInv, TypeOK, PoolInv, serviceVars, feeVars
  <1>8. NamesResolve'
    <2> SUFFICES ASSUME NEW q \in RewardPools, Created(q)'
                 PROVE  rewardPool'[q].name \in ValidNames /\ usedNames'[rewardPool'[q].name] = q
      BY DEF NamesResolve
    <2>1. CASE q = p
      BY <1>1, <1>3, <1>4, <2>1
    <2>2. CASE q # p
      <3>1. rewardPool[q].name \in ValidNames /\ usedNames[rewardPool[q].name] = q
        BY <1>6 DEF RegistryInv, NamesResolve
      <3> QED
        BY <1>3, <1>4, <1>5, <2>2, <3>1
    <2> QED
      BY <2>1, <2>2
  <1>9. OwnersAgree'
    BY <1>1, <1>6 DEF RegistryInv, OwnersAgree
  <1>10. ConsumerThere'
    BY <1>1, <1>6 DEF RegistryInv, ConsumerThere, serviceVars
  <1> QED
    BY <1>1, <1>3, <1>5, <1>7, <1>8, <1>9, <1>10 DEF RegistryInv, PoolInv, serviceVars

\* What every step keeps and what it may change.
LEMMA RegistryStep ==
    ASSUME RegistryInv, [Next]_vars
    PROVE  /\ RegistryInv'
           /\ \A n \in ValidNames : usedNames[n] # None => usedNames'[n] = usedNames[n]
           /\ \A u \in Users : vrfConsumer[u] # 0 => vrfConsumer'[u] = vrfConsumer[u]
  <1> DEFINE Goal == /\ RegistryInv'
                     /\ \A n \in ValidNames : usedNames[n] # None => usedNames'[n] = usedNames[n]
                     /\ \A u \in Users : vrfConsumer[u] # 0 => vrfConsumer'[u] = vrfConsumer[u]
  <1>1. PoolInv /\ TypeOK
    BY DEF RegistryInv, PoolInv, TypeOK
  <1>2. ASSUME UNCHANGED <<poolVars, registryVars>>, TypeOK',
               \A u \in Users : vrfConsumer[u] # 0 => vrfConsumer'[u] = vrfConsumer[u]
        PROVE  Goal
    <2>1. PoolInv'
      BY <1>1, <1>2 DEF PoolInv, poolVars, PoolTypeOK, RolesBounded, AssetPoolIds, Created
    <2>2. RegistryInv'
      BY <1>2, <2>1, SameRegistryKeeps DEF poolVars
    <2> QED
      BY <1>2, <2>2 DEF registryVars
  <1>3. ASSUME NEW sender \in Users, CreatePaymaster(sender)
        PROVE  Goal
    <2>1. TypeOK'
      BY <1>1, <1>3 DEF CreatePaymaster, TypeOK, PoolTypeOK, poolVars, registryVars, feeVars
    <2> QED
      BY <1>2, <1>3, <2>1 DEF CreatePaymaster
  <1>4. ASSUME NEW sender \in Users, NEW amount \in Fees, SetRewardPoolCreationFee(sender, amount)
        PROVE  Goal
    <2>1. TypeOK'
      BY <1>1, <1>4, RegistryAssumption
         DEF SetRewardPoolCreationFee, TypeOK, PoolTypeOK, poolVars, registryVars, serviceVars
    <2> QED
      BY <1>2, <1>4, <2>1 DEF SetRewardPoolCreationFee, serviceVars
  <1>5. ASSUME NEW sender \in Users, NEW wallet \in Wallets, SetRevenueWallet(sender, wallet)
        PROVE  Goal
    <2>1. TypeOK'
      BY <1>1, <1>5 DEF SetRevenueWallet, TypeOK, PoolTypeOK, poolVars, registryVars, serviceVars
    <2> QED
      BY <1>2, <1>5, <2>1 DEF SetRevenueWallet, serviceVars
  <1>6. ASSUME RewardPoolOperation
        PROVE  Goal
    <2>1. /\ PoolInv' /\ UNCHANGED <<registryVars, serviceVars, feeVars>>
          /\ \A q \in RewardPools : /\ rewardPool'[q].owner = rewardPool[q].owner
                                    /\ rewardPool'[q].name = rewardPool[q].name
      BY <1>1, <1>6, PoolNextKeeps DEF RewardPoolOperation
    <2>2. TypeOK'
      BY <1>1, <2>1 DEF TypeOK, PoolInv, registryVars, serviceVars, feeVars
    <2>3. RegistryInv'
      BY <2>1, <2>2, SameRegistryKeeps DEF serviceVars
    <2> QED
      BY <2>1, <2>3 DEF registryVars, serviceVars
  <1>7. CASE UNCHANGED vars
    <2>1. TypeOK'
      BY <1>1, <1>7 DEF TypeOK, PoolTypeOK, vars, poolVars, registryVars, serviceVars, feeVars
    <2> QED
      BY <1>2, <1>7, <2>1 DEF vars, serviceVars
  <1> QED
    BY <1>3, <1>4, <1>5, <1>6, <1>7, CreateRewardPoolKeeps, SetNewRewardPoolNameKeeps DEF Next

-----------------------------------------------------------------------------

\* What is always true of the registry and its reward pools.
THEOREM RegistryInvariant == Spec => []RegistryInv
  <1>1. RegistryInv /\ [Next]_vars => RegistryInv'
    BY RegistryStep
  <1> QED
    BY RegistryInvInit, <1>1, PTL DEF Spec

\* The registry, the reward pools and the asset pools hold values of their types.
THEOREM RegistryTypes == Spec => []TypeOK
  <1>1. RegistryInv => TypeOK
    BY DEF RegistryInv
  <1> QED
    BY <1>1, RegistryInvariant, PTL

\* No sequence of lists makes more admins or transferrers than allowed.
THEOREM RolesStayBounded == Spec => []RolesBounded
  <1>1. RegistryInv => RolesBounded
    BY DEF RegistryInv
  <1> QED
    BY <1>1, RegistryInvariant, PTL

\* Reward pools and asset pools agree on the ids for any number of both.
THEOREM AssetPoolsAreNumbered == Spec => []AssetPoolIds
  <1>1. RegistryInv => AssetPoolIds
    BY DEF RegistryInv
  <1> QED
    BY <1>1, RegistryInvariant, PTL

\* The name a pool shows leads back to it, however many pools were created and renamed.
THEOREM NamesAlwaysResolve == Spec => []NamesResolve
  <1>1. RegistryInv => NamesResolve
    BY DEF RegistryInv
  <1> QED
    BY <1>1, RegistryInvariant, PTL

\* Registry and reward pools agree on the owners.
THEOREM OwnersAlwaysAgree == Spec => []OwnersAgree
  <1>1. RegistryInv => OwnersAgree
    BY DEF RegistryInv
  <1> QED
    BY <1>1, RegistryInvariant, PTL

\* A name that led to a pool leads to it for good.
THEOREM NamesStay == Spec => NamesNeverMove
  <1>1. RegistryInv /\ [Next]_vars =>
          [\A n \in ValidNames : usedNames[n] # None => usedNames'[n] = usedNames[n]]_vars
    BY RegistryStep
  <1> QED
    BY <1>1, RegistryInvariant, PTL DEF Spec, NamesNeverMove

\* An owner's consumer is there with its first pool and never replaced.
THEOREM ConsumersStay == Spec => ConsumerStays
  <1>1. ASSUME RegistryInv, [Next]_vars, NEW p \in RewardPools, Created(p)
        PROVE  LET u == rewardPool[p].owner
               IN  vrfConsumer[u] # 0 /\ vrfConsumer'[u] = vrfConsumer[u]
    <2>1. rewardPool[p].owner \in Users
      BY <1>1 DEF RegistryInv, TypeOK, PoolTypeOK, StorageOK, Created
    <2>2. vrfConsumer[rewardPool[p].owner] # 0
      BY <1>1 DEF RegistryInv, ConsumerThere
    <2> QED
      BY <1>1, <2>1, <2>2, RegistryStep
  <1>2. RegistryInv /\ [Next]_vars =>
          [\A p \in RewardPools : Created(p) =>
             LET u == rewardPool[p].owner
             IN  vrfConsumer[u] # 0 /\ vrfConsumer'[u] = vrfConsumer[u]]_vars
    BY <1>1
  <1> QED
    BY <1>2, RegistryInvariant, PTL DEF Spec, ConsumerStays

\* Types, roles and ids are in order for any number of pools, accounts and asset pools.
THEOREM PoolsStayInOrder == Spec => []PoolsInOrder
  BY RegistryTypes, RolesStayBounded, AssetPoolsAreNumbered, PTL DEF PoolsInOrder

\* Names and consumers are for good.
THEOREM NothingIsTakenBack == Spec => NothingTakenBack
  BY NamesStay, ConsumersStay DEF NothingTakenBack

-----------------------------------------------------------------------------
(* The raffle                                                              *)

Entries(list, u) == {k \in 1 .. Len(list) : list[k] = u}

LEMMA TimesIsEntries ==
    ASSUME NEW list \in Seq(Accounts), NEW u
    PROVE  /\ Times(list, u) = Cardinality(Entries(list, u)) /\ Times(list, u) \in Nat
           /\ IsFiniteSet(Entries(list, u))
<1>1. DOMAIN list = 1 .. Len(list) /\ Len(list) \in Nat
    OBVIOUS
<1>2. IsFiniteSet(1 .. Len(list)) /\ Entries(list, u) \subseteq 1 .. Len(list)
    BY <1>1, FS_Interval, 1 \in Int DEF Entries
<1>3. IsFiniteSet(Entries(list, u))
    BY <1>2, FS_Subset
<1> QED BY <1>1, <1>3, FS_CardinalityType DEF Times, Entries

\* The list without its k-th entry.
LEMMA TakeOutIs ==
    ASSUME NEW list \in Seq(Accounts), NEW k \in 1 .. Len(list)
    PROVE  /\ TakeOut(list, k) \in Seq(Accounts) /\ Len(TakeOut(list, k)) = Len(list) - 1
           /\ \A i \in 1 .. Len(list) - 1 :
                  TakeOut(list, k)[i] = IF i = k THEN list[Len(list)] ELSE list[i]
<1> DEFINE n == Len(list)
           moved == [list EXCEPT ![k] = list[n]]
           m == n - 1
<1>1. n \in Nat /\ n \in 1 .. n /\ list \in [1 .. n -> Accounts]
    BY ElementOfSeq
<1>2. moved \in [1 .. n -> Accounts] /\ \A i \in 1 .. n : moved[i] = IF i = k THEN list[n] ELSE list[i]
    BY <1>1
<1>3. TakeOut(list, k) = Front(moved)
    BY DEF TakeOut, Last
<1> HIDE DEF moved, n
<1>4. moved \in Seq(Accounts) /\ Len(moved) = n
    BY <1>1, <1>2
<1>5. Front(moved) = SubSeq(moved, 1, m)
    BY <1>4 DEF Front
<1>6. m \in Int /\ m \in Nat /\ \A i \in 1 .. m : i \in 1 .. n /\ moved[i] \in Accounts
    BY <1>1, <1>2
<1> HIDE DEF m
<1>7. /\ SubSeq(moved, 1, m) \in Seq(Accounts)
      /\ Len(SubSeq(moved, 1, m)) = (IF 1 <= m THEN m - 1 + 1 ELSE 0)
      /\ \A i \in 1 .. m - 1 + 1 : SubSeq(moved, 1, m)[i] = moved[1 + i - 1]
    BY <1>6, SubSeqProperties, 1 \in Int
<1>8. (IF 1 <= m THEN m - 1 + 1 ELSE 0) = m /\ m - 1 + 1 = m /\ \A i \in 1 .. m : 1 + i - 1 = i
    BY <1>6
<1>9. \A i \in 1 .. m : Front(moved)[i] = IF i = k THEN list[n] ELSE list[i]
    BY <1>2, <1>5, <1>6, <1>7, <1>8
<1> QED BY <1>3, <1>5, <1>7, <1>8, <1>9 DEF m, n

\* Of all accounts, only the one that was there is listed once less.
LEMMA TakeOutCounts ==
    ASSUME NEW list \in Seq(Accounts), NEW k \in 1 .. Len(list), NEW u
    PROVE  Times(TakeOut(list, k), u) + (IF list[k] = u THEN 1 ELSE 0) = Times(list, u)
<1> DEFINE n == Len(list)
           rest == TakeOut(list, k)
           A == Entries(list, u)
           B == Entries(rest, u)
<1>1. n \in Nat /\ n \in 1 .. n /\ \A i \in 1 .. n : i # n => i \in 1 .. n - 1
    OBVIOUS
<1>2. rest \in Seq(Accounts) /\ Len(rest) = n - 1
      /\ \A i \in 1 .. n - 1 : rest[i] = IF i = k THEN list[n] ELSE list[i]
    BY TakeOutIs
<1>3. \A i \in 1 .. n - 1 : i \in 1 .. n /\ i # n
    BY <1>1
<1>4. /\ Times(list, u) = Cardinality(A) /\ Times(rest, u) = Cardinality(B)
      /\ IsFiniteSet(A) /\ Cardinality(A) \in Nat /\ Cardinality(B) \in Nat
    BY <1>2, TimesIsEntries
<1> HIDE DEF rest
<1>5. CASE list[n] = u /\ list[k] = u
    <2>1. B = A \ {n} /\ n \in A
        BY <1>1, <1>2, <1>3, <1>5 DEF Entries
    <2>2. Cardinality(A \ {n}) = Cardinality(A) - 1
        BY <2>1, <1>4, FS_RemoveElement
    <2> QED BY <1>4, <1>5, <2>1, <2>2 DEF rest
<1>6. CASE list[n] # u /\ list[k] = u
    <2>1. B = A \ {k} /\ k \in A
        <3>1. k \in A /\ n \notin A /\ k \notin B
            BY <1>1, <1>2, <1>3, <1>6 DEF Entries
        <3>2. \A i \in 1 .. n - 1 : i # k => (i \in A <=> i \in B)
            BY <1>1, <1>2, <1>3 DEF Entries
        <3>3. A \subseteq (1 .. n - 1) \cup {n} /\ B \subseteq 1 .. n - 1
            BY <1>1, <1>2 DEF Entries
        <3> HIDE DEF A, B
        <3> QED BY <3>1, <3>2, <3>3, Zenon
    <2>2. Cardinality(A \ {k}) = Cardinality(A) - 1
        BY <2>1, <1>4, FS_RemoveElement
    <2> QED BY <1>4, <1>6, <2>1, <2>2 DEF rest
<1>7. CASE list[n] = u /\ list[k] # u
    <2> DEFINE C == A \ {n}
    <2>1. B = C \cup {k} /\ n \in A /\ k \notin C
        BY <1>1, <1>2, <1>3, <1>7 DEF Entries
    <2>2. Cardinality(C) = Cardinality(A) - 1 /\ IsFiniteSet(C)
        BY <2>1, <1>4, FS_RemoveElement
    <2> HIDE DEF C
    <2>3. Cardinality(C \cup {k}) = Cardinality(C) + 1
        BY <2>1, <2>2, FS_AddElement
    <2> QED BY <1>4, <1>7, <2>1, <2>2, <2>3 DEF rest
<1>8. CASE list[n] # u /\ list[k] # u
    <2>1. B = A
        BY <1>1, <1>2, <1>3, <1>8 DEF Entries
    <2> QED BY <1>4, <1>8, <2>1 DEF rest
<1> QED BY <1>5, <1>6, <1>7, <1>8

LEMMA DrawnIsThere ==
    ASSUME NEW list \in Seq(Accounts), Len(list) # 0, NEW word \in Nat
    PROVE  Drawn(list, word) \in 1 .. Len(list)
<1>1. Len(list) \in Nat /\ Len(list) > 0
    OBVIOUS
<1>2. word % Len(list) \in 0 .. Len(list) - 1
    BY <1>1
<1> QED BY <1>1, <1>2 DEF Drawn

Draws(list, words) == Lesser(Len(words), Len(list))

\* The lists of the loop follow each other, each with one candidate less.
LEMMA DrawSteps ==
    ASSUME NEW list \in Seq(Accounts), NEW words \in Seq(Nat)
    PROVE  /\ Draws(list, words) \in Nat /\ Draws(list, words) <= Len(list)
           /\ \A k \in 1 .. Draws(list, words) : words[k] \in Nat /\ k \in 1 .. Len(words)
           /\ Lists(list, words)[0] = list
           /\ \A k \in 1 .. Draws(list, words) :
                  /\ k - 1 \in 0 .. Draws(list, words)
                  /\ Drawn(Lists(list, words)[k - 1], words[k]) \in 1 .. Len(Lists(list, words)[k - 1])
                  /\ Lists(list, words)[k] = TakeOut(Lists(list, words)[k - 1],
                                                     Drawn(Lists(list, words)[k - 1], words[k]))
           /\ \A k \in 0 .. Draws(list, words) :
                  /\ Lists(list, words)[k] \in Seq(Accounts)
                  /\ Len(Lists(list, words)[k]) = Len(list) - k
<1> DEFINE n == Len(list)
           m == Lesser(Len(words), n)
           Left(l, k) == TakeOut(l, Drawn(l, words[k]))
           Equation(g) == g = [k \in 0 .. m |-> IF k = 0 THEN list ELSE Left(g[k - 1], k)]
           turn == [p \in (1 .. m) \X Seq(Accounts) |-> IF Len(p[2]) = 0 THEN p[2] ELSE Left(p[2], p[1])]
           lists == Lists(list, words)
<1>1. /\ n \in Nat /\ m \in Nat /\ m <= n
      /\ \A k \in 1 .. m : words[k] \in Nat /\ k \in 1 .. Len(words)
    <2>1. Len(words) \in Nat /\ n \in Nat /\ \A k \in 1 .. Len(words) : words[k] \in Nat
        BY ElementOfSeq
    <2> HIDE DEF n
    <2>2. m \in Nat /\ m <= n /\ m <= Len(words)
        BY <2>1 DEF Lesser
    <2> HIDE DEF m
    <2> QED BY <2>1, <2>2
<1> HIDE DEF n, m
<1>2. ASSUME NEW l \in Seq(Accounts), Len(l) # 0, NEW k \in 1 .. m
      PROVE  /\ Drawn(l, words[k]) \in 1 .. Len(l) /\ l[Drawn(l, words[k])] \in Accounts
             /\ Left(l, k) \in Seq(Accounts) /\ Len(Left(l, k)) = Len(l) - 1
    <2>1. Drawn(l, words[k]) \in 1 .. Len(l)
        BY <1>1, <1>2, DrawnIsThere
    <2> QED BY <2>1, TakeOutIs, ElementOfSeq
<1>3. lists = CHOOSE g : Equation(g)
    BY DEF Lists, m, n
<1> HIDE DEF Left, lists
<1>4. turn \in Steps(m, Seq(Accounts))
    <2>1. ASSUME NEW l \in Seq(Accounts), NEW k \in 1 .. m
          PROVE  (IF Len(l) = 0 THEN l ELSE Left(l, k)) \in Seq(Accounts)
        BY <1>2
    <2> QED BY <2>1 DEF Steps
<1>5. PICK f : Follows(f, m, Seq(Accounts), list, turn)
    <2> HIDE DEF turn
    <2> QED BY <1>1, <1>4, RecursionExists
<1>6. \A k \in 1 .. m : /\ k - 1 \in 0 .. m /\ f[k - 1] \in Seq(Accounts)
                        /\ f[k] = IF Len(f[k - 1]) = 0 THEN f[k - 1] ELSE Left(f[k - 1], k)
    <2>1. ASSUME NEW k \in 1 .. m
          PROVE  /\ k - 1 \in 0 .. m /\ f[k - 1] \in Seq(Accounts)
                 /\ f[k] = IF Len(f[k - 1]) = 0 THEN f[k - 1] ELSE Left(f[k - 1], k)
        <3>1. k - 1 \in 0 .. m
            BY <1>1
        <3>2. f[k - 1] \in Seq(Accounts)
            BY <1>5, <3>1 DEF Follows
        <3>3. <<k, f[k - 1]>> \in (1 .. m) \X Seq(Accounts)
            BY <3>2
        <3>4. turn[<<k, f[k - 1]>>] = IF Len(f[k - 1]) = 0 THEN f[k - 1] ELSE Left(f[k - 1], k)
            BY <3>3
        <3> HIDE DEF turn
        <3> QED BY <1>5, <3>1, <3>2, <3>4 DEF Follows
    <2> QED BY <2>1
<1> DEFINE Shorter == {k \in 0 .. m : Len(f[k]) = n - k}
<1>7. \A k \in 0 .. m : k \in Shorter
    <2>1. 0 \in Shorter
        BY <1>1, <1>5 DEF Follows, n
    <2>2. ASSUME NEW k \in 1 .. m, k - 1 \in Shorter
          PROVE  k \in Shorter
        <3>1. Len(f[k - 1]) = n - (k - 1) /\ n - (k - 1) # 0 /\ k \in 0 .. m
            BY <1>1, <2>2
        <3>2. f[k - 1] \in Seq(Accounts) /\ Len(f[k - 1]) # 0
            BY <1>6, <3>1
        <3>3. f[k] = Left(f[k - 1], k)
            BY <1>6, <3>2
        <3>4. Len(f[k]) = Len(f[k - 1]) - 1
            BY <1>2, <3>2, <3>3
        <3>5. (n - (k - 1)) - 1 = n - k
            BY <1>1
        <3>6. Len(f[k]) = n - k
            BY <3>1, <3>4, <3>5
        <3> QED BY <3>1, <3>6
    <2> HIDE DEF Shorter
    <2> QED BY <1>1, <2>1, <2>2, Induction
<1>8. \A k \in 1 .. m : f[k] = Left(f[k - 1], k)
    <2>1. ASSUME NEW k \in 1 .. m
          PROVE  Len(f[k - 1]) # 0
        <3>1. Len(f[k - 1]) = n - (k - 1)
            BY <1>6, <1>7
        <3> QED BY <1>1, <3>1
    <2> QED BY <1>6, <2>1
<1>9. Equation(f)
    <2>1. \A k \in 0 .. m : k = 0 \/ k \in 1 .. m
        BY <1>1
    <2> HIDE DEF turn
    <2> QED BY <1>5, <1>8, <2>1 DEF Follows
<1>10. Equation(lists)
    <2> HIDE DEF Equation
    <2> QED BY <1>3, <1>9
<1>11. lists[0] = list /\ \A k \in 1 .. m : lists[k] = Left(lists[k - 1], k)
    <2>1. \A k \in 0 .. m : lists[k] = IF k = 0 THEN list ELSE Left(lists[k - 1], k)
        BY <1>10, Zenon
    <2>2. 0 \in 0 .. m /\ \A k \in 1 .. m : k \in 0 .. m /\ k # 0
        BY <1>1
    <2> HIDE DEF Equation
    <2> QED BY <2>1, <2>2
<1> HIDE DEF Equation, turn, Shorter
<1> DEFINE Sized == {k \in 0 .. m : lists[k] \in Seq(Accounts) /\ Len(lists[k]) = n - k}
<1>12. \A k \in 0 .. m : k \in Sized
    <2>1. 0 \in Sized
        BY <1>1, <1>11 DEF n
    <2>2. ASSUME NEW k \in 1 .. m, k - 1 \in Sized
          PROVE  k \in Sized
        <3>1. lists[k - 1] \in Seq(Accounts) /\ Len(lists[k - 1]) = n - (k - 1)
            BY <2>2
        <3>2. k \in 0 .. m /\ Len(lists[k - 1]) # 0 /\ Len(lists[k - 1]) - 1 = n - k
            BY <1>1, <3>1
        <3>3. lists[k] = Left(lists[k - 1], k)
            BY <1>11
        <3> QED BY <1>2, <3>1, <3>2, <3>3
    <2> HIDE DEF Sized
    <2> QED BY <1>1, <2>1, <2>2, Induction
<1>13. ASSUME NEW k \in 1 .. m
       PROVE  k - 1 \in 0 .. m /\ Drawn(lists[k - 1], words[k]) \in 1 .. Len(lists[k - 1])
    <2>1. k - 1 \in 0 .. m
        BY <1>1
    <2>2. lists[k - 1] \in Seq(Accounts) /\ Len(lists[k - 1]) = n - (k - 1)
        BY <1>12, <2>1
    <2>3. Len(lists[k - 1]) # 0
        BY <1>1, <2>2
    <2> QED BY <1>2, <2>1, <2>2, <2>3
<1>14. m = Draws(list, words)
    BY DEF m, n, Draws
<1>15. \A k \in 1 .. m : lists[k] = TakeOut(lists[k - 1], Drawn(lists[k - 1], words[k]))
    BY <1>11 DEF Left
<1> HIDE DEF Sized
<1>16. \A k \in 0 .. m : lists[k] \in Seq(Accounts) /\ Len(lists[k]) = n - k
    BY <1>12 DEF Sized
<1> QED BY <1>1, <1>11, <1>13, <1>14, <1>15, <1>16 DEF n, lists

\* The candidates left after each draw, and what was drawn: together the list.
LEMMA DrawLoop ==
    ASSUME NEW list \in Seq(Accounts), NEW words \in Seq(Nat)
    PROVE  /\ Draw(list, words) \in Seq(Accounts)
           /\ Len(Draw(list, words)) = Lesser(Len(words), Len(list))
           /\ \A u : Times(Draw(list, words), u) <= Times(list, u)
<1> DEFINE n == Len(list)
           m == Draws(list, words)
           lists == Lists(list, words)
           who(k) == lists[k - 1][Drawn(lists[k - 1], words[k])]
           Won(u, k) == {j \in 1 .. k : who(j) = u}
           Right == {k \in 0 .. m : \A u : /\ IsFiniteSet(Won(u, k))
                                          /\ Times(lists[k], u) + Cardinality(Won(u, k)) = Times(list, u)}
<1>1. /\ n \in Nat /\ m \in Nat /\ m <= n /\ lists[0] = list
      /\ \A k \in 0 .. m : lists[k] \in Seq(Accounts)
    BY DrawSteps
<1>2. ASSUME NEW k \in 1 .. m
      PROVE  /\ k - 1 \in 0 .. m /\ k \in 0 .. m /\ who(k) \in Accounts
             /\ \A u : Times(lists[k], u) + (IF who(k) = u THEN 1 ELSE 0) = Times(lists[k - 1], u)
    <2> DEFINE l == lists[k - 1]
    <2>1. /\ k \in 0 .. m /\ k - 1 \in 0 .. m /\ Drawn(l, words[k]) \in 1 .. Len(l)
          /\ lists[k] = TakeOut(l, Drawn(l, words[k]))
        BY <1>1, DrawSteps
    <2>2. l \in Seq(Accounts) /\ who(k) = l[Drawn(l, words[k])]
        BY <1>1, <2>1
    <2> HIDE DEF l, lists, who, m
    <2> QED BY <2>1, <2>2, TakeOutCounts, ElementOfSeq DEF l
<1> HIDE DEF lists, m
<1>3. 0 \in Right
    <2>1. \A u : Won(u, 0) = {} /\ Times(list, u) \in Nat
        BY TimesIsEntries
    <2> QED BY <1>1, <2>1, FS_EmptySet
<1>4. ASSUME NEW k \in 1 .. m, k - 1 \in Right
      PROVE  k \in Right
    <2> DEFINE l == lists[k - 1]
    <2>1. l \in Seq(Accounts) /\ lists[k] \in Seq(Accounts) /\ k \in 0 .. m
        BY <1>1, <1>2
    <2>2. ASSUME NEW u
          PROVE  /\ IsFiniteSet(Won(u, k))
                 /\ Times(lists[k], u) + Cardinality(Won(u, k)) = Times(list, u)
        <3>1. IsFiniteSet(Won(u, k - 1)) /\ Times(l, u) + Cardinality(Won(u, k - 1)) = Times(list, u)
            BY <1>4
        <3>2. Times(lists[k], u) + (IF who(k) = u THEN 1 ELSE 0) = Times(l, u)
            BY <1>2
        <3>3. Cardinality(Won(u, k - 1)) \in Nat /\ Times(lists[k], u) \in Nat /\ Times(l, u) \in Nat
            BY <2>1, <3>1, FS_CardinalityType, TimesIsEntries
        <3>4. 1 .. k = (1 .. k - 1) \cup {k} /\ k \notin 1 .. k - 1
            BY <1>1
        <3>5. CASE who(k) = u
            <4>1. Won(u, k) = Won(u, k - 1) \cup {k} /\ k \notin Won(u, k - 1)
                BY <3>4, <3>5
            <4>2. IsFiniteSet(Won(u, k)) /\ Cardinality(Won(u, k)) = Cardinality(Won(u, k - 1)) + 1
                <5> HIDE DEF Won
                <5> QED BY <3>1, <4>1, FS_AddElement
            <4> HIDE DEF Won, who
            <4> QED BY <3>1, <3>2, <3>3, <3>5, <4>2
        <3>6. CASE who(k) # u
            <4>1. Won(u, k) = Won(u, k - 1)
                BY <3>4, <3>6
            <4> HIDE DEF Won, who
            <4> QED BY <3>1, <3>2, <3>3, <3>6, <4>1
        <3> QED BY <3>5, <3>6
    <2> QED BY <2>1, <2>2
<1> HIDE DEF Right
<1>5. \A k \in 0 .. m : k \in Right
    BY <1>1, <1>3, <1>4, Induction
<1> DEFINE d == Draw(list, words)
<1>6. d = [k \in 1 .. m |-> who(k)]
    BY DEF Draw, Draws, lists, m
<1> HIDE DEF d, who
<1>7. d \in Seq(Accounts) /\ Len(d) = m
    BY <1>1, <1>2, <1>6
<1>8. ASSUME NEW u
      PROVE  Times(d, u) <= Times(list, u)
    <2>1. m \in Right /\ m \in 0 .. m
        BY <1>1, <1>5
    <2>2. Entries(d, u) = Won(u, m)
        BY <1>6, <1>7 DEF Entries
    <2>3. Times(d, u) = Cardinality(Won(u, m)) /\ Times(d, u) \in Nat
        BY <1>7, <2>2, TimesIsEntries
    <2>4. lists[m] \in Seq(Accounts) /\ Times(lists[m], u) + Cardinality(Won(u, m)) = Times(list, u)
        BY <1>1, <2>1 DEF Right
    <2>5. Times(lists[m], u) \in Nat
        BY <2>4, TimesIsEntries
    <2> HIDE DEF Won
    <2> QED BY <2>3, <2>4, <2>5
<1> QED BY <1>7, <1>8 DEF d, m, Draws

LEMMA NobodyTwice ==
    ASSUME NEW list \in Seq(Accounts), Len(list) = 0, NEW u
    PROVE  Times(list, u) = 0
<1>1. Entries(list, u) = {}
    BY DEF Entries
<1> QED BY <1>1, TimesIsEntries, FS_EmptySet

RaffleRequest == [status : {"none", "pending", "fulfilled", "failed"},
                  addresses : Seq(Accounts), tickets : Nat]

\* What the payments do: the draw is fair, and a pool has no more than at first.
RaffleIInv ==
    /\ DrawIsFair
    /\ requests \in [RequestIds -> RaffleRequest]
    /\ winners \in [RequestIds -> Seq(Accounts)]
    /\ \A p \in StockPools : stock[p] <= InitialStock

LEMMA RaffleStart ==
    ASSUME RaffleInit
    PROVE  RaffleIInv
<1>1. <<>> \in Seq(Accounts) /\ Len(<<>>) = 0
    OBVIOUS
<1>2. RaffleTypeOK
    BY <1>1, RaffleAssumption DEF RaffleInit, RaffleTypeOK, NoRequest
<1>3. WinsAsListed
    <2>1. ASSUME NEW r \in RequestIds, NEW u \in Accounts
          PROVE  Times(winners[r], u) <= Times(requests[r].addresses, u)
        <3>1. winners[r] = <<>> /\ requests[r].addresses = <<>>
            BY DEF RaffleInit, NoRequest
        <3>2. Times(<<>>, u) = 0
            BY <1>1, NobodyTwice
        <3> QED BY <3>1, <3>2
    <2> QED BY <2>1 DEF WinsAsListed
<1>4. AllOrNone
    BY <1>1 DEF RaffleInit, NoRequest, AllOrNone
<1>5. StockPaysWinners
    <2>1. \A p \in StockPools : [q \in StockPools |-> InitialStock - stock[q]][p] = 0
        BY RaffleAssumption DEF RaffleInit
    <2>2. \A r \in RequestIds : [q \in RequestIds |-> Price * Len(winners[q])][r] = 0
        BY <1>1, RaffleAssumption DEF RaffleInit
    <2> DEFINE gone == [q \in StockPools |-> InitialStock - stock[q]]
               paid == [q \in RequestIds |-> Price * Len(winners[q])]
    <2> HIDE DEF gone, paid
    <2>3. Total(gone, StockPools) = 0
        BY <2>1, RaffleAssumption, TotalZero DEF gone
    <2>4. Total(paid, RequestIds) = 0
        BY <2>2, RaffleAssumption, TotalZero DEF paid
    <2> QED BY <2>3, <2>4 DEF StockPaysWinners, gone, paid
<1>6. /\ requests \in [RequestIds -> RaffleRequest] /\ winners \in [RequestIds -> Seq(Accounts)]
      /\ \A p \in StockPools : stock[p] <= InitialStock
    BY <1>1, RaffleAssumption DEF RaffleInit, NoRequest, RaffleRequest
<1> QED BY <1>2, <1>3, <1>4, <1>5, <1>6 DEF RaffleIInv, DrawIsFair

\* Winners and stock stay: what is left of the invariant is about the requests.
LEMMA NobodyPaid ==
    ASSUME RaffleIInv, winners' = winners, stock' = stock,
           RaffleTypeOK', requests' \in [RequestIds -> RaffleRequest],
           \A r \in RequestIds :
               \/ requests'[r] = requests[r]
               \/ /\ requests[r].status # "fulfilled" /\ requests'[r].status # "fulfilled"
    PROVE  RaffleIInv'
<1>1. ASSUME NEW r \in RequestIds
      PROVE  /\ Len(winners'[r]) = IF requests'[r].status = "fulfilled"
                                   THEN Lesser(requests'[r].tickets, Len(requests'[r].addresses))
                                   ELSE 0
             /\ \A u \in Accounts : Times(winners'[r], u) <= Times(requests'[r].addresses, u)
    <2>1. CASE requests'[r] = requests[r]
        BY <2>1 DEF RaffleIInv, DrawIsFair, AllOrNone, WinsAsListed
    <2>2. CASE requests[r].status # "fulfilled" /\ requests'[r].status # "fulfilled"
        <3>1. winners[r] \in Seq(Accounts) /\ requests'[r].addresses \in Seq(Accounts)
            BY DEF RaffleIInv, RaffleRequest
        <3>2. Len(winners[r]) = 0
            BY <2>2 DEF RaffleIInv, DrawIsFair, AllOrNone
        <3>3. PICK old, new : old = winners[r] /\ new = requests'[r].addresses
            OBVIOUS
        <3>4. old \in Seq(Accounts) /\ new \in Seq(Accounts) /\ Len(old) = 0
            BY <3>1, <3>2, <3>3
        <3>5. \A u \in Accounts : Times(old, u) = 0 /\ Times(new, u) \in Nat
            BY <3>4, NobodyTwice, TimesIsEntries
        <3> QED BY <2>2, <3>2, <3>3, <3>5
    <2> QED BY <2>1, <2>2
<1>2. StockPaysWinners'
    BY DEF RaffleIInv, DrawIsFair, StockPaysWinners
<1>3. AllOrNone' /\ WinsAsListed'
    BY <1>1 DEF AllOrNone, WinsAsListed
<1> QED BY <1>2, <1>3 DEF RaffleIInv, DrawIsFair

LEMMA WinnersPaid ==
    ASSUME RaffleIInv, NEW r \in RequestIds, NEW words \in WordLists(requests[r].tickets),
           FulfillRandomWords(r, words)
    PROVE  RaffleIInv'
<1>1. requests[r] \in RaffleRequest /\ winners[r] \in Seq(Accounts) /\ requests[r].status = "pending"
    BY DEF RaffleIInv, FulfillRandomWords
<1>2. PICK list \in Seq(Accounts), n \in Nat : list = requests[r].addresses /\ n = requests[r].tickets
    BY <1>1 DEF RaffleRequest
<1>3. words \in Seq(Nat) /\ Len(words) = n
    <2>1. words \in [1 .. n -> Nat]
        BY <1>2, RaffleAssumption DEF WordLists
    <2> QED BY <2>1, <1>2
<1>4. PICK drawn : drawn = Draw(list, words)
    OBVIOUS
<1>5. /\ drawn \in Seq(Accounts) /\ Len(drawn) = Lesser(n, Len(list))
      /\ \A u : Times(drawn, u) <= Times(list, u)
    BY <1>3, <1>4, DrawLoop
<1>6. /\ CanPay(drawn)
      /\ requests' = [requests EXCEPT ![r].status = "fulfilled"]
      /\ winners' = [winners EXCEPT ![r] = drawn]
      /\ stock' = IF drawn = <<>> THEN stock ELSE [stock EXCEPT ![ASSET_POOL] = @ - Len(drawn) * Price]
      /\ UNCHANGED <<authorised, ASSET_POOL, ticketId>>
    BY <1>2, <1>4 DEF FulfillRandomWords
<1>7. /\ requests' \in [RequestIds -> RaffleRequest]
      /\ requests'[r].status = "fulfilled" /\ requests'[r].addresses = list /\ requests'[r].tickets = n
      /\ \A q \in RequestIds \ {r} : requests'[q] = requests[q]
    BY <1>1, <1>2, <1>6 DEF RaffleIInv, RaffleRequest
<1>8. /\ winners' \in [RequestIds -> Seq(Accounts)] /\ winners'[r] = drawn
      /\ \A q \in RequestIds \ {r} : winners'[q] = winners[q]
    BY <1>5, <1>6 DEF RaffleIInv
<1>9. PICK cost \in Nat : cost = Len(drawn) * Price
    BY <1>5, RaffleAssumption
<1>10. Price * Len(drawn) = cost /\ (drawn = <<>> => cost = 0) /\ Price \in Nat
    <2>1. Price * 0 = 0 /\ 0 * Price = 0 /\ Price \in Nat
        BY RaffleAssumption
    <2> QED BY <1>5, <1>9, <2>1
<1> DEFINE gone == [q \in StockPools |-> InitialStock - stock[q]]
           gone1 == [q \in StockPools |-> InitialStock - stock'[q]]
           paid == [q \in RequestIds |-> Price * Len(winners[q])]
           paid1 == [q \in RequestIds |-> Price * Len(winners'[q])]
<1>11. /\ stock \in [StockPools -> Nat] /\ InitialStock \in Nat
       /\ \A p \in StockPools : stock[p] <= InitialStock
    BY RaffleAssumption DEF RaffleIInv, DrawIsFair, RaffleTypeOK
<1>12. /\ stock' \in [StockPools -> Nat] /\ \A p \in StockPools : stock'[p] <= InitialStock
       /\ Total(gone1, StockPools) = Total(gone, StockPools) + cost
    <2>1. CASE drawn = <<>>
        <3>1. stock' = stock /\ cost = 0
            BY <1>6, <1>10, <2>1
        <3>2. gone1 = gone
            BY <3>1
        <3>3. Total(gone, StockPools) \in Nat
            <4>1. \A p \in StockPools : gone[p] \in Nat
                BY <1>11
            <4> HIDE DEF gone
            <4> QED BY <4>1, RaffleAssumption, TotalType
        <3> HIDE DEF gone, gone1
        <3> QED BY <1>11, <3>1, <3>2, <3>3
    <2>2. CASE drawn # <<>>
        <3>1. PICK pool \in StockPools : pool = ASSET_POOL /\ stock[pool] >= cost
            BY <1>6, <1>9, <2>2 DEF RaffleIInv, DrawIsFair, RaffleTypeOK, CanPay
        <3>2. stock' = [stock EXCEPT ![pool] = @ - cost]
            BY <1>6, <1>9, <2>2, <3>1
        <3>3. /\ stock' \in [StockPools -> Nat] /\ stock'[pool] = stock[pool] - cost
              /\ \A q \in StockPools \ {pool} : stock'[q] = stock[q]
            BY <1>11, <3>1, <3>2
        <3>4. \A p \in StockPools : stock'[p] <= InitialStock
            BY <1>11, <3>1, <3>3
        <3>5. /\ \A q \in StockPools : gone[q] \in Nat /\ gone1[q] \in Nat
              /\ \A q \in StockPools \ {pool} : gone1[q] = gone[q]
              /\ gone1[pool] = gone[pool] + cost
            BY <1>11, <3>3, <3>4
        <3>6. gone[pool] \in Nat /\ Total(gone, StockPools) \in Nat
            <4> HIDE DEF gone
            <4> QED BY <3>5, RaffleAssumption, TotalType
        <3> HIDE DEF gone, gone1
        <3>7. Total(gone1, StockPools) = Total(gone, StockPools) - gone[pool] + gone1[pool]
            BY <3>5, RaffleAssumption, TotalUpdate
        <3> QED BY <3>3, <3>4, <3>5, <3>6, <3>7
    <2> QED BY <2>1, <2>2
<1>13. Total(paid1, RequestIds) = Total(paid, RequestIds) + cost
    <2>1. Len(winners[r]) = 0
        BY <1>1 DEF RaffleIInv, DrawIsFair, AllOrNone
    <2>2. paid[r] = 0 /\ paid1[r] = cost
        BY <1>8, <1>10, <2>1
    <2>3. \A q \in RequestIds \ {r} : paid1[q] = paid[q]
        BY <1>8
    <2>4. \A q \in RequestIds : paid[q] \in Nat /\ paid1[q] \in Nat
        <3>1. \A q \in RequestIds : Len(winners[q]) \in Nat /\ Len(winners'[q]) \in Nat
            BY <1>8 DEF RaffleIInv
        <3> QED BY <1>10, <3>1
    <2> HIDE DEF paid, paid1
    <2>5. Total(paid1, RequestIds) = Total(paid, RequestIds) - paid[r] + paid1[r]
        BY <2>3, <2>4, RaffleAssumption, TotalUpdate
    <2>6. Total(paid, RequestIds) \in Nat
        BY <2>4, RaffleAssumption, TotalType
    <2> QED BY <2>2, <2>5, <2>6
<1>14. StockPaysWinners'
    <2>1. Total(gone, StockPools) = Total(paid, RequestIds)
        BY DEF RaffleIInv, DrawIsFair, StockPaysWinners
    <2>2. Total(gone1, StockPools) = Total(paid1, RequestIds)
        <3> HIDE DEF gone, gone1, paid, paid1
        <3> QED BY <1>12, <1>13, <2>1
    <2> QED BY <2>2 DEF StockPaysWinners
<1>15. WinsAsListed' /\ AllOrNone'
    <2>1. ASSUME NEW q \in RequestIds
          PROVE  /\ \A u \in Accounts : Times(winners'[q], u) <= Times(requests'[q].addresses, u)
                 /\ Len(winners'[q]) = IF requests'[q].status = "fulfilled"
                                       THEN Lesser(requests'[q].tickets, Len(requests'[q].addresses))
                                       ELSE 0
        <3>1. CASE q = r
            BY <1>5, <1>7, <1>8, <3>1
        <3>2. CASE q # r
            BY <1>7, <1>8, <3>2 DEF RaffleIInv, DrawIsFair, WinsAsListed, AllOrNone
        <3> QED BY <3>1, <3>2
    <2> QED BY <2>1 DEF WinsAsListed, AllOrNone
<1>16. RaffleTypeOK'
    BY <1>6, <1>7, <1>8, <1>12 DEF RaffleIInv, DrawIsFair, RaffleTypeOK, RaffleRequest
<1> QED BY <1>7, <1>8, <1>12, <1>14, <1>15, <1>16 DEF RaffleIInv, DrawIsFair

LEMMA RaffleStep ==
    ASSUME RaffleIInv, [RaffleNext]_raffleVars
    PROVE  RaffleIInv'
<1> USE RaffleAssumption
<1>0. /\ RaffleTypeOK /\ requests \in [RequestIds -> RaffleRequest]
      /\ winners \in [RequestIds -> Seq(Accounts)]
    BY DEF RaffleIInv, DrawIsFair
<1>1. ASSUME NEW sender \in Accounts, NEW caller \in Callers, NEW flag \in BOOLEAN,
             SetAuthorised(sender, caller, flag)
      PROVE  RaffleIInv'
    <2>1. RaffleTypeOK'
        BY <1>0, <1>1 DEF SetAuthorised, RaffleTypeOK
    <2> QED BY <1>0, <1>1, <2>1, NobodyPaid DEF SetAuthorised
<1>2. ASSUME NEW sender \in Accounts, NEW r \in RequestIds, NEW list \in Candidates,
             NEW n \in Tickets, RequestRandomWords(sender, r, list, n)
      PROVE  RaffleIInv'
    <2>1. /\ requests' \in [RequestIds -> RaffleRequest]
          /\ \A q \in RequestIds \ {r} : requests'[q] = requests[q]
          /\ requests[r].status = "none" /\ requests'[r].status = "pending"
        BY <1>0, <1>2 DEF RequestRandomWords, RaffleRequest
    <2>2. RaffleTypeOK'
        BY <1>0, <1>2, <2>1 DEF RequestRandomWords, RaffleTypeOK, RaffleRequest
    <2> QED BY <1>2, <2>1, <2>2, NobodyPaid DEF RequestRandomWords
<1>3. ASSUME NEW sender \in Accounts, NEW pool \in TicketPools, SetAssetPool(sender, pool)
      PROVE  RaffleIInv'
    <2>1. RaffleTypeOK'
        BY <1>0, <1>3 DEF SetAssetPool, RaffleTypeOK
    <2> QED BY <1>0, <1>3, <2>1, NobodyPaid DEF SetAssetPool
<1>4. ASSUME NEW sender \in Accounts, NEW id \in Ids, SetRebelTicketId(sender, id)
      PROVE  RaffleIInv'
    <2>1. RaffleTypeOK'
        BY <1>0, <1>4 DEF SetRebelTicketId, RaffleTypeOK
    <2> QED BY <1>0, <1>4, <2>1, NobodyPaid DEF SetRebelTicketId
<1>5. ASSUME NEW r \in RequestIds, NEW words \in WordLists(requests[r].tickets),
             FulfillReverts(r, words)
      PROVE  RaffleIInv'
    <2>1. /\ requests' \in [RequestIds -> RaffleRequest]
          /\ \A q \in RequestIds \ {r} : requests'[q] = requests[q]
          /\ requests[r].status = "pending" /\ requests'[r].status = "failed"
        BY <1>0, <1>5 DEF FulfillReverts, RaffleRequest
    <2>2. RaffleTypeOK'
        BY <1>0, <1>5, <2>1 DEF FulfillReverts, RaffleTypeOK, RaffleRequest
    <2> QED BY <1>5, <2>1, <2>2, NobodyPaid DEF FulfillReverts
<1>6. CASE UNCHANGED raffleVars
    <2>1. RaffleTypeOK'
        BY <1>0, <1>6 DEF raffleVars, RaffleTypeOK
    <2> QED BY <1>0, <1>6, <2>1, NobodyPaid DEF raffleVars
<1> QED BY <1>1, <1>2, <1>3, <1>4, <1>5, <1>6, WinnersPaid DEF RaffleNext

\* Every answer of the raffle draws at most as often as the request lists, pays all of
\* its winners or none, and takes from the asset pools what it pays.
THEOREM RaffleIsFair == RaffleSpec => []DrawIsFair
<1>1. RaffleInit => RaffleIInv
    BY RaffleStart
<1>2. RaffleIInv /\ [RaffleNext]_raffleVars => RaffleIInv'
    BY RaffleStep
<1>3. RaffleIInv => DrawIsFair
    BY DEF RaffleIInv
<1> QED BY <1>1, <1>2, <1>3, PTL DEF RaffleSpec

\* What is left after a draw are the others, and each of them once.
LEMMA TakeOutDistinct ==
    ASSUME NEW list \in Seq(Accounts), IsInjective(list), NEW k \in 1 .. Len(list)
    PROVE  /\ IsInjective(TakeOut(list, k))
           /\ \A y : y \in Range(TakeOut(list, k)) <=> y \in Range(list) /\ y # list[k]
<1> DEFINE n == Len(list)
           rest == TakeOut(list, k)
<1>1. n \in Nat /\ DOMAIN list = 1 .. n /\ n \in 1 .. n /\ k \in 1 .. n
    OBVIOUS
<1>2. /\ rest \in Seq(Accounts) /\ Len(rest) = n - 1
      /\ \A i \in 1 .. n - 1 : rest[i] = IF i = k THEN list[n] ELSE list[i]
    BY TakeOutIs
<1>3. DOMAIN rest = 1 .. n - 1
    BY <1>2
<1>4. \A i, j \in 1 .. n : list[i] = list[j] => i = j
    BY <1>1 DEF IsInjective
<1> HIDE DEF rest, n
<1>5. \A i \in 1 .. n - 1 : i \in 1 .. n /\ i # n
    BY <1>1
<1>6. \A i \in 1 .. n : i \in 1 .. n - 1 \/ i = n
    BY <1>1
<1>7. \A i, j \in 1 .. n - 1 : rest[i] = rest[j] => i = j
    BY <1>1, <1>2, <1>4, <1>5
<1>8. ASSUME NEW y \in Range(rest)
      PROVE  y \in Range(list) /\ y # list[k]
    <2>1. PICK i \in 1 .. n - 1 : y = rest[i]
        BY <1>3 DEF Range
    <2>2. CASE i = k
        <3>1. y = list[n] /\ n # k
            BY <1>2, <1>5, <2>1, <2>2
        <3> QED BY <1>1, <1>4, <3>1 DEF Range
    <2>3. CASE i # k
        <3>1. y = list[i] /\ i \in 1 .. n
            BY <1>2, <1>5, <2>1, <2>3
        <3> QED BY <1>1, <1>4, <2>3, <3>1 DEF Range
    <2> QED BY <2>2, <2>3
<1>9. ASSUME NEW y \in Range(list), y # list[k]
      PROVE  y \in Range(rest)
    <2>1. PICK i \in 1 .. n : y = list[i]
        BY <1>1 DEF Range
    <2>2. CASE i = n
        <3>1. k \in 1 .. n - 1 /\ rest[k] = list[n]
            BY <1>1, <1>2, <1>6, <1>9, <2>1, <2>2
        <3> QED BY <1>3, <2>1, <2>2, <3>1 DEF Range
    <2>3. CASE i # n
        <3>1. i \in 1 .. n - 1 /\ i # k
            BY <1>6, <1>9, <2>1, <2>3
        <3>2. rest[i] = list[i]
            BY <1>2, <3>1
        <3> QED BY <1>3, <2>1, <3>1, <3>2 DEF Range
    <2> QED BY <2>2, <2>3
<1>10. IsInjective(rest)
    BY <1>3, <1>7 DEF IsInjective
<1> QED BY <1>8, <1>9, <1>10 DEF rest

\* The words with a remainder, and one way to take those with another in their place.
WordsWith(n, a) == {word \in Words : word % n = a}

Instead(n, a, b) == CHOOSE f : f \in Injection(WordsWith(n, a), WordsWith(n, b))

LEMMA InsteadOf ==
    ASSUME NEW n, EvenOver(n), NEW a \in 0 .. n - 1, NEW b \in 0 .. n - 1
    PROVE  Instead(n, a, b) \in Injection(WordsWith(n, a), WordsWith(n, b))
<1>1. IsFiniteSet(WordsWith(n, a)) /\ IsFiniteSet(WordsWith(n, b))
    BY RaffleAssumption, FS_Subset DEF WordsWith
<1>2. Cardinality(WordsWith(n, a)) = Cardinality(WordsWith(n, b))
    BY DEF EvenOver, WordsWith
<1>3. ExistsBijection(WordsWith(n, a), WordsWith(n, b))
    BY <1>1, <1>2, FS_SameCardinalityBij
<1>4. PICK f : f \in Bijection(WordsWith(n, a), WordsWith(n, b))
    BY <1>3, Fun_ExistsBij, Zenon
<1>5. f \in Injection(WordsWith(n, a), WordsWith(n, b))
    BY <1>4, Fun_BijectionProperties
<1> QED BY <1>5, Zenon DEF Instead

\* Only finitely many answers to a request are possible.
LEMMA AnswersFinite ==
    ASSUME NEW t \in Nat
    PROVE  IsFiniteSet(WordLists(t))
<1> DEFINE Pairs == (1 .. t) \X Words
           graph == [f \in WordLists(t) |-> {<<k, f[k]>> : k \in 1 .. t}]
<1>1. IsFiniteSet(SUBSET Pairs)
    <2>1. IsFiniteSet(1 .. t)
        BY FS_Interval, 1 \in Int
    <2>2. IsFiniteSet(Pairs)
        BY <2>1, RaffleAssumption, FS_Product
    <2> QED BY <2>2, FS_SUBSET
<1>2. graph \in [WordLists(t) -> SUBSET Pairs]
    <2>1. ASSUME NEW f \in WordLists(t)
          PROVE  {<<k, f[k]>> : k \in 1 .. t} \in SUBSET Pairs
        <3>1. \A k \in 1 .. t : f[k] \in Words
            BY DEF WordLists
        <3> QED BY <3>1
    <2> QED BY <2>1
<1>3. ASSUME NEW f \in WordLists(t), NEW g \in WordLists(t), graph[f] = graph[g]
      PROVE  f = g
    <2>1. \A k \in 1 .. t : <<k, f[k]>> \in graph[g]
        BY <1>3
    <2>2. ASSUME NEW k \in 1 .. t
          PROVE  f[k] = g[k]
        <3>1. PICK j \in 1 .. t : <<k, f[k]>> = <<j, g[j]>>
            BY <2>1
        <3> QED BY <3>1
    <2> HIDE DEF graph
    <2> QED BY <2>2 DEF WordLists
<1> HIDE DEF graph, Pairs
<1>4. graph \in Injection(WordLists(t), SUBSET Pairs)
    BY <1>2, <1>3, Fun_IsInj
<1> QED BY <1>1, <1>4, FS_Injection

\* Who the k-th word draws.
Picked(list, words, k) == Lists(list, words)[k - 1][Drawn(Lists(list, words)[k - 1], words[k])]

LEMMA DrawDistinct ==
    ASSUME NEW list \in Seq(Accounts), IsInjective(list), NEW words \in Seq(Nat)
    PROVE  /\ \A k \in 0 .. Draws(list, words) : IsInjective(Lists(list, words)[k])
           /\ \A k \in 1 .. Draws(list, words) :
                  /\ Picked(list, words, k) \in Range(Lists(list, words)[k - 1])
                  /\ \A y : y \in Range(Lists(list, words)[k]) <=>
                                y \in Range(Lists(list, words)[k - 1]) /\ y # Picked(list, words, k)
<1> DEFINE m == Draws(list, words)
           lists == Lists(list, words)
           Once == {k \in 0 .. m : IsInjective(lists[k])}
<1>1. m \in Nat /\ lists[0] = list
    BY DrawSteps
<1>2. ASSUME NEW k \in 1 .. m, IsInjective(lists[k - 1])
      PROVE  /\ IsInjective(lists[k]) /\ Picked(list, words, k) \in Range(lists[k - 1])
             /\ \A y : y \in Range(lists[k]) <=> y \in Range(lists[k - 1]) /\ y # Picked(list, words, k)
    <2> DEFINE l == lists[k - 1]
               i == Drawn(l, words[k])
    <2>1. k - 1 \in 0 .. m /\ i \in 1 .. Len(l) /\ lists[k] = TakeOut(l, i)
        BY DrawSteps
    <2>2. l \in Seq(Accounts)
        BY <2>1, DrawSteps
    <2>3. Picked(list, words, k) = l[i]
        BY DEF Picked
    <2> HIDE DEF l, i, lists
    <2>4. l[i] \in Range(l)
        BY <2>1, <2>2 DEF Range
    <2>5. IsInjective(l)
        BY <1>2 DEF l
    <2>6. /\ IsInjective(TakeOut(l, i))
          /\ \A y : y \in Range(TakeOut(l, i)) <=> y \in Range(l) /\ y # l[i]
        BY <2>1, <2>2, <2>5, TakeOutDistinct
    <2> QED BY <2>1, <2>3, <2>4, <2>6 DEF l
<1>3. \A k \in 0 .. m : k \in Once
    <2>1. 0 \in Once
        BY <1>1
    <2>2. ASSUME NEW k \in 1 .. m, k - 1 \in Once
          PROVE  k \in Once
        <3>1. k \in 0 .. m
            BY <1>1
        <3> QED BY <1>2, <2>2, <3>1
    <2> HIDE DEF Once, lists, m
    <2> QED BY <1>1, <2>1, <2>2, Induction
<1>4. \A k \in 1 .. m : k - 1 \in 0 .. m
    BY <1>1
<1> HIDE DEF m, lists
<1> QED BY <1>2, <1>3, <1>4 DEF m, lists

\* The lists depend on the words so far.
LEMMA SameLists ==
    ASSUME NEW list \in Seq(Accounts), NEW w \in Seq(Nat), NEW x \in Seq(Nat), Len(w) = Len(x),
           NEW j \in 0 .. Draws(list, w), \A k \in 1 .. j : w[k] = x[k]
    PROVE  \A k \in 0 .. j : Lists(list, w)[k] = Lists(list, x)[k]
<1> DEFINE Same == {k \in 0 .. j : Lists(list, w)[k] = Lists(list, x)[k]}
           m == Draws(list, w)
<1>1. m = Draws(list, x) /\ m \in Nat /\ j \in Nat /\ j <= m
    BY DrawSteps DEF Draws
<1>2. 0 \in Same
    BY <1>1, DrawSteps
<1>3. ASSUME NEW k \in 1 .. j, k - 1 \in Same
      PROVE  k \in Same
    <2>1. k \in 1 .. m /\ k \in 0 .. j
        BY <1>1
    <2>2. Lists(list, w)[k] = TakeOut(Lists(list, w)[k - 1], Drawn(Lists(list, w)[k - 1], w[k]))
        BY <2>1, DrawSteps
    <2>3. Lists(list, x)[k] = TakeOut(Lists(list, x)[k - 1], Drawn(Lists(list, x)[k - 1], x[k]))
        <3>1. k \in 1 .. Draws(list, x)
            BY <1>1, <2>1
        <3> HIDE DEF m
        <3> QED BY <3>1, DrawSteps
    <2>4. Lists(list, w)[k - 1] = Lists(list, x)[k - 1] /\ w[k] = x[k]
        BY <1>3
    <2> QED BY <2>1, <2>2, <2>3, <2>4
<1> HIDE DEF Same, m
<1>4. \A k \in 0 .. j : k \in Same
    BY <1>1, <1>2, <1>3, Induction
<1> QED BY <1>4 DEF Same

Swap(u, v, y) == IF y = u THEN v ELSE IF y = v THEN u ELSE y

\* The first j words of x draw as those of w do, with u and v swapped, and x takes each of
\* its words in a fixed way for that of w; words that draw nobody are the same.
Mirrors(list, u, v, w, x, j) ==
    /\ \A k \in 1 .. j :
         LET n == Len(list) - (k - 1)
         IN  /\ Picked(list, x, k) = Swap(u, v, Picked(list, w, k))
             /\ x[k] = Instead(n, w[k] % n, x[k] % n)[w[k]]
    /\ \A k \in DOMAIN w : k > Draws(list, w) => x[k] = w[k]

\* Then the candidates left are those left by w, with u and v swapped.
LEMMA MirroredLists ==
    ASSUME NEW list \in Seq(Accounts), IsInjective(list), NEW u \in Range(list), NEW v \in Range(list),
           NEW w \in Seq(Nat), NEW x \in Seq(Nat), Len(w) = Len(x),
           NEW j \in 0 .. Draws(list, w), Mirrors(list, u, v, w, x, j)
    PROVE  \A k \in 0 .. j : \A y : y \in Range(Lists(list, w)[k])
                                        => Swap(u, v, y) \in Range(Lists(list, x)[k])
<1> DEFINE m == Draws(list, w)
           A == Lists(list, w)
           B == Lists(list, x)
           Swapped == {k \in 0 .. j : \A y : y \in Range(A[k]) => Swap(u, v, y) \in Range(B[k])}
<1>1. m = Draws(list, x) /\ m \in Nat /\ j \in Nat /\ j <= m /\ A[0] = list /\ B[0] = list
    BY DrawSteps DEF Draws
<1>2. 0 \in Swapped
    BY <1>1 DEF Swap
<1>3. ASSUME NEW k \in 1 .. j, k - 1 \in Swapped
      PROVE  k \in Swapped
    <2>1. k \in 1 .. m /\ k \in 0 .. j
        BY <1>1
    <2>2. \A y : y \in Range(A[k]) <=> y \in Range(A[k - 1]) /\ y # Picked(list, w, k)
        BY <2>1, DrawDistinct
    <2>3. \A y : y \in Range(B[k]) <=> y \in Range(B[k - 1]) /\ y # Picked(list, x, k)
        <3>1. k \in 1 .. Draws(list, x)
            BY <1>1, <2>1
        <3> HIDE DEF m
        <3> QED BY <3>1, DrawDistinct
    <2>4. Picked(list, x, k) = Swap(u, v, Picked(list, w, k))
        BY DEF Mirrors
    <2>5. \A y, z : Swap(u, v, y) = Swap(u, v, z) => y = z
        BY DEF Swap
    <2>6. \A y : y \in Range(A[k - 1]) => Swap(u, v, y) \in Range(B[k - 1])
        BY <1>3
    <2> HIDE DEF A, B
    <2> QED BY <2>1, <2>2, <2>3, <2>4, <2>5, <2>6
<1> HIDE DEF Swapped, m
<1>4. \A k \in 0 .. j : k \in Swapped
    BY <1>1, <1>2, <1>3, Induction
<1> QED BY <1>4 DEF Swapped

LEMMA WordListsAre ==
    ASSUME NEW t \in Nat, NEW w \in WordLists(t)
    PROVE  w \in Seq(Nat) /\ Len(w) = t /\ DOMAIN w = 1 .. t /\ \A k \in 1 .. t : w[k] \in Words /\ w[k] \in Nat
<1>1. w \in [1 .. t -> Words] /\ w \in [1 .. t -> Nat]
    BY RaffleAssumption DEF WordLists
<1>2. w \in Seq(Nat) /\ Len(w) = t
    BY <1>1
<1> QED BY <1>1, <1>2

LEMMA MirrorExists ==
    ASSUME NEW list \in Seq(Accounts), IsInjective(list), \A n \in 1 .. Len(list) : EvenOver(n),
           NEW u \in Range(list), NEW v \in Range(list), NEW t \in Nat, NEW w \in WordLists(t)
    PROVE  \E x \in WordLists(t) : Mirrors(list, u, v, w, x, Draws(list, w))
<1> DEFINE m == Draws(list, w)
           Good == {j \in 0 .. m : \E x \in WordLists(t) : Mirrors(list, u, v, w, x, j)}
<1>1. w \in Seq(Nat) /\ Len(w) = t /\ DOMAIN w = 1 .. t /\ \A k \in 1 .. t : w[k] \in Words /\ w[k] \in Nat
    BY WordListsAre
<1>2. m \in Nat /\ m <= Len(list) /\ m <= t
    BY <1>1, DrawSteps DEF Draws, Lesser
<1>3. 0 \in Good
    <2>1. Mirrors(list, u, v, w, w, 0)
        BY DEF Mirrors
    <2> QED BY <1>2, <2>1
<1>4. ASSUME NEW j \in 1 .. m, j - 1 \in Good
      PROVE  j \in Good
    <2>1. PICK x \in WordLists(t) : Mirrors(list, u, v, w, x, j - 1)
        BY <1>4
    <2>2. x \in Seq(Nat) /\ Len(x) = t /\ DOMAIN x = 1 .. t
        BY WordListsAre
    <2> DEFINE A == Lists(list, w)
               B == Lists(list, x)
               n == Len(list) - (j - 1)
               y == Picked(list, w, j)
    <2>3. /\ j - 1 \in 0 .. m /\ j \in 0 .. m /\ j \in 1 .. t /\ n \in 1 .. Len(list) /\ Draws(list, x) = m
        BY <1>1, <1>2, <2>2 DEF Draws
    <2>4. B[j - 1] \in Seq(Accounts) /\ Len(B[j - 1]) = n
        <3>1. j - 1 \in 0 .. Draws(list, x)
            BY <2>3
        <3> HIDE DEF m
        <3> QED BY <2>2, <3>1, DrawSteps
    <2>5. y \in Range(A[j - 1])
        BY <1>1, DrawDistinct
    <2>6. Swap(u, v, y) \in Range(B[j - 1])
        <3>1. j - 1 \in 0 .. j - 1
            BY <2>3
        <3> HIDE DEF m, y
        <3>2. \A k \in 0 .. j - 1 : \A z : z \in Range(Lists(list, w)[k]) => Swap(u, v, z) \in Range(Lists(list, x)[k])
            BY <1>1, <2>1, <2>2, <2>3, MirroredLists DEF m
        <3> QED BY <2>5, <3>1, <3>2
    <2>7. PICK i \in 1 .. n : B[j - 1][i] = Swap(u, v, y)
        <3> HIDE DEF B, n, y
        <3> QED BY <2>4, <2>6 DEF Range
    <2> DEFINE a == w[j] % n
               b == i - 1
               word == Instead(n, a, b)[w[j]]
               z == [x EXCEPT ![j] = word]
    <2>8. a \in 0 .. n - 1 /\ b \in 0 .. n - 1 /\ n \in Nat /\ n > 0
        <3>1. n \in Nat /\ n > 0 /\ w[j] \in Nat
            BY <1>1, <2>3
        <3> HIDE DEF n
        <3> QED BY <3>1
    <2>9. word \in Words /\ word % n = b
        <3>1. w[j] \in WordsWith(n, a)
            BY <1>1, <2>3 DEF WordsWith
        <3>2. EvenOver(n)
            BY <2>3
        <3> HIDE DEF n, a, b
        <3>3. Instead(n, a, b) \in [WordsWith(n, a) -> WordsWith(n, b)]
            BY <2>8, <3>2, InsteadOf, Fun_InjectionProperties
        <3> QED BY <3>1, <3>3 DEF WordsWith
    <2> HIDE DEF word
    <2>10. z \in WordLists(t) /\ z[j] = word /\ \A k \in 1 .. t : k # j => z[k] = x[k]
        BY <2>3, <2>9 DEF WordLists
    <2> HIDE DEF z
    <2>11. z \in Seq(Nat) /\ Len(z) = t
        BY <2>10, WordListsAre
    <2>12. \A k \in 0 .. j - 1 : Lists(list, z)[k] = B[k]
        <3>1. \A k \in 1 .. j - 1 : k \in 1 .. t /\ k # j
            BY <2>3
        <3>2. \A k \in 1 .. j - 1 : z[k] = x[k]
            BY <2>10, <3>1
        <3>3. j - 1 \in 0 .. Draws(list, x)
            BY <2>3
        <3>4. \A k \in 1 .. j - 1 : x[k] = z[k]
            BY <3>2
        <3> HIDE DEF m
        <3>5. \A k \in 0 .. j - 1 : Lists(list, x)[k] = Lists(list, z)[k]
            BY <2>2, <2>11, <3>3, <3>4, SameLists
        <3> QED BY <3>5
    <2>13. Picked(list, z, j) = Swap(u, v, y)
        <3>1. j - 1 \in 0 .. j - 1
            BY <2>3
        <3>2. Lists(list, z)[j - 1] = B[j - 1] /\ z[j] = word
            BY <2>10, <2>12, <3>1
        <3>3. Drawn(B[j - 1], word) = i
            <4> HIDE DEF B, n
            <4>1. b + 1 = i
                BY <2>8
            <4> HIDE DEF b
            <4> QED BY <2>4, <2>9, <4>1 DEF Drawn
        <3> HIDE DEF B, y
        <3> QED BY <2>7, <3>2, <3>3 DEF Picked
    <2>14. z[j] = Instead(n, w[j] % n, z[j] % n)[w[j]]
        <3>1. z[j] % n = b
            BY <2>9, <2>10
        <3> QED BY <2>10, <3>1 DEF word
    <2>15. ASSUME NEW k \in 1 .. j - 1
           PROVE  Picked(list, z, k) = Picked(list, x, k) /\ z[k] = x[k]
        <3>1. k - 1 \in 0 .. j - 1 /\ k \in 1 .. t /\ k # j
            BY <2>3
        <3>2. Lists(list, z)[k - 1] = Lists(list, x)[k - 1] /\ z[k] = x[k]
            BY <2>10, <2>12, <3>1
        <3> QED BY <3>2 DEF Picked
    <2>16. Mirrors(list, u, v, w, z, j)
        <3>1. \A k \in 1 .. j : k \in 1 .. j - 1 \/ k = j
            BY <2>3
        <3>2. ASSUME NEW k \in 1 .. j
              PROVE  /\ Picked(list, z, k) = Swap(u, v, Picked(list, w, k))
                     /\ LET p == Len(list) - (k - 1)
                        IN  z[k] = Instead(p, w[k] % p, z[k] % p)[w[k]]
            <4>1. CASE k = j
                BY <2>13, <2>14, <4>1
            <4>2. CASE k \in 1 .. j - 1
                BY <2>1, <2>15, <4>2 DEF Mirrors
            <4> QED BY <3>1, <4>1, <4>2
        <3>3. ASSUME NEW k \in DOMAIN w, k > m
              PROVE  z[k] = w[k]
            <4>1. k \in 1 .. t /\ k # j
                BY <1>1, <1>2, <3>3
            <4>2. z[k] = x[k]
                BY <2>10, <4>1
            <4> QED BY <2>1, <3>3, <4>2 DEF Mirrors
        <3> QED BY <3>2, <3>3 DEF Mirrors
    <2> QED BY <2>3, <2>10, <2>16
<1> HIDE DEF Good, m
<1>5. m \in Good
    <2>1. m \in 0 .. m
        BY <1>2
    <2> QED BY <1>2, <1>3, <1>4, <2>1, Induction
<1> QED BY <1>5 DEF Good, m

\* Different words are mirrored by different ones.
LEMMA MirrorsDiffer ==
    ASSUME NEW list \in Seq(Accounts), IsInjective(list), \A n \in 1 .. Len(list) : EvenOver(n),
           NEW u, NEW v, NEW t \in Nat, NEW w \in WordLists(t), NEW g \in WordLists(t), NEW x \in WordLists(t),
           Mirrors(list, u, v, w, x, Draws(list, w)), Mirrors(list, u, v, g, x, Draws(list, g))
    PROVE  w = g
<1> DEFINE m == Draws(list, w)
           Agreed == {j \in 0 .. m : \A k \in 1 .. j : w[k] = g[k]}
<1>1. /\ w \in Seq(Nat) /\ Len(w) = t /\ DOMAIN w = 1 .. t /\ \A k \in 1 .. t : w[k] \in Words /\ w[k] \in Nat
      /\ g \in Seq(Nat) /\ Len(g) = t /\ DOMAIN g = 1 .. t /\ \A k \in 1 .. t : g[k] \in Words /\ g[k] \in Nat
      /\ \A k \in 1 .. t : x[k] \in Nat
    BY WordListsAre
<1>2. m = Draws(list, g) /\ m \in Nat /\ m <= Len(list) /\ m <= t
    BY <1>1, DrawSteps DEF Draws, Lesser
<1>3. 0 \in Agreed
    BY <1>2
<1>4. ASSUME NEW j \in 1 .. m, j - 1 \in Agreed
      PROVE  j \in Agreed
    <2> DEFINE l == Lists(list, w)[j - 1]
               n == Len(list) - (j - 1)
    <2>1. j - 1 \in 0 .. m /\ j \in 0 .. m /\ j \in 1 .. t /\ n \in 1 .. Len(list) /\ j - 1 \in 0 .. j - 1
        BY <1>1, <1>2
    <2>2. l \in Seq(Accounts) /\ Len(l) = n /\ IsInjective(l) /\ DOMAIN l = 1 .. n
        <3>1. j - 1 \in 0 .. Draws(list, w)
            BY <2>1
        <3>2. l \in Seq(Accounts) /\ Len(l) = n
            BY <1>1, <3>1, DrawSteps
        <3>3. IsInjective(l)
            BY <1>1, <3>1, DrawDistinct
        <3> HIDE DEF l, n
        <3> QED BY <3>2, <3>3
    <2>3. Lists(list, g)[j - 1] = l
        <3>1. \A k \in 1 .. j - 1 : w[k] = g[k]
            BY <1>4
        <3> HIDE DEF m
        <3> QED BY <1>1, <2>1, <3>1, SameLists DEF m
    <2> HIDE DEF l
    <2>4. Picked(list, w, j) = l[Drawn(l, w[j])] /\ Picked(list, g, j) = l[Drawn(l, g[j])]
        BY <2>3 DEF Picked, l
    <2>5. Swap(u, v, Picked(list, w, j)) = Swap(u, v, Picked(list, g, j))
        BY <1>2 DEF Mirrors
    <2>6. Drawn(l, w[j]) = Drawn(l, g[j])
        <3>1. Picked(list, w, j) = Picked(list, g, j)
            BY <2>5 DEF Swap
        <3>2. Drawn(l, w[j]) \in DOMAIN l /\ Drawn(l, g[j]) \in DOMAIN l
            <4>1. Len(l) # 0 /\ w[j] \in Nat /\ g[j] \in Nat
                BY <1>1, <2>1, <2>2
            <4> HIDE DEF n, m
            <4> QED BY <2>2, <4>1, DrawnIsThere
        <3> QED BY <2>2, <2>4, <3>1, <3>2 DEF IsInjective
    <2> DEFINE a == w[j] % n
               b == x[j] % n
    <2>7. a = g[j] % n /\ a \in 0 .. n - 1 /\ b \in 0 .. n - 1
        <3>1. n \in Nat /\ n > 0 /\ w[j] \in Nat /\ g[j] \in Nat /\ x[j] \in Nat
            BY <1>1, <2>1
        <3> HIDE DEF n, m
        <3>2. w[j] % n \in 0 .. n - 1 /\ g[j] % n \in 0 .. n - 1 /\ b \in 0 .. n - 1
            <4>1. \A p \in Nat : p % n \in 0 .. n - 1
                BY <3>1
            <4> QED BY <3>1, <4>1
        <3>3. (w[j] % n) + 1 = (g[j] % n) + 1
            BY <2>2, <2>6 DEF Drawn
        <3>4. \A p, q \in 0 .. n - 1 : p + 1 = q + 1 => p = q
            BY <3>1
        <3> HIDE DEF b
        <3> QED BY <3>2, <3>3, <3>4
    <2>8. x[j] = Instead(n, a, b)[w[j]] /\ x[j] = Instead(n, a, b)[g[j]]
        BY <1>2, <2>7 DEF Mirrors
    <2>9. w[j] \in WordsWith(n, a) /\ g[j] \in WordsWith(n, a)
        BY <1>1, <2>1, <2>7 DEF WordsWith
    <2>10. w[j] = g[j]
        <3>1. EvenOver(n)
            BY <2>1
        <3> HIDE DEF n, m, a, b
        <3>2. Instead(n, a, b) \in Injection(WordsWith(n, a), WordsWith(n, b))
            BY <2>7, <3>1, InsteadOf
        <3>3. \A p, q \in WordsWith(n, a) : Instead(n, a, b)[p] = Instead(n, a, b)[q] => p = q
            BY <3>2, Fun_InjectionProperties
        <3> QED BY <2>8, <2>9, <3>3
    <2>11. \A k \in 1 .. j : k \in 1 .. j - 1 \/ k = j
        BY <2>1
    <2> QED BY <1>4, <2>1, <2>10, <2>11
<1>5. \A k \in 1 .. m : w[k] = g[k]
    <2> HIDE DEF Agreed, m
    <2>1. m \in Agreed
        <3>1. m \in 0 .. m
            BY <1>2
        <3> QED BY <1>2, <1>3, <1>4, <3>1, Induction
    <2> QED BY <2>1 DEF Agreed
<1>6. ASSUME NEW k \in 1 .. t
      PROVE  w[k] = g[k]
    <2>1. CASE k > m
        BY <1>1, <1>2, <2>1 DEF Mirrors
    <2>2. CASE ~(k > m)
        <3>1. k \in 1 .. m
            BY <1>2, <2>2
        <3> QED BY <1>5, <3>1
    <2> QED BY <2>1, <2>2
<1> QED BY <1>6 DEF WordLists

\* The answers to a request for t words that draw u.
Wins(list, t, u) == {w \in WordLists(t) : u \in Range(Draw(list, w))}

LEMMA WinsNoOftener ==
    ASSUME NEW list \in Seq(Accounts), IsInjective(list), \A n \in 1 .. Len(list) : EvenOver(n),
           NEW u \in Range(list), NEW v \in Range(list), NEW t \in Nat
    PROVE  /\ Cardinality(Wins(list, t, u)) \in Nat /\ Cardinality(Wins(list, t, v)) \in Nat
           /\ Cardinality(Wins(list, t, u)) <= Cardinality(Wins(list, t, v))
<1> DEFINE mirror == [w \in Wins(list, t, u) |->
                         CHOOSE x \in WordLists(t) : Mirrors(list, u, v, w, x, Draws(list, w))]
<1>1. \A w \in Wins(list, t, u) : w \in WordLists(t)
    BY DEF Wins
<1>2. \A w \in Wins(list, t, u) : /\ mirror[w] \in WordLists(t)
                                  /\ Mirrors(list, u, v, w, mirror[w], Draws(list, w))
    <2>1. ASSUME NEW w \in Wins(list, t, u)
          PROVE  /\ mirror[w] \in WordLists(t)
                 /\ Mirrors(list, u, v, w, mirror[w], Draws(list, w))
        <3>1. \E x \in WordLists(t) : Mirrors(list, u, v, w, x, Draws(list, w))
            BY <1>1, MirrorExists
        <3>2. mirror[w] = CHOOSE x \in WordLists(t) : Mirrors(list, u, v, w, x, Draws(list, w))
            OBVIOUS
        <3> HIDE DEF mirror
        <3> QED BY <3>1, <3>2, Zenon
    <2> QED BY <2>1
<1>3. ASSUME NEW w \in Wins(list, t, u)
      PROVE  mirror[w] \in Wins(list, t, v)
    <2> DEFINE x == mirror[w]
    <2>1. x \in WordLists(t) /\ Mirrors(list, u, v, w, x, Draws(list, w))
        BY <1>2
    <2> HIDE DEF x, mirror
    <2>2. Len(w) = t /\ Len(x) = t
        BY <1>1, <2>1, WordListsAre
    <2>3. /\ Draw(list, w) = [k \in 1 .. Draws(list, w) |-> Picked(list, w, k)]
          /\ Draw(list, x) = [k \in 1 .. Draws(list, w) |-> Picked(list, x, k)]
        BY <2>2 DEF Draw, Draws, Picked
    <2>4. PICK k \in 1 .. Draws(list, w) : u = Picked(list, w, k)
        BY <2>3 DEF Wins, Range
    <2>5. Picked(list, x, k) = v
        BY <2>1, <2>4 DEF Mirrors, Swap
    <2>6. v \in Range(Draw(list, x))
        BY <2>3, <2>5 DEF Range
    <2> QED BY <2>1, <2>6 DEF Wins, x
<1>4. ASSUME NEW w \in Wins(list, t, u), NEW g \in Wins(list, t, u), mirror[w] = mirror[g]
      PROVE  w = g
    <2>1. /\ Mirrors(list, u, v, w, mirror[w], Draws(list, w))
          /\ Mirrors(list, u, v, g, mirror[w], Draws(list, g)) /\ mirror[w] \in WordLists(t)
        BY <1>2, <1>4
    <2> HIDE DEF mirror
    <2> QED BY <1>1, <2>1, MirrorsDiffer
<1>5. mirror \in [Wins(list, t, u) -> Wins(list, t, v)]
    <2>1. mirror = [w \in Wins(list, t, u) |-> mirror[w]]
        OBVIOUS
    <2> HIDE DEF mirror
    <2> QED BY <1>3, <2>1
<1> HIDE DEF mirror
<1>6. mirror \in Injection(Wins(list, t, u), Wins(list, t, v))
    BY <1>4, <1>5, Fun_IsInj
<1>7. IsFiniteSet(Wins(list, t, u)) /\ IsFiniteSet(Wins(list, t, v))
    BY AnswersFinite, FS_Subset DEF Wins
<1> QED BY <1>6, <1>7, FS_CardinalityType, FS_Injection

\* Any candidate of a list without repetitions is drawn by as many of the possible answers
\* as any other (fulfillRandomWords), if as many words have one remainder as another.
THEOREM DrawsEvenHanded == RaffleSpec => []DrawIsEvenHanded
<1>1. RaffleTypeOK => DrawIsEvenHanded
    <2> SUFFICES ASSUME RaffleTypeOK, NEW r \in RequestIds, IsInjective(requests[r].addresses),
                        \A n \in 1 .. Len(requests[r].addresses) : EvenOver(n),
                        NEW u \in Range(requests[r].addresses), NEW v \in Range(requests[r].addresses)
                 PROVE  Cardinality(Wins(requests[r].addresses, requests[r].tickets, u))
                            = Cardinality(Wins(requests[r].addresses, requests[r].tickets, v))
        BY DEF DrawIsEvenHanded, Wins
    <2>1. PICK list, t : list = requests[r].addresses /\ t = requests[r].tickets
        OBVIOUS
    <2>2. list \in Seq(Accounts) /\ t \in Nat
        BY <2>1 DEF RaffleTypeOK
    <2>3. /\ Cardinality(Wins(list, t, u)) \in Nat /\ Cardinality(Wins(list, t, v)) \in Nat
          /\ Cardinality(Wins(list, t, u)) <= Cardinality(Wins(list, t, v))
          /\ Cardinality(Wins(list, t, v)) <= Cardinality(Wins(list, t, u))
        BY <2>1, <2>2, WinsNoOftener
    <2>4. Cardinality(Wins(list, t, u)) = Cardinality(Wins(list, t, v))
        BY <2>3
    <2> QED BY <2>1, <2>4
<1>2. DrawIsFair => RaffleTypeOK
    BY DEF DrawIsFair
<1> QED BY <1>1, <1>2, RaffleIsFair, PTL

-----------------------------------------------------------------------------
(* The paymaster                                                           *)

\* A paymaster of createPaymaster belongs to the registry, which calls nothing of it; and
\* one that is not there yet has no hub.
CreatedIsOrphan ==
    /\ \A u \in Holders : paymasterOf[u] # NoPaymaster
         => owner[paymasterOf[u]] = PoolRegistry /\ hub[paymasterOf[u]] = Zero
    /\ \A m \in Paymasters : owner[m] = Zero => hub[m] = Zero

PaymasterIInv == PaymasterTypeOK /\ CreatedIsOrphan

LEMMA PaymasterStart ==
    ASSUME PaymasterInit
    PROVE  PaymasterIInv
<1>1. PaymasterTypeOK
    <2>1. price \in Nat \ {0} /\ 0 \in 0 .. MaxDeposit
        BY PaymasterAssumption DEF PaymasterInit
    <2>2. /\ paymasterOf \in [Holders -> Paymasters \cup {NoPaymaster}]
          /\ owner \in [Paymasters -> Holders \cup {PoolRegistry, Zero}]
          /\ hub \in [Paymasters -> {Hub, Zero}]
          /\ deposit \in [Paymasters -> 0 .. MaxDeposit]
          /\ balance \in [Holders -> Nat] /\ total \in Nat
        BY <2>1 DEF PaymasterInit
    <2>3. last.status \in Statuses
        BY DEF PaymasterInit, NoCall, Statuses
    <2>4. erc1155 \in BOOLEAN /\ active \in BOOLEAN /\ barred \subseteq Holders
        BY DEF PaymasterInit
    <2> QED BY <2>1, <2>2, <2>3, <2>4 DEF PaymasterTypeOK
<1>2. CreatedIsOrphan
    BY DEF PaymasterInit, CreatedIsOrphan
<1> QED BY <1>1, <1>2 DEF PaymasterIInv

\* A request that is accepted asks for what the pool redeems, but for the reasons the
\* paymaster does not look at.
LEMMA AcceptedIsRedeemable ==
    ASSUME PaymasterTypeOK, NEW u \in Holders, NEW n \in Amounts, Accepts(u, n),
           active, n \in 1 .. MaxPerTx, u \notin barred
    PROVE  Redeemable(u, n)
<1>1. /\ Cut \in Nat \ {0} /\ High \in Nat \ {0} /\ Selector \in Nat /\ Selector >= 1
      /\ MaxPerTx \in Nat /\ MaxPerTx <= High /\ n \in Nat /\ n <= MaxPerTx
    BY PaymasterAssumption
<1>2. price \in Nat /\ price >= 1 /\ total \in Nat /\ balance[u] \in Nat
    BY DEF PaymasterTypeOK
<1>3. PICK c \in Nat, h \in Nat, s \in Nat, p \in Nat, b \in Nat :
          c = Cut /\ h = High /\ s = Selector /\ p = price /\ b = balance[u] /\ c >= 1 /\ s >= 1 /\ p >= 1
    BY <1>1, <1>2
<1>4. s * h >= h
    BY <1>3
<1>5. n \div c \in Nat
    BY <1>1, <1>3
<1>6. PICK d \in Nat : d = Decoded(n) /\ d >= n
    <2>1. PICK q \in Nat : q = n \div c
        BY <1>5
    <2>2. s * h \in Nat
        BY <1>3
    <2>3. Decoded(n) = s * h + q
        BY <1>3, <2>1 DEF Decoded
    <2> QED BY <1>1, <1>3, <1>4, <2>1, <2>2, <2>3
<1>7. n * p <= d * p /\ n * p \in Nat /\ d * p \in Nat
    <2>1. PICK e \in Nat : d = n + e
        <3>1. d - n \in Nat /\ d = n + (d - n)
            BY <1>1, <1>6
        <3> QED BY <3>1
    <2>2. (n + e) * p = n * p + e * p /\ n * p \in Nat /\ e * p \in Nat
        BY <1>1, <1>3
    <2> QED BY <2>1, <2>2
<1>8. Word \in Nat
    BY <1>1 DEF Word
<1>9. d * p < Word /\ n * p < Word
    BY <1>3, <1>6, <1>7, <1>8 DEF Accepts
<1>10. b >= d * p
    <2>1. CASE erc1155
        BY <1>3, <1>6, <2>1 DEF Accepts, GetRedeemTokenBalanceOf
    <2>2. CASE ~erc1155
        <3>1. b \div p >= d * p
            BY <1>3, <1>6, <2>2 DEF Accepts, GetRedeemTokenBalanceOf
        <3>2. b \div p <= b /\ b \div p \in Nat
            BY <1>3
        <3> QED BY <1>3, <1>7, <3>1, <3>2
    <2> QED BY <2>1, <2>2
<1>11. n <= total
    BY <1>1, <1>2, <1>6 DEF Accepts
<1>12. n * price < Word /\ balance[u] >= n * price
    BY <1>3, <1>7, <1>9, <1>10
<1> QED BY <1>11, <1>12 DEF Redeemable

LEMMA RedeemKeeps ==
    ASSUME PaymasterTypeOK, NEW u \in Holders, NEW n \in Amounts, Redeemable(u, n), Redeem(u, n)
    PROVE  /\ erc1155' \in BOOLEAN /\ price' \in Nat \ {0} /\ total' \in Nat /\ active' \in BOOLEAN
           /\ balance' \in [Holders -> Nat] /\ barred' \subseteq Holders
<1>1. n \in Nat /\ n <= total /\ total \in Nat /\ balance[u] \in Nat /\ balance[u] >= n * price
    BY PaymasterAssumption DEF Redeemable, PaymasterTypeOK
<1>2. PICK cost \in Nat : cost = n * price
    BY <1>1 DEF PaymasterTypeOK
<1>3. balance[u] - cost \in Nat /\ total - n \in Nat
    BY <1>1, <1>2
<1> QED BY <1>2, <1>3 DEF Redeem, PaymasterTypeOK

\* What every step keeps, with what it may do.
PaymasterStepRight == PaymasterIInv' /\ PaysForNoShortageStep /\ CreatedStaysIdleStep

\* Owners, hubs and deposits stay, and no call fails.
LEMMA OfferSteps ==
    ASSUME PaymasterIInv, UNCHANGED contractVars, last' = NoCall,
           /\ erc1155' \in BOOLEAN /\ price' \in Nat \ {0} /\ total' \in Nat /\ active' \in BOOLEAN
           /\ balance' \in [Holders -> Nat] /\ barred' \subseteq Holders
    PROVE  PaymasterStepRight
<1>1. PaymasterTypeOK'
    BY DEF PaymasterIInv, PaymasterTypeOK, contractVars, NoCall, Statuses
<1>2. CreatedIsOrphan'
    BY DEF PaymasterIInv, CreatedIsOrphan, contractVars
<1>3. PaysForNoShortageStep
    BY DEF PaysForNoShortageStep, NoCall
<1>4. CreatedStaysIdleStep
    <2>1. \A m \in Paymasters : deposit[m] \in Int /\ deposit'[m] = deposit[m]
        BY PaymasterAssumption DEF PaymasterIInv, PaymasterTypeOK, contractVars
    <2> QED BY <2>1 DEF CreatedStaysIdleStep, PaymasterIInv, PaymasterTypeOK
<1> QED BY <1>1, <1>2, <1>3, <1>4 DEF PaymasterStepRight, PaymasterIInv

LEMMA PaymasterStep ==
    ASSUME PaymasterIInv, PaymasterNext
    PROVE  PaymasterStepRight
<1> USE PaymasterAssumption
<1>0. /\ PaymasterTypeOK /\ CreatedIsOrphan
      /\ \A u \in Holders : paymasterOf[u] # NoPaymaster => paymasterOf[u] \in Paymasters
      /\ \A m \in Paymasters : deposit[m] \in Int /\ deposit[m] \in 0 .. MaxDeposit
    BY DEF PaymasterIInv, PaymasterTypeOK
<1>1. ASSUME PoolChanges
      PROVE  PaymasterStepRight
    <2>1. /\ erc1155' \in BOOLEAN /\ price' \in Nat \ {0} /\ total' \in Nat /\ active' \in BOOLEAN
          /\ balance' \in [Holders -> Nat] /\ barred' \subseteq Holders
        <3>1. erc1155' = erc1155
            BY <1>1 DEF PoolChanges
        <3>2. CASE price' \in RedeemPrices /\ UNCHANGED <<total, active, balance, barred>>
            BY <1>0, <3>1, <3>2 DEF PaymasterTypeOK
        <3>3. CASE total' \in Totals /\ UNCHANGED <<price, active, balance, barred>>
            BY <1>0, <3>1, <3>3 DEF PaymasterTypeOK
        <3>4. CASE active' = ~active /\ UNCHANGED <<price, total, balance, barred>>
            BY <1>0, <3>1, <3>4 DEF PaymasterTypeOK
        <3>5. ASSUME NEW u \in Holders, NEW b \in Balances, balance' = [balance EXCEPT ![u] = b],
                     UNCHANGED <<price, total, active, barred>>
              PROVE  /\ price' \in Nat \ {0} /\ total' \in Nat /\ active' \in BOOLEAN
                     /\ balance' \in [Holders -> Nat] /\ barred' \subseteq Holders
            BY <1>0, <3>5 DEF PaymasterTypeOK
        <3>6. ASSUME NEW u \in Holders, barred' = IF u \in barred THEN barred \ {u} ELSE barred \cup {u},
                     UNCHANGED <<price, total, active, balance>>
              PROVE  /\ price' \in Nat \ {0} /\ total' \in Nat /\ active' \in BOOLEAN
                     /\ balance' \in [Holders -> Nat] /\ barred' \subseteq Holders
            BY <1>0, <3>6 DEF PaymasterTypeOK
        <3> QED BY <1>0, <1>1, <3>1, <3>2, <3>3, <3>4, <3>5, <3>6 DEF PoolChanges, PaymasterTypeOK
    <2> QED BY <1>1, <2>1, OfferSteps DEF PoolChanges
<1>2. ASSUME NEW u \in Holders, NEW n \in Amounts, RedeemAsset(u, n)
      PROVE  PaymasterStepRight
    BY <1>0, <1>2, RedeemKeeps, OfferSteps DEF RedeemAsset
<1>3. ASSUME NEW u \in Holders, NEW m \in Paymasters, NewPaymaster(u, m)
      PROVE  PaymasterStepRight
    <2>1. PaymasterTypeOK'
        BY <1>0, <1>3 DEF NewPaymaster, Deployed, PaymasterTypeOK, offerVars, NoCall, Statuses
    <2>2. CreatedIsOrphan'
        BY <1>0, <1>3 DEF NewPaymaster, Deployed, CreatedIsOrphan, PaymasterTypeOK
    <2>3. PaysForNoShortageStep /\ CreatedStaysIdleStep
        BY <1>0, <1>3 DEF NewPaymaster, PaysForNoShortageStep, CreatedStaysIdleStep, NoCall
    <2> QED BY <2>1, <2>2, <2>3 DEF PaymasterStepRight, PaymasterIInv
<1>4. ASSUME NEW u \in Holders, NEW m \in Paymasters, DeployPaymaster(u, m)
      PROVE  PaymasterStepRight
    <2>1. PaymasterTypeOK'
        BY <1>0, <1>4 DEF DeployPaymaster, Deployed, PaymasterTypeOK, offerVars, NoCall, Statuses
    <2>2. CreatedIsOrphan'
        BY <1>0, <1>4 DEF DeployPaymaster, Deployed, CreatedIsOrphan, PaymasterTypeOK
    <2>3. PaysForNoShortageStep /\ CreatedStaysIdleStep
        BY <1>0, <1>4 DEF DeployPaymaster, PaysForNoShortageStep, CreatedStaysIdleStep, NoCall
    <2> QED BY <2>1, <2>2, <2>3 DEF PaymasterStepRight, PaymasterIInv
<1>5. ASSUME NEW u \in Holders, NEW m \in Paymasters, SetRelayHub(u, m)
      PROVE  PaymasterStepRight
    <2>1. PaymasterTypeOK'
        BY <1>0, <1>5 DEF SetRelayHub, PaymasterTypeOK, offerVars, NoCall, Statuses
    <2>2. CreatedIsOrphan'
        BY <1>0, <1>5 DEF SetRelayHub, CreatedIsOrphan, PaymasterTypeOK
    <2>3. PaysForNoShortageStep /\ CreatedStaysIdleStep
        BY <1>0, <1>5 DEF SetRelayHub, PaysForNoShortageStep, CreatedStaysIdleStep, NoCall
    <2> QED BY <2>1, <2>2, <2>3 DEF PaymasterStepRight, PaymasterIInv
<1>6. ASSUME NEW u \in Holders, NEW m \in Paymasters, WithdrawRelayHubDepositTo(u, m, Charge)
      PROVE  PaymasterStepRight
    <2>1. /\ deposit' = [deposit EXCEPT ![m] = @ - Charge] /\ deposit[m] >= Charge
          /\ last' = NoCall /\ UNCHANGED <<paymasterOf, owner, hub, offerVars>>
          /\ owner[m] = u
        BY <1>6 DEF WithdrawRelayHubDepositTo
    <2>2. deposit[m] - Charge \in 0 .. MaxDeposit
        BY <1>0, <2>1
    <2>3. PaymasterTypeOK'
        BY <1>0, <2>1, <2>2 DEF PaymasterTypeOK, offerVars, NoCall, Statuses
    <2>4. CreatedIsOrphan'
        BY <1>0, <2>1 DEF CreatedIsOrphan
    <2>5. PaysForNoShortageStep
        BY <2>1 DEF PaysForNoShortageStep, NoCall
    <2>6. CreatedStaysIdleStep
        <3>1. ASSUME NEW v \in Holders, paymasterOf[v] # NoPaymaster
              PROVE  deposit'[paymasterOf[v]] >= deposit[paymasterOf[v]]
            <4>1. paymasterOf[v] # m /\ paymasterOf[v] \in Paymasters
                BY <1>0, <2>1, <3>1 DEF CreatedIsOrphan
            <4>2. deposit'[paymasterOf[v]] = deposit[paymasterOf[v]]
                BY <1>0, <2>1, <4>1 DEF PaymasterTypeOK
            <4> QED BY <1>0, <4>1, <4>2
        <3> QED BY <3>1 DEF CreatedStaysIdleStep
    <2> QED BY <2>3, <2>4, <2>5, <2>6 DEF PaymasterStepRight, PaymasterIInv
<1>7. ASSUME NEW m \in Paymasters, Receive(m, Charge) \/ DepositFor(m, Charge)
      PROVE  PaymasterStepRight
    <2>1. /\ deposit' = [deposit EXCEPT ![m] = @ + Charge] /\ deposit[m] + Charge <= MaxDeposit
          /\ last' = NoCall /\ UNCHANGED <<paymasterOf, owner, hub, offerVars>>
        BY <1>7 DEF Receive, DepositFor
    <2>2. deposit[m] + Charge \in 0 .. MaxDeposit /\ deposit[m] + Charge >= deposit[m]
        BY <1>0, <2>1
    <2>3. PaymasterTypeOK'
        BY <1>0, <2>1, <2>2 DEF PaymasterTypeOK, offerVars, NoCall, Statuses
    <2>4. CreatedIsOrphan'
        BY <1>0, <2>1 DEF CreatedIsOrphan
    <2>5. PaysForNoShortageStep
        BY <2>1 DEF PaysForNoShortageStep, NoCall
    <2>6. \A k \in Paymasters : deposit'[k] >= deposit[k]
        BY <1>0, <2>1, <2>2 DEF PaymasterTypeOK
    <2>7. CreatedStaysIdleStep
        BY <1>0, <2>6 DEF CreatedStaysIdleStep
    <2> QED BY <2>3, <2>4, <2>5, <2>7 DEF PaymasterStepRight, PaymasterIInv
<1>8. ASSUME NEW m \in Paymasters, NEW u \in Holders, NEW n \in Amounts, RelayCall(m, u, n)
      PROVE  PaymasterStepRight
    <2>0. CreatedIsOrphan'
        BY <1>0, <1>8 DEF RelayCall, CreatedIsOrphan
    <2>1. CASE hub[m] # Hub \/ ~Accepts(u, n)
        <3>1. /\ last' = Event("RejectedByPreRelayed", m, u, n)
              /\ UNCHANGED <<deposit, offerVars>> /\ UNCHANGED <<paymasterOf, owner, hub>>
            BY <1>8, <2>1 DEF RelayCall
        <3>2. PaymasterTypeOK'
            BY <1>0, <3>1 DEF PaymasterTypeOK, offerVars, Event, Statuses
        <3>3. PaysForNoShortageStep /\ CreatedStaysIdleStep
            BY <1>0, <3>1 DEF PaysForNoShortageStep, CreatedStaysIdleStep, Event
        <3> QED BY <2>0, <3>2, <3>3 DEF PaymasterStepRight, PaymasterIInv
    <2>2. CASE hub[m] = Hub /\ Accepts(u, n)
        <3>1. /\ deposit' = [deposit EXCEPT ![m] = @ - Charge] /\ deposit[m] >= Charge
              /\ UNCHANGED <<paymasterOf, owner, hub>>
              /\ \/ /\ Redeemable(u, n) /\ Redeem(u, n)
                    /\ last' = Event("OK", m, u, n)
                 \/ /\ ~Redeemable(u, n)
                    /\ last' = Event("RelayedCallFailed", m, u, n)
                    /\ UNCHANGED offerVars
            BY <1>8, <2>2 DEF RelayCall
        <3>2. /\ deposit[m] - Charge \in 0 .. MaxDeposit
              /\ deposit' \in [Paymasters -> 0 .. MaxDeposit]
              /\ \A k \in Paymasters \ {m} : deposit'[k] = deposit[k]
            BY <1>0, <3>1 DEF PaymasterTypeOK
        <3>3. CreatedStaysIdleStep
            <4>1. ASSUME NEW v \in Holders, paymasterOf[v] # NoPaymaster
                  PROVE  deposit'[paymasterOf[v]] >= deposit[paymasterOf[v]]
                <5>1. paymasterOf[v] # m /\ paymasterOf[v] \in Paymasters
                    BY <1>0, <2>2, <4>1 DEF CreatedIsOrphan
                <5> QED BY <1>0, <3>2, <5>1
            <4> QED BY <4>1 DEF CreatedStaysIdleStep
        <3>4. CASE Redeemable(u, n) /\ Redeem(u, n) /\ last' = Event("OK", m, u, n)
            <4>1. PaymasterTypeOK'
                <5>1. /\ erc1155' \in BOOLEAN /\ price' \in Nat \ {0} /\ total' \in Nat
                      /\ active' \in BOOLEAN
                      /\ balance' \in [Holders -> Nat] /\ barred' \subseteq Holders
                    BY <1>0, <3>4, RedeemKeeps
                <5> QED BY <1>0, <3>1, <3>2, <3>4, <5>1 DEF PaymasterTypeOK, Event, Statuses
            <4>2. PaysForNoShortageStep
                BY <3>4 DEF PaysForNoShortageStep, Event
            <4> QED BY <2>0, <3>3, <4>1, <4>2 DEF PaymasterStepRight, PaymasterIInv
        <3>5. CASE /\ ~Redeemable(u, n) /\ last' = Event("RelayedCallFailed", m, u, n)
                   /\ UNCHANGED offerVars
            <4>1. PaymasterTypeOK'
                BY <1>0, <3>1, <3>2, <3>5 DEF PaymasterTypeOK, offerVars, Event, Statuses
            <4>2. ~(active /\ n \in 1 .. MaxPerTx /\ u \notin barred)
                BY <1>0, <2>2, <3>5, AcceptedIsRedeemable
            <4>3. last'.amount = n /\ last'.from = u
                BY <3>5 DEF Event
            <4>4. PaysForNoShortageStep
                BY <4>2, <4>3 DEF PaysForNoShortageStep
            <4> QED BY <2>0, <3>3, <4>1, <4>4 DEF PaymasterStepRight, PaymasterIInv
        <3> QED BY <3>1, <3>4, <3>5
    <2> QED BY <2>1, <2>2
<1> QED BY <1>1, <1>2, <1>3, <1>4, <1>5, <1>6, <1>7, <1>8 DEF PaymasterNext

\* A paymaster pays for no redemption that fails for want of tokens or assets, and what
\* is deposited for a paymaster of the registry stays at the hub.
THEOREM PaymastersAreSound == PaymasterSpec => PaymastersSound
<1>1. PaymasterInit => PaymasterIInv
    BY PaymasterStart
<1>2. PaymasterIInv /\ [PaymasterNext]_paymasterVars => PaymasterIInv'
    <2>1. PaymasterIInv /\ UNCHANGED paymasterVars => PaymasterIInv'
        BY DEF PaymasterIInv, PaymasterTypeOK, CreatedIsOrphan, paymasterVars, contractVars, offerVars
    <2> QED BY <2>1, PaymasterStep DEF PaymasterStepRight
<1>3. PaymasterIInv /\ [PaymasterNext]_paymasterVars
          => [PaysForNoShortageStep /\ CreatedStaysIdleStep]_paymasterVars
    BY PaymasterStep DEF PaymasterStepRight
<1>4. PaymasterIInv => PaymasterTypeOK
    BY DEF PaymasterIInv
<1> QED BY <1>1, <1>2, <1>3, <1>4, PTL DEF PaymasterSpec, PaymastersSound
=============================================================================
