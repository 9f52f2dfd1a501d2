------------------------ MODULE ThenarProtocolProofs ------------------------
(***************************************************************************)
(* Theorems of ThenarProtocol, for every set of accounts, every number of  *)
(* tasks and every value of the contract's constants.                      *)
(*                                                                         *)
(* The money invariant is TypeOK, ClaimsAddUp and Solvent together: types  *)
(* need ClaimsAddUp (claimableTotal - claimable[a] is a natural only       *)
(* because the total covers it), and Solvent needs both.                   *)
(*                                                                         *)
(* The slot properties rest on SlotInv (each counter within its quota, and *)
(* the counters count the runs), the refinement of BountyBook on BountyInv *)
(* (with the posted tasks and the runs paid once), the cap tables on       *)
(* TableInv (the list of contributors, and the copies policies keep).      *)
(***************************************************************************)
EXTENDS ThenarProtocol, SumTheorems, SequenceTheorems

-----------------------------------------------------------------------------
(* The slot counters, for every number of slots and every choice of        *)
(* SLOTS_PER_SHARD and MAX_SHARDS: the quotas add up to the task's slots,  *)
(* so counters within their quotas never oversell, and some counter has    *)
(* room exactly as long as a slot is free.                                 *)

LEMMA DivMod ==
  ASSUME NEW a \in Nat, NEW b \in Nat \ {0}
  PROVE  /\ a \div b \in Nat /\ a % b \in 0 .. (b - 1)
         /\ a = b * (a \div b) + (a % b)
OBVIOUS

(* A task has at least one counter and at most MAX_SHARDS.                 *)
LEMMA ShardsForType ==
  ASSUME NEW n \in Nat
  PROVE  ShardsFor(n) \in 1 .. MAX_SHARDS /\ ShardsFor(n) \in Nat \ {0}
<1>1. n \div SLOTS_PER_SHARD \in Nat
  BY ShardAssumption, DivMod
<1> QED BY <1>1, ShardAssumption DEF ShardsFor

LEMMA ShardsFinite == ASSUME NEW n \in Nat PROVE IsFiniteSet(Shards(n))
BY ShardsForType, FS_Interval DEF Shards

LEMMA QuotaType ==
  ASSUME NEW n \in Nat, NEW s \in Shards(n)
  PROVE  Quota(n, s) \in Nat
<1>1. n \div ShardsFor(n) \in Nat
  BY ShardsForType, DivMod
<1>2. Quota(n, s) \in {n \div ShardsFor(n), (n \div ShardsFor(n)) + 1}
  BY Zenon DEF Quota
<1> QED BY ONLY <1>1, <1>2

(***************************************************************************)
(* _quota: the quotas of a task's counters add up to its slots, whatever   *)
(* the remainder of the division.                                          *)
(***************************************************************************)
THEOREM QuotasCoverSlots ==
  ASSUME NEW n \in Nat
  PROVE  SumFunctionOnSet([s \in Shards(n) |-> Quota(n, s)], Shards(n)) = n
<1>1. PICK k \in Nat \ {0} : k = ShardsFor(n)
  BY ShardsForType
<1>2. PICK base \in Nat, rem \in 0 .. (k - 1) :
        base = n \div k /\ rem = n % k /\ n = k * base + rem
  BY DivMod
<1>3. PICK q \in [0 .. (k - 1) -> Nat] :
        /\ q = [s \in Shards(n) |-> Quota(n, s)]
        /\ \A s \in 0 .. (k - 1) : q[s] = IF s < rem THEN base + 1 ELSE base
  <2>1. Shards(n) = 0 .. (k - 1)
    BY <1>1 DEF Shards
  <2>2. \A s \in 0 .. (k - 1) : Quota(n, s) = IF s < rem THEN base + 1 ELSE base
    BY <1>1, <1>2 DEF Quota
  <2> DEFINE h == [s \in Shards(n) |-> Quota(n, s)]
  <2>3. \A s \in 0 .. (k - 1) : h[s] = IF s < rem THEN base + 1 ELSE base
    BY <2>1, <2>2
  <2>4. \A s \in 0 .. (k - 1) : h[s] \in Nat
    <3> HIDE DEF h
    <3> QED BY <2>3
  <2>5. h \in [0 .. (k - 1) -> Nat]
    BY <2>1, <2>4
  <2> QED BY <2>3, <2>5
<1> DEFINE upTo(m) == base * m + (IF m < rem THEN m ELSE rem)
           G == {m \in Nat : m <= k => SumFunctionOnSet(q, 0 .. (m - 1)) = upTo(m)}
<1>4. 0 \in G
  <2>1. 0 .. (0 - 1) = {}
    OBVIOUS
  <2>2. SumFunctionOnSet(q, 0 .. (0 - 1)) = 0
    BY <2>1, SumEmpty
  <2>3. upTo(0) = 0
    BY base * 0 = 0
  <2> QED BY <2>2, <2>3
<1>5. ASSUME NEW m \in Nat, m \in G PROVE m + 1 \in G
  <2> SUFFICES ASSUME m + 1 <= k
               PROVE  SumFunctionOnSet(q, 0 .. ((m + 1) - 1)) = upTo(m + 1)
    OBVIOUS
  <2>1. /\ 0 .. ((m + 1) - 1) = 0 .. m /\ (0 .. m) \ {m} = 0 .. (m - 1)
        /\ m \in 0 .. m /\ 0 .. m \subseteq 0 .. (k - 1)
    OBVIOUS
  <2>2. IsFiniteSet(0 .. m)
    BY FS_Interval
  <2>3. \A s \in 0 .. m : q[s] \in Int
    BY <2>1
  <2>4. SumFunctionOnSet(q, 0 .. m) = q[m] + SumFunctionOnSet(q, 0 .. (m - 1))
    BY <2>1, <2>2, <2>3, SumRemove
  <2>5. SumFunctionOnSet(q, 0 .. (m - 1)) = upTo(m)
    BY <1>5
  <2>6. q[m] = IF m < rem THEN base + 1 ELSE base
    BY <1>3, <2>1
  <2>7. base * (m + 1) = base * m + base /\ base * m \in Int
    OBVIOUS
  <2>8. upTo(m + 1) = q[m] + upTo(m)
    BY <2>6, <2>7
  <2> HIDE DEF upTo
  <2> QED BY <2>1, <2>4, <2>5, <2>8
<1>6. k \in G
  <2> HIDE DEF G
  <2> QED BY <1>4, <1>5, NatSetInduction, Zenon
<1>7. SumFunctionOnSet(q, 0 .. (k - 1)) = upTo(k)
  BY <1>6
<1>8. upTo(k) = n
  BY <1>2
<1> QED BY <1>1, <1>3, <1>7, <1>8 DEF Shards

(***************************************************************************)
(* _anyShardWithRoom finds a counter of the task that has room, when one   *)
(* has.                                                                    *)
(***************************************************************************)
THEOREM FallbackFindsRoom ==
  ASSUME NEW n \in Nat, NEW filled \in [0 .. (MAX_SHARDS - 1) -> Nat],
         \E s \in Shards(n) : HasRoom(filled, n, s)
  PROVE  /\ AnyShardWithRoom(filled, n) \in Shards(n)
         /\ HasRoom(filled, n, AnyShardWithRoom(filled, n))
<1> DEFINE S == {s \in Shards(n) : HasRoom(filled, n, s)}
<1>1. S \in SUBSET Nat /\ S # {} /\ Shards(n) \subseteq Nat
  <2>1. Shards(n) \subseteq Nat
    BY ShardsForType DEF Shards
  <2> QED BY <2>1
<1>2. PICK m \in S : \A s \in S : m <= s
  <2> HIDE DEF S
  <2> QED BY <1>1, LeastNat
<1>3. /\ m \in Shards(n) /\ HasRoom(filled, n, m)
      /\ \A r \in 0 .. (m - 1) : ~ HasRoom(filled, n, r)
  <2>1. ASSUME NEW r \in 0 .. (m - 1), HasRoom(filled, n, r) PROVE FALSE
    <3>1. m \in Shards(n)
      BY <1>2
    <3>2. r \in Shards(n) /\ ~ (m <= r)
      BY <3>1, ShardsForType DEF Shards
    <3> QED BY <1>2, <2>1, <3>2
  <2> QED BY <1>2, <2>1
<1>4. \E s \in Shards(n) : /\ HasRoom(filled, n, s)
                           /\ \A r \in 0 .. (s - 1) : ~ HasRoom(filled, n, r)
  BY <1>3
<1> QED BY <1>4, Zenon DEF AnyShardWithRoom

(***************************************************************************)
(* Counters within their quotas hold at most the task's slots, and some    *)
(* counter has room exactly when they hold fewer.                          *)
(***************************************************************************)
THEOREM RoomExactlyWhileUnfilled ==
  ASSUME NEW n \in Nat, NEW filled \in [0 .. (MAX_SHARDS - 1) -> Nat],
         \A s \in Shards(n) : filled[s] <= Quota(n, s)
  PROVE  /\ SlotsFilledOf(filled, n) \in Nat
         /\ SlotsFilledOf(filled, n) <= n
         /\ SlotsFilledOf(filled, n) < n <=> \E s \in Shards(n) : HasRoom(filled, n, s)
<1> DEFINE q == [s \in Shards(n) |-> Quota(n, s)]
<1>1. Shards(n) \subseteq 0 .. (MAX_SHARDS - 1)
  BY ShardsForType, ShardAssumption DEF Shards
<1>2. \A s \in Shards(n) : /\ filled[s] \in Nat /\ q[s] \in Nat
                           /\ filled[s] \in Int /\ q[s] \in Int
                           /\ filled[s] <= q[s]
  BY <1>1, QuotaType
<1>3. SumFunctionOnSet(q, Shards(n)) = n
  BY QuotasCoverSlots
<1>4. IsFiniteSet(Shards(n))
  BY ShardsFinite
<1>5. SlotsFilledOf(filled, n) \in Nat
  BY <1>2, <1>4, SumNat DEF SlotsFilledOf
<1>6. SlotsFilledOf(filled, n) <= n
  <2> HIDE DEF q
  <2>1. SumFunctionOnSet(filled, Shards(n)) <= SumFunctionOnSet(q, Shards(n))
    BY <1>2, <1>4, SumMonotone
  <2> QED BY <1>3, <2>1 DEF SlotsFilledOf
<1>7. ASSUME NEW s \in Shards(n), HasRoom(filled, n, s)
      PROVE  SlotsFilledOf(filled, n) < n
  <2>1. filled[s] < q[s]
    BY <1>7 DEF HasRoom
  <2> HIDE DEF q
  <2>2. SumFunctionOnSet(filled, Shards(n)) < SumFunctionOnSet(q, Shards(n))
    BY <1>2, <1>4, <2>1, SumStrict
  <2> QED BY <1>3, <2>2 DEF SlotsFilledOf
<1>8. ASSUME \A s \in Shards(n) : ~ HasRoom(filled, n, s)
      PROVE  SlotsFilledOf(filled, n) = n
  <2>1. \A s \in Shards(n) : q[s] \in Int /\ filled[s] = q[s]
    BY <1>2, <1>8 DEF HasRoom
  <2> HIDE DEF q
  <2>2. SumFunctionOnSet(filled, Shards(n)) = SumFunctionOnSet(q, Shards(n))
    BY <1>4, <2>1, SumSame
  <2> QED BY <1>3, <2>2 DEF SlotsFilledOf
<1> QED BY <1>5, <1>6, <1>7, <1>8

-----------------------------------------------------------------------------
(* The protocol                                                            *)

LEMMA HoldersFinite == IsFiniteSet(Holders) /\ Accounts \subseteq Holders
BY ProtocolAssumption, FS_AddElement DEF Holders

LEMMA TaskIdsFinite == IsFiniteSet(TaskIds)
BY ProtocolAssumption, FS_Interval DEF TaskIds

-----------------------------------------------------------------------------
(* Arithmetic of payouts and fees                                          *)

LEMMA PayoutType ==
  ASSUME TypeOK, NEW t \in TaskIds, NEW score \in Nat
  PROVE  Payout(t, score) \in Nat
<1>1. tasks[t].reward \in Nat
  BY DEF TypeOK, Task
<1>2. tasks[t].reward * score \in Nat
  BY <1>1
<1>3. MAX_SCORE \in Nat \ {0}
  BY ProtocolAssumption
<1> QED BY <1>2, <1>3, DivMod DEF Payout

(* Of an amount, a share w of total is at most the amount.                 *)
LEMMA ShareBound ==
  ASSUME NEW amount \in Nat, NEW total \in Nat \ {0}, NEW w \in 0 .. total
  PROVE  (amount * w) \div total \in 0 .. amount
<1>1. amount * w \in Nat
  OBVIOUS
<1>2. PICK q \in Nat, r \in 0 .. (total - 1) :
        q = (amount * w) \div total /\ amount * w = total * q + r
  BY <1>1, DivMod
<1>3. amount * w <= amount * total
  OBVIOUS
<1>4. ASSUME q >= amount + 1 PROVE FALSE
  <2>1. total * q >= total * (amount + 1)
    BY <1>4
  <2>2. total * (amount + 1) = amount * total + total
    OBVIOUS
  <2> QED BY <1>2, <1>3, <2>1, <2>2
<1> QED BY <1>2, <1>4

LEMMA FeeBound ==
  ASSUME NEW amount \in Nat
  PROVE  ProtocolFee(amount) \in 0 .. amount
BY ProtocolAssumption, ShareBound DEF ProtocolFee

-----------------------------------------------------------------------------
(* Moving USDC                                                             *)

MoneyType ==
  /\ usdc \in [Holders \cup {Protocol} -> Nat]
  /\ claimable \in [Holders -> Nat]
  /\ claimableTotal \in Nat

(* A pull moves exactly `amount` from `from` into the contract.            *)
LEMMA PullMoves ==
  ASSUME MoneyType, NEW from \in Holders, NEW amount \in Nat, Pull(from, amount)
  PROVE  /\ usdc' \in [Holders \cup {Protocol} -> Nat]
         /\ usdc'[Protocol] = usdc[Protocol] + amount
<1>1. from # Protocol
  BY ProtocolAssumption
<1>2. usdc[from] >= amount /\ usdc[from] \in Nat /\ usdc[Protocol] \in Nat
  BY DEF MoneyType, Pull, CanPay
<1> QED BY <1>1, <1>2 DEF MoneyType, Pull

(* _send: what is not pushed out is added to a claim and to the total of   *)
(* claims, so the contract's balance beyond its claims falls by `amount`.  *)
LEMMA SendMoves ==
  ASSUME MoneyType, ClaimsAddUp, NEW to \in Holders, NEW amount \in Nat, Send(to, amount)
  PROVE  /\ MoneyType' /\ ClaimsAddUp'
         /\ usdc'[Protocol] - claimableTotal' = (usdc[Protocol] - claimableTotal) - amount
<1>1. to # Protocol
  BY ProtocolAssumption
<1>2. usdc[Protocol] \in Nat /\ usdc[to] \in Nat /\ claimable[to] \in Nat
  BY DEF MoneyType
<1>3. CASE to \notin blocked /\ usdc[Protocol] >= amount
  <2>1. /\ usdc' = [usdc EXCEPT ![Protocol] = @ - amount, ![to] = @ + amount]
        /\ claimable' = claimable /\ claimableTotal' = claimableTotal
    BY <1>3 DEF Send
  <2>2. usdc' \in [Holders \cup {Protocol} -> Nat]
    BY <1>1, <1>2, <1>3, <2>1 DEF MoneyType
  <2>3. usdc'[Protocol] = usdc[Protocol] - amount
    BY <1>1, <2>1 DEF MoneyType
  <2> QED BY <1>2, <2>1, <2>2, <2>3 DEF MoneyType, ClaimsAddUp
<1>4. CASE ~ (to \notin blocked /\ usdc[Protocol] >= amount)
  <2>1. /\ claimable' = [claimable EXCEPT ![to] = @ + amount]
        /\ claimableTotal' = claimableTotal + amount
        /\ usdc' = usdc
    BY <1>4 DEF Send
  <2>2. MoneyType'
    BY <1>2, <2>1 DEF MoneyType
  <2>3. SumFunctionOnSet(claimable', Holders)
          = SumFunctionOnSet(claimable, Holders) + (claimable'[to] - claimable[to])
    <3>1. \A a \in Holders : claimable[a] \in Int /\ claimable'[a] \in Int
      BY <2>2 DEF MoneyType
    <3>2. \A a \in Holders \ {to} : claimable'[a] = claimable[a]
      BY <2>1 DEF MoneyType
    <3> QED BY <3>1, <3>2, HoldersFinite, SumChange
  <2>4. claimable'[to] = claimable[to] + amount
    BY <2>1 DEF MoneyType
  <2>5. ClaimsAddUp'
    BY <1>2, <2>1, <2>3, <2>4 DEF ClaimsAddUp, MoneyType
  <2> QED BY <1>2, <2>1, <2>2, <2>5 DEF MoneyType
<1> QED BY <1>3, <1>4

(* claim(): a claimant is never owed more than the total of claims.        *)
LEMMA ClaimMoves ==
  ASSUME MoneyType, ClaimsAddUp, NEW a \in Holders, Claim(a)
  PROVE  /\ MoneyType' /\ ClaimsAddUp'
         /\ usdc'[Protocol] - claimableTotal' = usdc[Protocol] - claimableTotal
<1>1. a # Protocol
  BY ProtocolAssumption
<1>2. /\ usdc[Protocol] \in Nat /\ usdc[a] \in Nat /\ claimable[a] \in Nat
      /\ usdc[Protocol] >= claimable[a]
  BY DEF MoneyType, Claim
<1>3. \A b \in Holders : claimable[b] \in Nat /\ claimable[b] \in Int
  BY DEF MoneyType
<1>4. claimable[a] <= claimableTotal
  BY <1>3, HoldersFinite, SumMember DEF ClaimsAddUp
<1>5. /\ usdc' = [usdc EXCEPT ![Protocol] = @ - claimable[a], ![a] = @ + claimable[a]]
      /\ claimable' = [claimable EXCEPT ![a] = 0]
      /\ claimableTotal' = claimableTotal - claimable[a]
  BY DEF Claim
<1>6. MoneyType'
  BY <1>1, <1>2, <1>4, <1>5 DEF MoneyType
<1>7. usdc'[Protocol] = usdc[Protocol] - claimable[a]
  BY <1>1, <1>5 DEF MoneyType
<1>8. SumFunctionOnSet(claimable', Holders)
        = SumFunctionOnSet(claimable, Holders) + (claimable'[a] - claimable[a])
  <2>1. \A b \in Holders : claimable[b] \in Int /\ claimable'[b] \in Int
    BY <1>6 DEF MoneyType
  <2>2. \A b \in Holders \ {a} : claimable'[b] = claimable[b]
    BY <1>5 DEF MoneyType
  <2> QED BY <2>1, <2>2, HoldersFinite, SumChange
<1>9. claimable'[a] = 0
  BY <1>5 DEF MoneyType
<1>10. ClaimsAddUp'
  BY <1>2, <1>5, <1>8, <1>9 DEF ClaimsAddUp, MoneyType
<1> QED BY <1>2, <1>5, <1>6, <1>7, <1>10 DEF MoneyType

-----------------------------------------------------------------------------
(* Licences                                                                *)

LEMMA CutsType ==
  ASSUME NEW p \in Policy, p.capTotal # 0
  PROVE  /\ IsFiniteSet(DOMAIN p.capTable)
         /\ Pool(p) \in Nat
         /\ \A i \in DOMAIN p.capTable : /\ p.capTable[i] \in Accounts
                                        /\ p.capTable[i] \in Holders
                                        /\ Cuts(p)[i] \in Nat /\ Cuts(p)[i] \in Int
         /\ Handed(p) \in Nat
<1>1. /\ p.capTable \in Seq(Accounts) /\ p.licenceFee \in Nat
      /\ p.capTotal \in Nat \ {0} /\ p.capWeight \in [Accounts -> Nat]
  BY DEF Policy
<1>2. DOMAIN p.capTable = 1 .. Len(p.capTable) /\ Len(p.capTable) \in Nat
  BY <1>1
<1>3. IsFiniteSet(DOMAIN p.capTable)
  BY <1>2, FS_Interval
<1>4. Pool(p) \in Nat
  <2>1. ProtocolFee(p.licenceFee) \in 0 .. p.licenceFee
    BY <1>1, FeeBound
  <2> QED BY ONLY <1>1, <2>1 DEF Pool
<1>5. ASSUME NEW i \in DOMAIN p.capTable
      PROVE  p.capTable[i] \in Accounts /\ Cuts(p)[i] \in Nat
  <2>1. p.capTable[i] \in Accounts
    BY <1>1, <1>2
  <2>2. Pool(p) * p.capWeight[p.capTable[i]] \in Nat
    BY <1>1, <1>4, <2>1
  <2>3. (Pool(p) * p.capWeight[p.capTable[i]]) \div p.capTotal \in Nat
    BY <1>1, <2>2, DivMod
  <2> QED BY <2>1, <2>3 DEF Cuts
<1>6. Handed(p) \in Nat
  BY <1>3, <1>5, SumNat DEF Handed
<1> QED BY <1>3, <1>4, <1>5, <1>6, HoldersFinite

(* A licence sends out exactly its price: the cuts, the fee and the dust.  *)
THEOREM LicenceSendsItsPrice ==
  ASSUME NEW p \in Policy, p.capTotal # 0, Handed(p) <= Pool(p)
  PROVE  /\ \A a \in Holders : Due(p, a) \in Nat
         /\ SumFunctionOnSet([a \in Holders |-> Due(p, a)], Holders) = p.licenceFee
<1> DEFINE D == DOMAIN p.capTable
           cuts == ClassSums(Cuts(p), p.capTable, D, Holders)
           due == [a \in Holders |-> Due(p, a)]
           rest == ProtocolFee(p.licenceFee) + (Pool(p) - Handed(p))
<1>1. p.licenceFee \in Nat /\ ProtocolFee(p.licenceFee) \in 0 .. p.licenceFee
  BY FeeBound DEF Policy
<1>2. rest \in Nat /\ Handed(p) + rest = p.licenceFee
  BY <1>1, CutsType DEF Pool
<1>3. ASSUME NEW a \in Holders
      PROVE  cuts[a] \in Nat /\ due[a] = cuts[a] + (IF a = Treasury THEN rest ELSE 0)
  <2>1. cuts[a] = SumFunctionOnSet([i \in D |-> IF p.capTable[i] = a THEN Cuts(p)[i] ELSE 0], D)
    BY DEF ClassSums
  <2>2. \A i \in D : [j \in D |-> IF p.capTable[j] = a THEN Cuts(p)[j] ELSE 0][i] \in Nat
    BY CutsType
  <2>3. cuts[a] \in Nat
    <3> HIDE DEF cuts
    <3> QED BY <2>1, <2>2, CutsType, SumNat
  <2>4. due[a] = cuts[a] + (IF a = Treasury THEN rest ELSE 0)
    BY <2>1 DEF Due
  <2> QED BY <2>3, <2>4
<1>4. SumFunctionOnSet(cuts, Holders) = Handed(p)
  BY CutsType, HoldersFinite, SumByClass DEF Handed
<1>5. Treasury \in Holders
  BY DEF Holders
<1> HIDE DEF cuts, rest
<1>6. \A a \in Holders : due[a] \in Nat /\ due[a] \in Int /\ cuts[a] \in Int
  BY <1>2, <1>3
<1>7. \A a \in Holders \ {Treasury} : due[a] = cuts[a]
  BY <1>3
<1>8. due[Treasury] - cuts[Treasury] = rest
  BY <1>2, <1>3, <1>5
<1>9. \A a \in Holders : Due(p, a) = due[a]
  OBVIOUS
<1> HIDE DEF due
<1>10. SumFunctionOnSet(due, Holders)
         = SumFunctionOnSet(cuts, Holders) + (due[Treasury] - cuts[Treasury])
  BY <1>5, <1>6, <1>7, HoldersFinite, SumChange
<1>11. SumFunctionOnSet(due, Holders) = p.licenceFee
  BY <1>2, <1>4, <1>8, <1>10, CutsType
<1> USE DEF due
<1> QED BY <1>6, <1>9, <1>11

LEMMA LicenceMoves ==
  ASSUME MoneyType, ClaimsAddUp, policies \in Seq(Policy),
         NEW id \in DOMAIN policies, NEW buyer \in Accounts, NEW licensee \in Accounts,
         LicensePolicy(id, buyer, licensee)
  PROVE  /\ MoneyType' /\ ClaimsAddUp'
         /\ usdc'[Protocol] - claimableTotal' = usdc[Protocol] - claimableTotal
<1>1. PICK p \in Policy : p = policies[id]
  BY ElementOfSeq
<1>2. PICK fee \in Nat : fee = p.licenceFee
  BY DEF Policy
<1> DEFINE due == [a \in Holders |-> Due(p, a)]
           paid == [a \in Holders |-> IF a \in blocked THEN 0 ELSE due[a]]
           deferred == [a \in Holders |-> IF a \in blocked THEN due[a] ELSE 0]
<1>3. /\ p.capTotal # 0 /\ Handed(p) <= Pool(p)
      /\ usdc[buyer] >= fee
      /\ usdc' = [a \in DOMAIN usdc |->
                    IF a = Protocol
                    THEN usdc[a] + fee - SumFunctionOnSet(paid, Holders)
                    ELSE usdc[a] + paid[a] - (IF a = buyer THEN fee ELSE 0)]
      /\ claimable' = [a \in Holders |-> claimable[a] + deferred[a]]
      /\ claimableTotal' = claimableTotal + SumFunctionOnSet(deferred, Holders)
  BY <1>1, <1>2 DEF LicensePolicy, CanPay
<1>4. (\A a \in Holders : due[a] \in Nat) /\ SumFunctionOnSet(due, Holders) = fee
  BY <1>2, <1>3, LicenceSendsItsPrice
<1> HIDE DEF due
<1>5. \A a \in Holders : /\ paid[a] \in Nat /\ deferred[a] \in Nat
                         /\ paid[a] \in Int /\ deferred[a] \in Int
                         /\ due[a] = paid[a] + deferred[a]
  BY <1>4
<1> HIDE DEF paid, deferred
<1>6. PICK pushed \in Nat, kept \in Nat :
        /\ pushed = SumFunctionOnSet(paid, Holders)
        /\ kept = SumFunctionOnSet(deferred, Holders)
  BY <1>5, HoldersFinite, SumNat
<1>7. pushed + kept = fee
  BY <1>4, <1>5, <1>6, HoldersFinite, SumAdd
<1>8. /\ Protocol \notin Holders /\ buyer \in Holders
      /\ DOMAIN usdc = Holders \cup {Protocol}
      /\ \A a \in Holders \cup {Protocol} : usdc[a] \in Nat
      /\ \A a \in Holders : claimable[a] \in Nat
      /\ claimableTotal \in Nat
  BY ProtocolAssumption, HoldersFinite DEF MoneyType
<1>9. /\ usdc'[Protocol] = usdc[Protocol] + fee - pushed
      /\ claimableTotal' = claimableTotal + kept
  BY <1>3, <1>6, <1>8
<1>10. usdc[Protocol] \in Nat /\ usdc'[Protocol] = usdc[Protocol] + kept
  <2>1. usdc[Protocol] \in Nat
    BY <1>8
  <2> QED BY ONLY <2>1, <1>9, <1>7, fee \in Nat, pushed \in Nat, kept \in Nat
<1>11. MoneyType'
  <2>1. ASSUME NEW a \in Holders \cup {Protocol} PROVE usdc'[a] \in Nat
    <3>1. CASE a = Protocol
      BY ONLY <1>10, <3>1, kept \in Nat
    <3>2. CASE a # Protocol
      BY <1>3, <1>5, <1>8, <3>2
    <3> QED BY <3>1, <3>2
  <2>2. usdc' \in [Holders \cup {Protocol} -> Nat]
    BY <1>3, <1>8, <2>1
  <2>3. claimable' \in [Holders -> Nat]
    BY <1>3, <1>5, <1>8
  <2>4. claimableTotal' \in Nat
    BY <1>3, <1>6, <1>8
  <2> QED BY <2>2, <2>3, <2>4 DEF MoneyType
<1>12. ClaimsAddUp'
  <2>1. \A a \in Holders : /\ claimable[a] \in Int /\ deferred[a] \in Int
                           /\ claimable'[a] = claimable[a] + deferred[a]
    BY <1>3, <1>5, <1>8
  <2>2. SumFunctionOnSet(claimable', Holders)
          = SumFunctionOnSet(claimable, Holders) + SumFunctionOnSet(deferred, Holders)
    BY <2>1, HoldersFinite, SumAdd
  <2> QED BY <1>3, <2>2 DEF ClaimsAddUp
<1>13. claimableTotal \in Nat
  BY <1>8
<1>14. usdc'[Protocol] - claimableTotal' = usdc[Protocol] - claimableTotal
  BY ONLY <1>9, <1>10, <1>13, kept \in Nat
<1> QED BY <1>11, <1>12, <1>14
-----------------------------------------------------------------------------
(* The money invariant                                                     *)

(* A task id that was not handed out yet reads as untouched storage, and a *)
(* task that was has a funder: the refund of closeTask has an addressee,   *)
(* and a new task adds exactly its own dollars to the sum of escrows.      *)
Unposted ==
  \A t \in TaskIds : IF Exists(t) THEN tasks[t].funder \in Accounts
                                  ELSE tasks[t] = EmptyTask

MoneyInv == TypeOK /\ Unposted /\ ClaimsAddUp /\ Solvent

(* One task's escrow moves the sum of escrows by as much.                  *)
LEMMA EscrowMoves ==
  ASSUME tasks \in [TaskIds -> Task], tasks' \in [TaskIds -> Task], NEW t \in TaskIds,
         \A u \in TaskIds \ {t} : tasks'[u].escrow = tasks[u].escrow
  PROVE  /\ TotalEscrow \in Nat /\ TotalEscrow' \in Nat
         /\ TotalEscrow' = TotalEscrow + (tasks'[t].escrow - tasks[t].escrow)
<1>0. PICK f, g : /\ f = [u \in TaskIds |-> tasks[u].escrow]
                  /\ g = [u \in TaskIds |-> tasks'[u].escrow]
  OBVIOUS
<1>1. \A u \in TaskIds : f[u] \in Nat /\ g[u] \in Nat /\ f[u] \in Int /\ g[u] \in Int
  BY <1>0 DEF Task
<1>2. \A u \in TaskIds \ {t} : g[u] = f[u]
  BY <1>0
<1>3. f[t] = tasks[t].escrow /\ g[t] = tasks'[t].escrow
  BY <1>0
<1>4. TotalEscrow = SumFunctionOnSet(f, TaskIds) /\ TotalEscrow' = SumFunctionOnSet(g, TaskIds)
  BY <1>0 DEF TotalEscrow
<1>5. SumFunctionOnSet(g, TaskIds) = SumFunctionOnSet(f, TaskIds) + (g[t] - f[t])
  <2>1. \A u \in TaskIds : f[u] \in Int /\ g[u] \in Int
    BY <1>1
  <2>2. PICK S : S = TaskIds /\ IsFiniteSet(S) /\ t \in S
    BY TaskIdsFinite
  <2>3. /\ \A u \in S : f[u] \in Int /\ g[u] \in Int
        /\ \A u \in S \ {t} : g[u] = f[u]
    BY <1>2, <2>1, <2>2
  <2>4. SumFunctionOnSet(g, S) = SumFunctionOnSet(f, S) + (g[t] - f[t])
    BY ONLY <2>2, <2>3, SumChange
  <2> QED BY <2>2, <2>4
<1>6. SumFunctionOnSet(f, TaskIds) \in Nat /\ SumFunctionOnSet(g, TaskIds) \in Nat
  BY <1>1, TaskIdsFinite, SumNat
<1> QED BY <1>3, <1>4, <1>5, <1>6

LEMMA EscrowIsNat == ASSUME tasks \in [TaskIds -> Task] PROVE TotalEscrow \in Nat
<1>1. PICK f : f = [u \in TaskIds |-> tasks[u].escrow]
  OBVIOUS
<1>2. \A u \in TaskIds : f[u] \in Nat
  BY <1>1 DEF Task
<1> QED BY <1>1, <1>2, TaskIdsFinite, SumNat DEF TotalEscrow

LEMMA InitMoney == Init => MoneyInv
<1> SUFFICES ASSUME Init PROVE MoneyInv
  OBVIOUS
<1>1. taskCount = 0 /\ tasks = [t \in TaskIds |-> EmptyTask]
  BY DEF Init
<1>2. EmptyTask \in Task
  BY DEF EmptyTask, Task
<1>3. TypeOK
  <2>1. tasks \in [TaskIds -> Task] /\ taskCount \in 0 .. MaxTasks
    BY <1>1, <1>2, ProtocolAssumption
  <2>2. usdc \in [Holders \cup {Protocol} -> Nat]
    BY ProtocolAssumption DEF Init
  <2>3. /\ trajectories \in Seq(Trajectory) /\ policies \in Seq(Policy)
        /\ taskContributors \in [TaskIds -> Seq(Accounts)]
        /\ taskTrajectories \in [TaskIds -> Seq(Nat)]
        /\ byContributor \in [Accounts -> Seq(Nat)]
    BY EmptySeq DEF Init
  <2>4. /\ now \in Nat /\ blocked \subseteq Holders /\ claimableTotal \in Nat
        /\ shardFilled \in [TaskIds -> [ShardIds -> Nat]]
        /\ runsOnTask \in [TaskIds -> [Accounts -> Nat]]
        /\ weightOnTask \in [TaskIds -> [Accounts -> Nat]]
        /\ trajectoryOfHash \in [Hashes -> Nat]
        /\ policyOfTask \in [TaskIds -> Nat] /\ claimable \in [Holders -> Nat]
        /\ stats \in [Accounts -> [runs : Nat, earned : Nat, score : Nat]]
    BY DEF Init
  <2> QED BY <2>1, <2>2, <2>3, <2>4 DEF TypeOK
<1>4. Unposted
  BY <1>1 DEF Unposted, Exists, TaskIds
<1>5. ClaimsAddUp
  <2>1. \A a \in Holders : claimable[a] = 0 /\ claimable[a] \in Int
    BY DEF Init
  <2>2. SumFunctionOnSet(claimable, Holders) = 0
    BY <2>1, HoldersFinite, SumZero
  <2> QED BY <2>2 DEF Init, ClaimsAddUp
<1>6. TotalEscrow = 0
  <2> DEFINE f == [t \in TaskIds |-> tasks[t].escrow]
  <2>1. \A t \in TaskIds : f[t] = 0 /\ f[t] \in Int
    BY <1>1 DEF EmptyTask
  <2> HIDE DEF f
  <2>2. SumFunctionOnSet(f, TaskIds) = 0
    BY <2>1, TaskIdsFinite, SumZero
  <2> USE DEF f
  <2> QED BY <2>2 DEF TotalEscrow
<1>7. usdc[Protocol] = 0 /\ claimableTotal = 0
  BY ProtocolAssumption DEF Init, Holders
<1> QED BY <1>3, <1>4, <1>5, <1>6, <1>7 DEF MoneyInv, Solvent

LEMMA CreateTaskMoney ==
  ASSUME MoneyInv, NEW f \in Accounts, NEW n \in SlotCounts, NEW r \in Rewards,
         NEW d \in Deadlines, NEW x \in Amounts, CreateTask(f, n, r, d, x)
  PROVE  MoneyInv'
<1>1. /\ n \in Nat /\ r \in Nat /\ d \in Nat /\ x \in Nat /\ f \in Holders /\ MaxTasks \in Nat
      /\ TypeOK /\ Unposted /\ ClaimsAddUp /\ Solvent
  BY ProtocolAssumption, HoldersFinite DEF MoneyInv
<1> DEFINE new == [funder |-> f, reward |-> r, escrow |-> x, slotsTotal |-> n,
                   expiresAt |-> d, policyMinted |-> FALSE, closed |-> FALSE]
<1>2. /\ taskCount < MaxTasks /\ taskCount' = taskCount + 1
      /\ tasks' = [tasks EXCEPT ![taskCount] = new]
      /\ Pull(f, x) /\ claimable' = claimable /\ claimableTotal' = claimableTotal
  BY DEF CreateTask
<1>3. taskCount \in Nat /\ taskCount \in TaskIds /\ taskCount' \in 0 .. MaxTasks
  BY <1>1, <1>2 DEF TypeOK, TaskIds
<1>4. new \in Task /\ new.escrow = x /\ new.funder = f
  BY <1>1 DEF Task
<1> HIDE DEF new
<1>5. tasks' \in [TaskIds -> Task]
  BY <1>1, <1>2, <1>4 DEF TypeOK
<1>6. usdc' \in [Holders \cup {Protocol} -> Nat] /\ usdc'[Protocol] = usdc[Protocol] + x
  BY <1>1, <1>2, PullMoves DEF TypeOK, MoneyType
<1>7. TypeOK'
  BY <1>1, <1>2, <1>3, <1>5, <1>6 DEF TypeOK, CreateTask, runVars, policyVars
<1>8. tasks[taskCount].escrow = 0 /\ tasks'[taskCount].escrow = x
  BY <1>1, <1>2, <1>3, <1>4 DEF Unposted, Exists, EmptyTask, TypeOK
<1>9. Unposted'
  <2> SUFFICES ASSUME NEW u \in TaskIds
               PROVE  IF u < taskCount + 1 THEN tasks'[u].funder \in Accounts
                                           ELSE tasks'[u] = EmptyTask
    BY <1>2 DEF Unposted, Exists
  <2>1. u \in Nat
    BY DEF TaskIds
  <2>2. CASE u = taskCount
    <3>1. tasks'[u] = new
      BY <1>1, <1>2, <1>3, <2>2 DEF TypeOK
    <3>2. u < taskCount + 1
      BY ONLY <1>3, <2>2
    <3> QED BY <1>4, <3>1, <3>2
  <2>3. CASE u # taskCount
    <3>1. u < taskCount + 1 <=> u < taskCount
      BY ONLY <1>3, <2>1, <2>3
    <3>2. tasks'[u] = tasks[u]
      BY <1>1, <1>2, <1>3, <2>3 DEF TypeOK
    <3> QED BY <1>1, <3>1, <3>2 DEF Unposted, Exists
  <2> QED BY <2>2, <2>3
<1>10. TotalEscrow \in Nat /\ TotalEscrow' = TotalEscrow + x
  <2>1. \A u \in TaskIds \ {taskCount} : tasks'[u].escrow = tasks[u].escrow
    BY <1>1, <1>2 DEF TypeOK
  <2>2. tasks \in [TaskIds -> Task]
    BY <1>1 DEF TypeOK
  <2>3. /\ TotalEscrow \in Nat
        /\ TotalEscrow' = TotalEscrow + (tasks'[taskCount].escrow - tasks[taskCount].escrow)
    BY ONLY <1>3, <1>5, <2>1, <2>2, EscrowMoves
  <2> QED BY <1>1, <1>8, <2>3
<1>11. Solvent' /\ ClaimsAddUp'
  <2>1. usdc[Protocol] = TotalEscrow + claimableTotal /\ claimableTotal \in Nat
    BY <1>1 DEF Solvent, TypeOK
  <2>2. usdc'[Protocol] = TotalEscrow' + claimableTotal'
    BY ONLY <1>1, <1>2, <1>6, <1>10, <2>1
  <2>3. ClaimsAddUp'
    BY <1>1, <1>2 DEF ClaimsAddUp
  <2> QED BY <2>2, <2>3 DEF Solvent
<1> QED BY <1>7, <1>9, <1>11 DEF MoneyInv

LEMMA FundTaskMoney ==
  ASSUME MoneyInv, NEW from \in Accounts, NEW t \in TaskIds, NEW x \in Amounts,
         FundTask(from, t, x)
  PROVE  MoneyInv'
<1>1. /\ x \in Nat /\ from \in Holders
      /\ TypeOK /\ Unposted /\ ClaimsAddUp /\ Solvent
  BY ProtocolAssumption, HoldersFinite DEF MoneyInv
<1>2. /\ tasks' = [tasks EXCEPT ![t].escrow = @ + x]
      /\ taskCount' = taskCount /\ Exists(t)
      /\ Pull(from, x) /\ claimable' = claimable /\ claimableTotal' = claimableTotal
  BY DEF FundTask
<1>3. tasks \in [TaskIds -> Task] /\ tasks[t].escrow \in Nat /\ tasks[t] \in Task
  BY <1>1 DEF TypeOK, Task
<1>4. tasks' \in [TaskIds -> Task]
  BY <1>1, <1>2, <1>3 DEF Task
<1>5. usdc' \in [Holders \cup {Protocol} -> Nat] /\ usdc'[Protocol] = usdc[Protocol] + x
  BY <1>1, <1>2, PullMoves DEF TypeOK, MoneyType
<1>6. TypeOK'
  BY <1>1, <1>2, <1>4, <1>5 DEF TypeOK, FundTask, runVars, policyVars
<1>7. Unposted'
  <2> SUFFICES ASSUME NEW u \in TaskIds
               PROVE  IF Exists(u) THEN tasks'[u].funder \in Accounts
                                   ELSE tasks'[u] = EmptyTask
    BY <1>2 DEF Unposted, Exists
  <2>1. tasks'[u].funder = tasks[u].funder /\ (u # t => tasks'[u] = tasks[u])
    BY <1>2, <1>3 DEF Task
  <2> QED BY <1>1, <1>2, <2>1 DEF Unposted, Exists
<1>8. TotalEscrow \in Nat /\ TotalEscrow' = TotalEscrow + x
  <2>1. \A u \in TaskIds \ {t} : tasks'[u].escrow = tasks[u].escrow
    BY <1>2, <1>3
  <2>2. tasks'[t].escrow = tasks[t].escrow + x
    BY <1>2, <1>3 DEF Task
  <2>3. /\ TotalEscrow \in Nat
        /\ TotalEscrow' = TotalEscrow + (tasks'[t].escrow - tasks[t].escrow)
    BY ONLY <1>3, <1>4, <2>1, EscrowMoves, t \in TaskIds
  <2> QED BY <1>1, <1>3, <2>2, <2>3
<1>9. Solvent' /\ ClaimsAddUp'
  <2>1. usdc[Protocol] = TotalEscrow + claimableTotal /\ claimableTotal \in Nat
    BY <1>1 DEF Solvent, TypeOK
  <2>2. usdc'[Protocol] = TotalEscrow' + claimableTotal'
    BY ONLY <1>1, <1>2, <1>5, <1>8, <2>1
  <2>3. ClaimsAddUp'
    BY <1>1, <1>2 DEF ClaimsAddUp
  <2> QED BY <2>2, <2>3 DEF Solvent
<1> QED BY <1>6, <1>7, <1>9 DEF MoneyInv

(* What a payment to `to` out of the escrow of `t` does to the books: the  *)
(* contract keeps holding exactly the escrows and the claims.              *)
LEMMA PaidFromEscrow ==
  ASSUME MoneyInv, NEW t \in TaskIds, NEW to \in Holders, NEW amount \in Nat,
         Send(to, amount), tasks' \in [TaskIds -> Task],
         tasks'[t].escrow = tasks[t].escrow - amount,
         \A u \in TaskIds \ {t} : tasks'[u].escrow = tasks[u].escrow
  PROVE  MoneyType' /\ ClaimsAddUp' /\ Solvent'
<1>1. TypeOK /\ ClaimsAddUp /\ Solvent /\ MoneyType /\ tasks \in [TaskIds -> Task]
  BY DEF MoneyInv, TypeOK, MoneyType
<1>2. /\ MoneyType' /\ ClaimsAddUp'
      /\ usdc'[Protocol] - claimableTotal' = (usdc[Protocol] - claimableTotal) - amount
  BY ONLY <1>1, SendMoves, to \in Holders, amount \in Nat, Send(to, amount)
<1>3. /\ TotalEscrow \in Nat /\ TotalEscrow' \in Nat
      /\ TotalEscrow' = TotalEscrow + (tasks'[t].escrow - tasks[t].escrow)
  BY <1>1, EscrowMoves
<1>4. tasks[t].escrow \in Nat
  BY <1>1 DEF Task
<1>5. usdc[Protocol] = TotalEscrow + claimableTotal /\ claimableTotal \in Nat
  BY <1>1 DEF Solvent, TypeOK
<1>6. usdc'[Protocol] \in Nat /\ claimableTotal' \in Nat
  BY <1>2 DEF MoneyType
<1>7. usdc'[Protocol] = TotalEscrow' + claimableTotal'
  BY <1>2, <1>3, <1>4, <1>5, <1>6
<1> QED BY <1>2, <1>7 DEF Solvent

LEMMA CloseTaskMoney ==
  ASSUME MoneyInv, NEW t \in TaskIds, CloseTask(t)
  PROVE  MoneyInv'
<1>1. TypeOK /\ Unposted /\ ClaimsAddUp /\ Solvent
  BY DEF MoneyInv
<1>2. /\ tasks' = [tasks EXCEPT ![t].escrow = 0, ![t].closed = TRUE]
      /\ taskCount' = taskCount /\ Exists(t)
      /\ Send(tasks[t].funder, tasks[t].escrow)
  BY DEF CloseTask
<1>3. tasks \in [TaskIds -> Task] /\ tasks[t].escrow \in Nat /\ tasks[t] \in Task
  BY <1>1 DEF TypeOK, Task
<1>4. tasks[t].funder \in Holders
  BY <1>1, <1>2, HoldersFinite DEF Unposted
<1>5. tasks' \in [TaskIds -> Task]
  BY <1>2, <1>3 DEF Task
<1>6. tasks'[t].escrow = 0 /\ tasks'[t].escrow = tasks[t].escrow - tasks[t].escrow
  BY <1>2, <1>3 DEF Task
<1>7. \A u \in TaskIds \ {t} : tasks'[u] = tasks[u] /\ tasks'[u].escrow = tasks[u].escrow
  BY <1>2, <1>3
<1>8. MoneyType' /\ ClaimsAddUp' /\ Solvent'
  BY <1>2, <1>3, <1>4, <1>5, <1>6, <1>7, PaidFromEscrow
<1>9. TypeOK'
  BY <1>1, <1>2, <1>5, <1>8 DEF TypeOK, MoneyType, CloseTask, runVars, policyVars
<1>10. Unposted'
  <2> SUFFICES ASSUME NEW u \in TaskIds
               PROVE  IF Exists(u) THEN tasks'[u].funder \in Accounts
                                   ELSE tasks'[u] = EmptyTask
    BY <1>2 DEF Unposted, Exists
  <2>1. tasks'[u].funder = tasks[u].funder /\ (u # t => tasks'[u] = tasks[u])
    BY <1>2, <1>3 DEF Task
  <2> QED BY <1>1, <1>2, <2>1 DEF Unposted, Exists
<1> QED BY <1>8, <1>9, <1>10 DEF MoneyInv

LEMMA SubmitTrajectoryMoney ==
  ASSUME MoneyInv, NEW t \in TaskIds, NEW who \in Accounts, NEW h \in Hashes,
         NEW score \in Scores, SubmitTrajectory(t, who, h, score)
  PROVE  MoneyInv'
<1>1. TypeOK /\ Unposted /\ ClaimsAddUp /\ Solvent /\ score \in Nat /\ who \in Holders
  BY ProtocolAssumption, HoldersFinite DEF MoneyInv
<1>2. PICK pay \in Nat : pay = Payout(t, score)
  BY <1>1, PayoutType
<1>3. /\ tasks' = [tasks EXCEPT ![t].escrow = @ - pay]
      /\ taskCount' = taskCount /\ Exists(t) /\ pay <= tasks[t].escrow
      /\ Send(who, pay)
  BY <1>2 DEF SubmitTrajectory
<1>4. tasks \in [TaskIds -> Task] /\ tasks[t].escrow \in Nat /\ tasks[t] \in Task
  BY <1>1 DEF TypeOK, Task
<1>5. tasks' \in [TaskIds -> Task]
  BY <1>3, <1>4 DEF Task
<1>6. tasks'[t].escrow = tasks[t].escrow - pay
  BY <1>3, <1>4 DEF Task
<1>7. \A u \in TaskIds \ {t} : tasks'[u] = tasks[u] /\ tasks'[u].escrow = tasks[u].escrow
  BY <1>3, <1>4
<1>8. MoneyType' /\ ClaimsAddUp' /\ Solvent'
  BY <1>1, <1>3, <1>5, <1>6, <1>7, PaidFromEscrow
<1>9. /\ shardFilled' \in [TaskIds -> [ShardIds -> Nat]]
      /\ runsOnTask' \in [TaskIds -> [Accounts -> Nat]]
      /\ weightOnTask' \in [TaskIds -> [Accounts -> Nat]]
  <2>1. PICK s : shardFilled' = [shardFilled EXCEPT ![t][s] = @ + 1]
    BY DEF SubmitTrajectory
  <2>2. /\ runsOnTask' = [runsOnTask EXCEPT ![t][who] = @ + 1]
        /\ weightOnTask' = [weightOnTask EXCEPT ![t][who] = @ + score]
    BY DEF SubmitTrajectory
  <2>3. /\ shardFilled \in [TaskIds -> [ShardIds -> Nat]]
        /\ runsOnTask \in [TaskIds -> [Accounts -> Nat]]
        /\ weightOnTask \in [TaskIds -> [Accounts -> Nat]]
    BY <1>1 DEF TypeOK
  <2>4. shardFilled' \in [TaskIds -> [ShardIds -> Nat]]
    <3>1. [shardFilled[t] EXCEPT ![s] = @ + 1] \in [ShardIds -> Nat]
      <4>1. PICK row \in [ShardIds -> Nat] : row = shardFilled[t]
        BY <2>3
      <4>2. CASE s \in ShardIds
        BY <4>1, <4>2
      <4>3. CASE s \notin ShardIds
        BY <4>1, <4>3
      <4> QED BY <4>2, <4>3
    <3>2. shardFilled' = [shardFilled EXCEPT ![t] = [shardFilled[t] EXCEPT ![s] = @ + 1]]
      BY <2>1, <2>3
    <3> QED BY <2>3, <3>1, <3>2
  <2>5. runsOnTask' \in [TaskIds -> [Accounts -> Nat]]
    BY <2>2, <2>3
  <2>6. weightOnTask' \in [TaskIds -> [Accounts -> Nat]]
    BY <1>1, <2>2, <2>3
  <2> QED BY <2>4, <2>5, <2>6
<1>10. PICK n \in Nat : n = Len(trajectories)
  BY <1>1, LenProperties DEF TypeOK
<1>11. /\ trajectories' \in Seq(Trajectory)
       /\ trajectoryOfHash' \in [Hashes -> Nat]
       /\ taskContributors' \in [TaskIds -> Seq(Accounts)]
       /\ taskTrajectories' \in [TaskIds -> Seq(Nat)]
       /\ byContributor' \in [Accounts -> Seq(Nat)]
  <2>1. [taskId |-> t, contributor |-> who, trajHash |-> h, score |-> score, paid |-> pay]
           \in Trajectory
    BY <1>1 DEF Trajectory
  <2>2. trajectories' \in Seq(Trajectory)
    BY <1>1, <1>2, <2>1 DEF TypeOK, SubmitTrajectory
  <2>3. /\ trajectoryOfHash' = [trajectoryOfHash EXCEPT ![h] = n + 1]
        /\ taskContributors' \in {[taskContributors EXCEPT ![t] = Append(@, who)],
                                  taskContributors}
        /\ taskTrajectories' = [taskTrajectories EXCEPT ![t] = Append(@, n)]
        /\ byContributor' = [byContributor EXCEPT ![who] = Append(@, n)]
    BY <1>10 DEF SubmitTrajectory
  <2>4. /\ trajectoryOfHash \in [Hashes -> Nat]
        /\ taskContributors \in [TaskIds -> Seq(Accounts)]
        /\ taskTrajectories \in [TaskIds -> Seq(Nat)]
        /\ byContributor \in [Accounts -> Seq(Nat)]
    BY <1>1 DEF TypeOK
  <2>5. taskContributors' \in [TaskIds -> Seq(Accounts)]
    <3>1. Append(taskContributors[t], who) \in Seq(Accounts)
      BY <2>4
    <3>2. [taskContributors EXCEPT ![t] = Append(@, who)] \in [TaskIds -> Seq(Accounts)]
      BY <2>4, <3>1
    <3> QED BY <2>3, <2>4, <3>2
  <2>6. trajectoryOfHash' \in [Hashes -> Nat] /\ taskTrajectories' \in [TaskIds -> Seq(Nat)]
    <3>1. Append(taskTrajectories[t], n) \in Seq(Nat) /\ n + 1 \in Nat
      BY <2>4
    <3> QED BY ONLY <2>3, <2>4, <3>1
  <2>7. byContributor' \in [Accounts -> Seq(Nat)]
    <3>1. Append(byContributor[who], n) \in Seq(Nat)
      BY <2>4
    <3> QED BY ONLY <2>3, <2>4, <3>1
  <2> QED BY <2>2, <2>5, <2>6, <2>7
<1>12. stats' \in [Accounts -> [runs : Nat, earned : Nat, score : Nat]]
  <2>1. stats' = [stats EXCEPT ![who] = WithRun(@, pay, score)]
    BY <1>2 DEF SubmitTrajectory
  <2>2. stats \in [Accounts -> [runs : Nat, earned : Nat, score : Nat]]
    BY <1>1 DEF TypeOK
  <2>3. PICK st \in [runs : Nat, earned : Nat, score : Nat] : st = stats[who]
    BY <2>2
  <2>4. WithRun(st, pay, score) \in [runs : Nat, earned : Nat, score : Nat]
    BY <1>1 DEF WithRun
  <2> QED BY <2>1, <2>2, <2>3, <2>4
<1>13. TypeOK'
  <2>1. /\ now' = now /\ blocked' = blocked
        /\ policies' = policies /\ policyOfTask' = policyOfTask
    BY DEF SubmitTrajectory, policyVars
  <2> QED BY <1>1, <1>3, <1>5, <1>8, <1>9, <1>11, <1>12, <2>1 DEF TypeOK, MoneyType
<1>14. Unposted'
  <2> SUFFICES ASSUME NEW u \in TaskIds
               PROVE  IF Exists(u) THEN tasks'[u].funder \in Accounts
                                   ELSE tasks'[u] = EmptyTask
    BY <1>3 DEF Unposted, Exists
  <2>1. tasks'[u].funder = tasks[u].funder /\ (u # t => tasks'[u] = tasks[u])
    BY <1>3, <1>4 DEF Task
  <2> QED BY <1>1, <1>3, <2>1 DEF Unposted, Exists
<1> QED BY <1>8, <1>13, <1>14 DEF MoneyInv

LEMMA MintPolicyMoney ==
  ASSUME MoneyInv, NEW t \in TaskIds, NEW fee \in Fees, MintPolicy(t, fee)
  PROVE  MoneyInv'
<1>1. TypeOK /\ Unposted /\ ClaimsAddUp /\ Solvent /\ fee \in Nat
  BY ProtocolAssumption DEF MoneyInv
<1>2. /\ tasks' = [tasks EXCEPT ![t].policyMinted = TRUE]
      /\ taskCount' = taskCount /\ Exists(t)
      /\ policyOfTask' = [policyOfTask EXCEPT ![t] = Len(policies) + 1]
      /\ usdc' = usdc /\ claimable' = claimable /\ claimableTotal' = claimableTotal
  BY DEF MintPolicy, moneyVars
<1>3. tasks \in [TaskIds -> Task] /\ tasks[t] \in Task
  BY <1>1 DEF TypeOK
<1>4. tasks' \in [TaskIds -> Task]
  BY <1>2, <1>3 DEF Task
<1>5. \A u \in TaskIds : /\ tasks'[u].escrow = tasks[u].escrow
                         /\ tasks'[u].funder = tasks[u].funder
                         /\ u # t => tasks'[u] = tasks[u]
  BY <1>2, <1>3 DEF Task
<1>6. policies' \in Seq(Policy) /\ policyOfTask' \in [TaskIds -> Nat]
  <2>1. PICK cs \in Seq(Accounts) : cs = taskContributors[t]
    BY <1>1 DEF TypeOK
  <2>2. PICK w \in [Accounts -> Nat] : w = weightOnTask[t]
    BY <1>1 DEF TypeOK
  <2>3. PICK k \in Nat : k = SumFunctionOnSet([i \in DOMAIN cs |-> w[cs[i]]], DOMAIN cs)
    <3>1. PICK table : table = [i \in DOMAIN cs |-> w[cs[i]]]
      OBVIOUS
    <3>2. IsFiniteSet(DOMAIN cs) /\ \A i \in DOMAIN cs : table[i] \in Nat
      BY <3>1, FS_Interval
    <3> QED BY <3>1, <3>2, SumNat
  <2>4. PICK cw \in [Accounts -> Nat] : cw = [a \in Accounts |-> IF a \in Range(cs) THEN w[a] ELSE 0]
    OBVIOUS
  <2>5. PICK minter \in Accounts : minter = tasks[t].funder
    BY <1>1, <1>2 DEF Unposted
  <2> DEFINE new == [taskId |-> t, minter |-> minter, licenceFee |-> fee,
                     licencesSold |-> 0, distributed |-> 0, licensed |-> {},
                     capTable |-> cs, capWeight |-> cw, capTotal |-> k]
  <2>6. new \in Policy
    BY <1>1 DEF Policy
  <2>7. policies' = Append(policies, new)
    BY <2>1, <2>2, <2>3, <2>4, <2>5 DEF MintPolicy
  <2>8. policies \in Seq(Policy) /\ Len(policies) + 1 \in Nat
    BY <1>1 DEF TypeOK
  <2> HIDE DEF new
  <2>9. policies' \in Seq(Policy)
    BY <2>6, <2>7, <2>8
  <2>10. policyOfTask' \in [TaskIds -> Nat]
    BY <1>1, <1>2, <2>8 DEF TypeOK
  <2> QED BY <2>9, <2>10
<1>7. TypeOK'
  BY <1>1, <1>2, <1>4, <1>6 DEF TypeOK, MintPolicy, runVars
<1>8. Unposted'
  <2> SUFFICES ASSUME NEW u \in TaskIds
               PROVE  IF Exists(u) THEN tasks'[u].funder \in Accounts
                                   ELSE tasks'[u] = EmptyTask
    BY <1>2 DEF Unposted, Exists
  <2> QED BY <1>1, <1>2, <1>5 DEF Unposted, Exists
<1>9. TotalEscrow' = TotalEscrow
  BY <1>5 DEF TotalEscrow
<1> QED BY <1>1, <1>2, <1>7, <1>8, <1>9 DEF MoneyInv, ClaimsAddUp, Solvent

LEMMA WithLicenceType ==
  ASSUME NEW p \in Policy, Handed(p) \in Nat, NEW l \in Accounts
  PROVE  WithLicence(p, l) \in Policy
<1>1. p.licencesSold \in Nat /\ p.distributed \in Nat /\ p.licensed \in SUBSET Accounts
  BY DEF Policy
<1>2. PICK n, d, s : n = p.licencesSold + 1 /\ d = p.distributed + Handed(p)
                     /\ s = p.licensed \cup {l}
  OBVIOUS
<1> n \in Nat /\ d \in Nat /\ s \in SUBSET Accounts
  BY <1>1, <1>2
<1>3. [p EXCEPT !.licencesSold = n] \in Policy
  BY DEF Policy
<1>4. ASSUME NEW q \in Policy PROVE [q EXCEPT !.distributed = d] \in Policy
  BY DEF Policy
<1>5. ASSUME NEW q \in Policy PROVE [q EXCEPT !.licensed = s] \in Policy
  BY DEF Policy
<1>6. WithLicence(p, l) = [p EXCEPT !.licencesSold = n, !.distributed = d, !.licensed = s]
  BY <1>2, Zenon DEF WithLicence
<1>7. [p EXCEPT !.licencesSold = n, !.distributed = d, !.licensed = s]
        = [[[p EXCEPT !.licencesSold = n] EXCEPT !.distributed = d] EXCEPT !.licensed = s]
  OBVIOUS
<1> QED BY <1>3, <1>4, <1>5, <1>6, <1>7

LEMMA LicensePolicyMoney ==
  ASSUME MoneyInv, NEW id \in DOMAIN policies, NEW b \in Accounts, NEW l \in Accounts,
         LicensePolicy(id, b, l)
  PROVE  MoneyInv'
<1>1. /\ TypeOK /\ Unposted /\ ClaimsAddUp /\ Solvent /\ MoneyType
      /\ policies \in Seq(Policy)
  BY DEF MoneyInv, TypeOK, MoneyType
<1>2. /\ MoneyType' /\ ClaimsAddUp'
      /\ usdc'[Protocol] - claimableTotal' = usdc[Protocol] - claimableTotal
  BY <1>1, LicenceMoves
<1>3. policies' \in Seq(Policy)
  <2>1. id \in 1 .. Len(policies)
    BY <1>1
  <2>2. PICK p \in Policy : p = policies[id]
    BY <1>1, <2>1, ElementOfSeq
  <2>3. p.capTotal # 0 /\ policies' = [policies EXCEPT ![id] = WithLicence(p, l)]
    BY <2>2 DEF LicensePolicy
  <2>4. Handed(p) \in Nat
    BY <2>3, CutsType
  <2>5. WithLicence(p, l) \in Policy
    BY <2>4, WithLicenceType
  <2> QED BY <1>1, <2>1, <2>3, <2>5, ExceptSeq
<1>4. /\ now' = now /\ blocked' = blocked /\ policyOfTask' = policyOfTask
      /\ UNCHANGED taskVars /\ UNCHANGED runVars
  BY DEF LicensePolicy
<1>5. TypeOK'
  BY <1>1, <1>2, <1>3, <1>4 DEF TypeOK, MoneyType, taskVars, runVars
<1>6. Unposted' /\ TotalEscrow' = TotalEscrow
  BY <1>1, <1>4 DEF Unposted, Exists, TotalEscrow, taskVars
<1>7. TotalEscrow \in Nat
  BY <1>1, EscrowIsNat DEF TypeOK
<1>8. Solvent'
  <2>1. /\ usdc[Protocol] = TotalEscrow + claimableTotal /\ claimableTotal \in Nat
        /\ usdc'[Protocol] \in Nat /\ claimableTotal' \in Nat
    BY <1>1, <1>2 DEF Solvent, MoneyType
  <2>2. usdc'[Protocol] = TotalEscrow + claimableTotal'
    BY ONLY <1>2, <1>7, <2>1
  <2> QED BY <1>6, <2>2 DEF Solvent
<1> QED BY <1>2, <1>5, <1>6, <1>8 DEF MoneyInv

LEMMA ClaimMoney ==
  ASSUME MoneyInv, NEW a \in Holders, Claim(a)
  PROVE  MoneyInv'
<1>1. TypeOK /\ Unposted /\ ClaimsAddUp /\ Solvent /\ MoneyType
  BY DEF MoneyInv, TypeOK, MoneyType
<1>2. /\ MoneyType' /\ ClaimsAddUp'
      /\ usdc'[Protocol] - claimableTotal' = usdc[Protocol] - claimableTotal
  BY <1>1, ClaimMoves
<1>3. /\ now' = now /\ blocked' = blocked
      /\ UNCHANGED taskVars /\ UNCHANGED runVars /\ UNCHANGED policyVars
  BY DEF Claim
<1>4. TypeOK'
  BY <1>1, <1>2, <1>3 DEF TypeOK, MoneyType, taskVars, runVars, policyVars
<1>5. Unposted' /\ TotalEscrow' = TotalEscrow
  BY <1>1, <1>3 DEF Unposted, Exists, TotalEscrow, taskVars
<1>6. TotalEscrow \in Nat
  BY <1>1, EscrowIsNat DEF TypeOK
<1>7. Solvent'
  <2>1. /\ usdc[Protocol] = TotalEscrow + claimableTotal /\ claimableTotal \in Nat
        /\ usdc'[Protocol] \in Nat /\ claimableTotal' \in Nat
    BY <1>1, <1>2 DEF Solvent, MoneyType
  <2>2. usdc'[Protocol] = TotalEscrow + claimableTotal'
    BY ONLY <1>2, <1>6, <2>1
  <2> QED BY <1>5, <2>2 DEF Solvent
<1> QED BY <1>2, <1>4, <1>5, <1>7 DEF MoneyInv

(* Ticks and blocklistings, and steps that change nothing.                 *)
LEMMA SurroundingsMoney ==
  ASSUME MoneyInv, UNCHANGED <<taskVars, runVars, policyVars, moneyVars>>,
         now' \in Nat, blocked' \subseteq Holders
  PROVE  MoneyInv'
<1>1. TypeOK'
  BY DEF MoneyInv, TypeOK, taskVars, runVars, policyVars, moneyVars
<1>2. Unposted' /\ ClaimsAddUp' /\ Solvent'
  BY DEF MoneyInv, Unposted, Exists, ClaimsAddUp, Solvent, TotalEscrow, taskVars, moneyVars
<1> QED BY <1>1, <1>2 DEF MoneyInv

LEMMA NextMoney == MoneyInv /\ [Next]_vars => MoneyInv'
<1> SUFFICES ASSUME MoneyInv, [Next]_vars PROVE MoneyInv'
  OBVIOUS
<1>1. ASSUME NEW f \in Accounts, NEW n \in SlotCounts, NEW r \in Rewards,
             NEW d \in Deadlines, NEW x \in Amounts, CreateTask(f, n, r, d, x)
      PROVE  MoneyInv'
  BY <1>1, CreateTaskMoney
<1>2. ASSUME NEW f \in Accounts, NEW t \in TaskIds, NEW x \in Amounts, FundTask(f, t, x)
      PROVE  MoneyInv'
  BY <1>2, FundTaskMoney
<1>3. ASSUME NEW t \in TaskIds, CloseTask(t) PROVE MoneyInv'
  BY <1>3, CloseTaskMoney
<1>4. ASSUME NEW t \in TaskIds, NEW a \in Accounts, NEW h \in Hashes, NEW s \in Scores,
             SubmitTrajectory(t, a, h, s)
      PROVE  MoneyInv'
  BY <1>4, SubmitTrajectoryMoney
<1>5. ASSUME NEW t \in TaskIds, NEW fee \in Fees, MintPolicy(t, fee) PROVE MoneyInv'
  BY <1>5, MintPolicyMoney
<1>6. ASSUME NEW id \in DOMAIN policies, NEW b \in Accounts, NEW l \in Accounts,
             LicensePolicy(id, b, l)
      PROVE  MoneyInv'
  BY <1>6, LicensePolicyMoney
<1>7. ASSUME NEW a \in Holders, Claim(a) PROVE MoneyInv'
  BY <1>7, ClaimMoney
<1>8. now \in Nat /\ blocked \subseteq Holders
  BY DEF MoneyInv, TypeOK
<1>9. CASE Tick
  BY <1>8, <1>9, SurroundingsMoney DEF Tick
<1>10. ASSUME NEW a \in Blockable, Blocklist(a) PROVE MoneyInv'
  BY <1>8, <1>10, ProtocolAssumption, SurroundingsMoney DEF Blocklist
<1>11. CASE UNCHANGED vars
  BY <1>8, <1>11, SurroundingsMoney DEF vars
<1> QED BY <1>1, <1>2, <1>3, <1>4, <1>5, <1>6, <1>7, <1>9, <1>10, <1>11 DEF Next

(* Every storage field keeps its type whatever is called: in particular    *)
(* no escrow, claim or balance ever goes below zero.                       *)
THEOREM SpecTypeOK == Spec => []TypeOK
<1>1. MoneyInv => TypeOK
  BY DEF MoneyInv
<1> QED BY <1>1, InitMoney, NextMoney, PTL DEF Spec

(* claimableTotal is the sum of what each payee can claim (_send, claim).  *)
THEOREM SpecClaimsAddUp == Spec => []ClaimsAddUp
<1>1. MoneyInv => ClaimsAddUp
  BY DEF MoneyInv
<1> QED BY <1>1, InitMoney, NextMoney, PTL DEF Spec

(* The contract holds exactly the escrows and the claims, for any number   *)
(* of tasks, accounts and licences and any fee and score scale.            *)
THEOREM SpecSolvent == Spec => []Solvent
<1>1. MoneyInv => Solvent
  BY DEF MoneyInv
<1> QED BY <1>1, InitMoney, NextMoney, PTL DEF Spec

-----------------------------------------------------------------------------
(* Runs                                                                    *)

(* Only _record writes the log, the counters and the books of runs.        *)
LEMMA OnlySubmitRecords ==
  ASSUME [Next]_vars
  PROVE  \/ UNCHANGED runVars /\ UNCHANGED shardFilled
         \/ \E t \in TaskIds, a \in Accounts, h \in Hashes, s \in Scores :
              SubmitTrajectory(t, a, h, s)
<1>1. ASSUME NEW f \in Accounts, NEW n \in SlotCounts, NEW r \in Rewards,
             NEW d \in Deadlines, NEW x \in Amounts, CreateTask(f, n, r, d, x)
      PROVE  UNCHANGED runVars /\ UNCHANGED shardFilled
  BY <1>1 DEF CreateTask
<1>2. ASSUME NEW f \in Accounts, NEW t \in TaskIds, NEW x \in Amounts, FundTask(f, t, x)
      PROVE  UNCHANGED runVars /\ UNCHANGED shardFilled
  BY <1>2 DEF FundTask
<1>3. ASSUME NEW t \in TaskIds, CloseTask(t) PROVE UNCHANGED runVars /\ UNCHANGED shardFilled
  BY <1>3 DEF CloseTask
<1>4. ASSUME NEW t \in TaskIds, NEW fee \in Fees, MintPolicy(t, fee)
      PROVE  UNCHANGED runVars /\ UNCHANGED shardFilled
  BY <1>4 DEF MintPolicy
<1>5. ASSUME NEW id \in DOMAIN policies, NEW b \in Accounts, NEW l \in Accounts,
             LicensePolicy(id, b, l)
      PROVE  UNCHANGED runVars /\ UNCHANGED shardFilled
  BY <1>5 DEF LicensePolicy, taskVars
<1>6. ASSUME NEW a \in Holders, Claim(a) PROVE UNCHANGED runVars /\ UNCHANGED shardFilled
  BY <1>6 DEF Claim, taskVars
<1>7. CASE Tick
  BY <1>7 DEF Tick, taskVars
<1>8. ASSUME NEW a \in Blockable, Blocklist(a) PROVE UNCHANGED runVars /\ UNCHANGED shardFilled
  BY <1>8 DEF Blocklist, taskVars
<1>9. CASE UNCHANGED vars
  BY <1>9 DEF vars, taskVars
<1> QED BY <1>1, <1>2, <1>3, <1>4, <1>5, <1>6, <1>7, <1>8, <1>9 DEF Next

LEMMA NextRunsPaidOnce ==
  ASSUME TypeOK, RunsPaidOnce, [Next]_vars
  PROVE  RunsPaidOnce'
<1>1. CASE UNCHANGED runVars
  BY <1>1 DEF RunsPaidOnce, runVars
<1>2. ASSUME NEW t \in TaskIds, NEW a \in Accounts, NEW h \in Hashes, NEW s \in Scores,
             SubmitTrajectory(t, a, h, s)
      PROVE  RunsPaidOnce'
  <2>1. PICK new : /\ new.trajHash = h
                   /\ trajectories' = Append(trajectories, new)
    BY <1>2 DEF SubmitTrajectory
  <2>2. PICK n \in Nat : n = Len(trajectories)
    BY LenProperties DEF TypeOK
  <2>3. /\ trajectories \in Seq(Trajectory)
        /\ trajectoryOfHash \in [Hashes -> Nat]
        /\ trajectoryOfHash[h] = 0
        /\ trajectoryOfHash' = [trajectoryOfHash EXCEPT ![h] = n + 1]
    BY <1>2, <2>2 DEF TypeOK, SubmitTrajectory, TrajectoryUsed
  <2>4. /\ DOMAIN trajectories = 1 .. n
        /\ DOMAIN trajectories' = 1 .. (n + 1)
        /\ trajectories'[n + 1] = new
        /\ \A i \in 1 .. n : trajectories'[i] = trajectories[i]
    BY <2>1, <2>2, <2>3
  <2> SUFFICES ASSUME NEW i \in 1 .. (n + 1)
               PROVE  trajectoryOfHash'[trajectories'[i].trajHash] = i
    BY <2>4 DEF RunsPaidOnce
  <2>5. CASE i = n + 1
    BY <2>1, <2>3, <2>4, <2>5
  <2>6. CASE i \in 1 .. n
    <3>1. PICK r \in Trajectory : r = trajectories[i]
      BY <2>3, <2>4, <2>6, ElementOfSeq
    <3>2. r.trajHash \in Hashes /\ trajectoryOfHash[r.trajHash] = i
      BY <2>4, <2>6, <3>1 DEF RunsPaidOnce, Trajectory
    <3>3. r.trajHash # h
      BY <2>3, <2>6, <3>2
    <3> QED BY <2>3, <2>4, <2>6, <3>1, <3>2, <3>3
  <2> QED BY <2>5, <2>6
<1> QED BY <1>1, <1>2, OnlySubmitRecords

(* No hash is paid twice, for whatever task or operator it is sent again:  *)
(* the hash of every logged run leads back to that run alone.              *)
THEOREM SpecRunsPaidOnce == Spec => []RunsPaidOnce
<1>1. Init => RunsPaidOnce
  BY DEF Init, RunsPaidOnce
<1>2. MoneyInv => TypeOK
  BY DEF MoneyInv
<1> QED BY <1>1, <1>2, InitMoney, NextMoney, NextRunsPaidOnce, PTL DEF Spec

-----------------------------------------------------------------------------
(* Closing                                                                 *)

(* closeTask empties the escrow it refunds, and nothing fills it again.    *)
ClosedEmpty == \A t \in TaskIds : tasks[t].closed => tasks[t].escrow = 0

StaysClosed ==
  \A t \in TaskIds : tasks[t].closed =>
    /\ tasks'[t].closed /\ tasks'[t].escrow = 0
    /\ taskTrajectories'[t] = taskTrajectories[t]

LEMMA NextStaysClosed ==
  ASSUME MoneyInv, ClosedEmpty, [Next]_vars
  PROVE  StaysClosed /\ ClosedEmpty'
<1> TypeOK /\ Unposted
  BY DEF MoneyInv
<1>0. /\ tasks \in [TaskIds -> Task]
      /\ \A t \in TaskIds : tasks[t] \in Task
      /\ taskTrajectories \in [TaskIds -> Seq(Nat)]
  BY DEF TypeOK
<1>1. CASE UNCHANGED <<tasks, runVars>>
  BY <1>1 DEF StaysClosed, ClosedEmpty, runVars
<1>2. ASSUME NEW f \in Accounts, NEW n \in SlotCounts, NEW r \in Rewards,
             NEW d \in Deadlines, NEW x \in Amounts, CreateTask(f, n, r, d, x)
      PROVE  StaysClosed /\ ClosedEmpty'
  <2>1. PICK new : new.closed = FALSE /\ tasks' = [tasks EXCEPT ![taskCount] = new]
    BY <1>2 DEF CreateTask
  <2>2. taskTrajectories' = taskTrajectories
    BY <1>2 DEF CreateTask, runVars
  <2>3. ASSUME NEW t \in TaskIds, tasks[t].closed PROVE t # taskCount
    <3>1. taskCount \in Int
      BY DEF TypeOK
    <3>2. EmptyTask.closed = FALSE
      BY DEF EmptyTask
    <3>3. t < taskCount
      BY <2>3, <3>2, Zenon DEF Unposted, Exists
    <3> QED BY <3>1, <3>3
  <2>4. \A t \in TaskIds : t # taskCount => tasks'[t] = tasks[t]
    BY <1>0, <2>1
  <2>5. \A t \in TaskIds : t = taskCount => tasks'[t].closed = FALSE
    BY <1>0, <2>1
  <2> QED BY <2>2, <2>3, <2>4, <2>5 DEF StaysClosed, ClosedEmpty
<1>3. ASSUME NEW f \in Accounts, NEW u \in TaskIds, NEW x \in Amounts, FundTask(f, u, x)
      PROVE  StaysClosed /\ ClosedEmpty'
  <2>1. /\ ~ tasks[u].closed /\ tasks' = [tasks EXCEPT ![u].escrow = @ + x]
        /\ taskTrajectories' = taskTrajectories
    BY <1>3 DEF FundTask, TakesFunds, runVars
  <2>2. \A t \in TaskIds : /\ tasks'[t].closed = tasks[t].closed
                           /\ t # u => tasks'[t] = tasks[t]
    BY <1>0, <2>1 DEF Task
  <2> QED BY <2>1, <2>2 DEF StaysClosed, ClosedEmpty
<1>4. ASSUME NEW u \in TaskIds, CloseTask(u) PROVE StaysClosed /\ ClosedEmpty'
  <2>1. /\ tasks' = [tasks EXCEPT ![u].escrow = 0, ![u].closed = TRUE]
        /\ ~ tasks[u].closed
        /\ taskTrajectories' = taskTrajectories
    BY <1>4 DEF CloseTask, runVars
  <2>2. tasks'[u].escrow = 0
    BY <1>0, <2>1 DEF Task
  <2>3. \A t \in TaskIds : t # u => tasks'[t] = tasks[t]
    BY <1>0, <2>1
  <2> QED BY <2>1, <2>2, <2>3 DEF StaysClosed, ClosedEmpty
<1>5. ASSUME NEW u \in TaskIds, NEW a \in Accounts, NEW h \in Hashes, NEW s \in Scores,
             SubmitTrajectory(u, a, h, s)
      PROVE  StaysClosed /\ ClosedEmpty'
  <2>1. PICK pay : tasks' = [tasks EXCEPT ![u].escrow = @ - pay]
    BY <1>5 DEF SubmitTrajectory
  <2>2. PICK n : taskTrajectories' = [taskTrajectories EXCEPT ![u] = Append(@, n)]
    BY <1>5 DEF SubmitTrajectory
  <2>3. ~ tasks[u].closed
    BY <1>5 DEF SubmitTrajectory, AcceptsRuns
  <2>4. \A t \in TaskIds : /\ tasks'[t].closed = tasks[t].closed
                           /\ t # u => /\ tasks'[t] = tasks[t]
                                       /\ taskTrajectories'[t] = taskTrajectories[t]
    BY <1>0, <2>1, <2>2 DEF Task
  <2> QED BY <2>3, <2>4 DEF StaysClosed, ClosedEmpty
<1>6. ASSUME NEW u \in TaskIds, NEW fee \in Fees, MintPolicy(u, fee)
      PROVE  StaysClosed /\ ClosedEmpty'
  <2>1. /\ tasks' = [tasks EXCEPT ![u].policyMinted = TRUE]
        /\ taskTrajectories' = taskTrajectories
    BY <1>6 DEF MintPolicy, runVars
  <2>2. \A t \in TaskIds : /\ tasks'[t].closed = tasks[t].closed
                           /\ tasks'[t].escrow = tasks[t].escrow
    BY <1>0, <2>1 DEF Task
  <2> QED BY <2>1, <2>2 DEF StaysClosed, ClosedEmpty
<1>7. ASSUME NEW id \in DOMAIN policies, NEW b \in Accounts, NEW l \in Accounts,
             LicensePolicy(id, b, l)
      PROVE  UNCHANGED <<tasks, runVars>>
  BY <1>7 DEF LicensePolicy, taskVars
<1>8. ASSUME NEW a \in Holders, Claim(a) PROVE UNCHANGED <<tasks, runVars>>
  BY <1>8 DEF Claim, taskVars
<1>9. Tick => UNCHANGED <<tasks, runVars>>
  BY DEF Tick, taskVars
<1>10. ASSUME NEW a \in Blockable, Blocklist(a) PROVE UNCHANGED <<tasks, runVars>>
  BY <1>10 DEF Blocklist, taskVars
<1>11. UNCHANGED vars => UNCHANGED <<tasks, runVars>>
  BY DEF vars, taskVars
<1> QED BY <1>1, <1>2, <1>3, <1>4, <1>5, <1>6, <1>7, <1>8, <1>9, <1>10, <1>11 DEF Next

(* A task once closed never holds a dollar, takes a run or reopens.        *)
THEOREM SpecClosedForGood == Spec => ClosedForGood
<1>1. Init => ClosedEmpty
  BY DEF Init, ClosedEmpty, EmptyTask
<1>2. MoneyInv /\ ClosedEmpty /\ [Next]_vars => ClosedEmpty'
  BY NextStaysClosed
<1>3. MoneyInv /\ ClosedEmpty /\ [Next]_vars
        => [\A t \in TaskIds : tasks[t].closed =>
              /\ tasks'[t].closed /\ tasks'[t].escrow = 0
              /\ taskTrajectories'[t] = taskTrajectories[t]]_vars
  BY NextStaysClosed DEF StaysClosed
<1> QED BY <1>1, <1>2, <1>3, InitMoney, NextMoney, PTL DEF Spec, ClosedForGood

-----------------------------------------------------------------------------
(* Slots                                                                   *)

(* No counter passes its quota, the counters count the task's runs, and a  *)
(* task id not handed out yet has neither.  The quota of a counter is what *)
(* SlotsNeverOversold rests on: the total alone would let one counter take *)
(* the slots of another, which then never fills.                           *)
WithinQuota ==
  \A t \in TaskIds : \A s \in Shards(tasks[t].slotsTotal) :
    shardFilled[t][s] <= Quota(tasks[t].slotsTotal, s)

CountersCountRuns == \A t \in TaskIds : FilledOf(t) = Len(taskTrajectories[t])

NoRunsYet ==
  \A t \in TaskIds : ~ Exists(t) =>
    (\A s \in ShardIds : shardFilled[t][s] = 0) /\ taskTrajectories[t] = <<>>

SlotInv == WithinQuota /\ CountersCountRuns /\ NoRunsYet

LEMMA ShardsAreShardIds ==
  ASSUME NEW n \in Nat
  PROVE  Shards(n) \subseteq ShardIds
BY ShardsForType, ShardAssumption DEF Shards, ShardIds

LEMMA SlotsInvariant ==
  ASSUME TypeOK, SlotInv
  PROVE  SlotsNeverOversold /\ RoomWhileUnfilled
<1> SUFFICES ASSUME NEW t \in TaskIds
             PROVE  /\ FilledOf(t) <= tasks[t].slotsTotal
                    /\ FilledOf(t) = Len(taskTrajectories[t])
                    /\ FilledOf(t) < tasks[t].slotsTotal <=>
                         \E s \in Shards(tasks[t].slotsTotal) :
                            HasRoom(shardFilled[t], tasks[t].slotsTotal, s)
  BY DEF SlotsNeverOversold, RoomWhileUnfilled
<1>1. PICK n \in Nat, row \in [0 .. (MAX_SHARDS - 1) -> Nat] :
        n = tasks[t].slotsTotal /\ row = shardFilled[t]
  BY DEF TypeOK, Task, ShardIds
<1>2. \A s \in Shards(n) : row[s] <= Quota(n, s)
  BY <1>1 DEF SlotInv, WithinQuota
<1>3. FilledOf(t) = SlotsFilledOf(row, n)
  BY <1>1 DEF FilledOf
<1>4. FilledOf(t) = Len(taskTrajectories[t])
  BY DEF SlotInv, CountersCountRuns
<1> QED BY <1>1, <1>2, <1>3, <1>4, RoomExactlyWhileUnfilled

LEMMA InitSlots == Init => SlotInv
<1> SUFFICES ASSUME Init PROVE SlotInv
  OBVIOUS
<1>1. ASSUME NEW t \in TaskIds
      PROVE  /\ \A s \in ShardIds : shardFilled[t][s] = 0
             /\ taskTrajectories[t] = <<>>
             /\ tasks[t].slotsTotal = 0
  BY DEF Init, EmptyTask
<1>2. ASSUME NEW t \in TaskIds PROVE FilledOf(t) = 0
  <2>1. \A s \in Shards(0) : shardFilled[t][s] = 0
    BY <1>1, ShardsAreShardIds
  <2>2. SumFunctionOnSet(shardFilled[t], Shards(0)) = 0
    BY <2>1, ShardsFinite, SumZero
  <2> QED BY <1>1, <2>2 DEF FilledOf, SlotsFilledOf
<1>3. WithinQuota
  <2>1. \A s \in Shards(0) : s \in ShardIds /\ Quota(0, s) \in Nat
    BY ShardsAreShardIds, QuotaType
  <2>2. \A s \in Shards(0) : 0 <= Quota(0, s)
    BY <2>1
  <2> QED BY <1>1, <2>1, <2>2 DEF WithinQuota
<1>4. Len(<<>>) = 0
  OBVIOUS
<1> QED BY <1>1, <1>2, <1>3, <1>4 DEF SlotInv, CountersCountRuns, NoRunsYet

LEMMA CreateTaskSlots ==
  ASSUME MoneyInv, SlotInv, NEW f \in Accounts, NEW n \in SlotCounts, NEW r \in Rewards,
         NEW d \in Deadlines, NEW x \in Amounts, CreateTask(f, n, r, d, x)
  PROVE  SlotInv'
<1>1. /\ TypeOK /\ n \in Nat /\ taskCount \in Nat /\ taskCount \in TaskIds
      /\ tasks \in [TaskIds -> Task]
  <2>1. TypeOK /\ taskCount < MaxTasks
    BY DEF MoneyInv, CreateTask
  <2>2. n \in Nat /\ MaxTasks \in Nat
    BY ProtocolAssumption
  <2>3. taskCount \in Nat /\ tasks \in [TaskIds -> Task]
    BY <2>1, <2>2 DEF TypeOK
  <2> QED BY <2>1, <2>2, <2>3 DEF TaskIds
<1>2. PICK new : new.slotsTotal = n /\ tasks' = [tasks EXCEPT ![taskCount] = new]
  BY DEF CreateTask
<1>3. /\ taskCount' = taskCount + 1
      /\ shardFilled' = shardFilled /\ taskTrajectories' = taskTrajectories
  BY DEF CreateTask, runVars
<1>4. /\ \A t \in TaskIds : t # taskCount => tasks'[t] = tasks[t]
      /\ tasks'[taskCount].slotsTotal = n
  BY <1>1, <1>2
<1>5. /\ \A s \in ShardIds : shardFilled[taskCount][s] = 0
      /\ taskTrajectories[taskCount] = <<>>
  BY <1>1 DEF SlotInv, NoRunsYet, Exists
<1>6. WithinQuota'
  <2>1. \A s \in Shards(n) : s \in ShardIds /\ Quota(n, s) \in Nat
    BY <1>1, ShardsAreShardIds, QuotaType
  <2>2. \A s \in Shards(n) : shardFilled[taskCount][s] <= Quota(n, s)
    BY <1>5, <2>1
  <2> SUFFICES ASSUME NEW t \in TaskIds, NEW s \in Shards(tasks'[t].slotsTotal)
               PROVE  shardFilled[t][s] <= Quota(tasks'[t].slotsTotal, s)
    BY <1>3 DEF WithinQuota
  <2>3. CASE t = taskCount
    BY <1>4, <2>2, <2>3
  <2>4. CASE t # taskCount
    BY <1>4, <2>4 DEF SlotInv, WithinQuota
  <2> QED BY <2>3, <2>4
<1>7. CountersCountRuns'
  <2>1. SlotsFilledOf(shardFilled[taskCount], n) = 0
    <3>1. \A s \in Shards(n) : shardFilled[taskCount][s] = 0
      BY <1>1, <1>5, ShardsAreShardIds
    <3> QED BY <1>1, <3>1, ShardsFinite, SumZero DEF SlotsFilledOf
  <2> SUFFICES ASSUME NEW t \in TaskIds
               PROVE  SlotsFilledOf(shardFilled[t], tasks'[t].slotsTotal)
                        = Len(taskTrajectories[t])
    BY <1>3 DEF CountersCountRuns, FilledOf
  <2>2. CASE t = taskCount
    BY <1>4, <1>5, <2>1, <2>2
  <2>3. CASE t # taskCount
    BY <1>4, <2>3 DEF SlotInv, CountersCountRuns, FilledOf
  <2> QED BY <2>2, <2>3
<1>8. NoRunsYet'
  <2> SUFFICES ASSUME NEW t \in TaskIds, ~ (t < taskCount + 1)
               PROVE  (\A s \in ShardIds : shardFilled[t][s] = 0) /\ taskTrajectories[t] = <<>>
    BY <1>3 DEF NoRunsYet, Exists
  <2>1. ~ Exists(t)
    BY <1>1 DEF Exists, TaskIds
  <2> QED BY <2>1 DEF SlotInv, NoRunsYet
<1> QED BY <1>6, <1>7, <1>8 DEF SlotInv

(* The counter a run is booked on is one of the task's and had room.       *)
LEMMA BookedWithRoom ==
  ASSUME TypeOK, NEW t \in TaskIds, NEW who \in Accounts,
         \E s \in Shards(tasks[t].slotsTotal) :
            HasRoom(shardFilled[t], tasks[t].slotsTotal, s)
  PROVE  /\ ShardFor(t, who) \in Shards(tasks[t].slotsTotal)
         /\ HasRoom(shardFilled[t], tasks[t].slotsTotal, ShardFor(t, who))
<1>1. PICK n \in Nat, row \in [0 .. (MAX_SHARDS - 1) -> Nat] :
        n = tasks[t].slotsTotal /\ row = shardFilled[t]
  BY DEF TypeOK, Task, ShardIds
<1>2. CASE HasRoom(row, n, ShardOf(t, who))
  <2>1. ShardOf(t, who) \in Shards(n)
    <3>1. PICK k \in Nat : k = Keccak[t, who]
      <4>1. PICK D : D = TaskIds \X Accounts
        OBVIOUS
      <4>2. Keccak \in [D -> Nat]
        BY <4>1, ProtocolAssumption, Zenon
      <4>3. <<t, who>> \in D
        BY <4>1
      <4> QED BY <4>2, <4>3, Zenon
    <3>2. PICK m \in Nat \ {0} : m = ShardsFor(n)
      BY ShardsForType
    <3>3. ShardOf(t, who) = k % m
      BY <1>1, <3>1, <3>2, Zenon DEF ShardOf
    <3>4. k % m \in 0 .. (m - 1)
      BY DivMod
    <3> QED BY <3>2, <3>3, <3>4, Zenon DEF Shards
  <2> QED BY <1>1, <1>2, <2>1 DEF ShardFor
<1>3. CASE ~ HasRoom(row, n, ShardOf(t, who))
  <2>1. ShardFor(t, who) = AnyShardWithRoom(row, n)
    BY <1>1, <1>3 DEF ShardFor
  <2> QED BY <1>1, <2>1, FallbackFindsRoom
<1> QED BY <1>2, <1>3

LEMMA SubmitTrajectorySlots ==
  ASSUME MoneyInv, SlotInv, NEW t \in TaskIds, NEW who \in Accounts, NEW h \in Hashes,
         NEW score \in Scores, SubmitTrajectory(t, who, h, score)
  PROVE  SlotInv'
<1>1. /\ TypeOK /\ tasks \in [TaskIds -> Task]
      /\ shardFilled \in [TaskIds -> [ShardIds -> Nat]]
      /\ taskTrajectories \in [TaskIds -> Seq(Nat)]
  BY DEF MoneyInv, TypeOK
<1>2. PICK n \in Nat, row \in [ShardIds -> Nat] :
        n = tasks[t].slotsTotal /\ row = shardFilled[t]
  BY <1>1 DEF Task
<1>3. PICK s \in Shards(n) : s = ShardFor(t, who) /\ HasRoom(row, n, s)
  BY <1>1, <1>2, BookedWithRoom DEF SubmitTrajectory
<1>4. /\ s \in ShardIds /\ Shards(n) \subseteq ShardIds
      /\ IsFiniteSet(Shards(n)) /\ Quota(n, s) \in Nat
  BY ShardsAreShardIds, ShardsFinite, QuotaType
<1>5. PICK row2 \in [ShardIds -> Nat] : row2 = [row EXCEPT ![s] = @ + 1]
  <2>1. row[s] + 1 \in Nat
    BY <1>4
  <2>2. [row EXCEPT ![s] = @ + 1] \in [ShardIds -> Nat]
    BY <2>1
  <2> QED BY <2>2
<1>6. row2[s] = row[s] + 1 /\ \A r \in ShardIds : r # s => row2[r] = row[r]
  BY <1>4, <1>5
<1>7. PICK pay : tasks' = [tasks EXCEPT ![t].escrow = @ - pay]
  BY DEF SubmitTrajectory
<1>8. /\ taskCount' = taskCount /\ Exists(t)
      /\ \A u \in TaskIds : tasks'[u].slotsTotal = tasks[u].slotsTotal
  BY <1>1, <1>7 DEF SubmitTrajectory, Task
<1>9. /\ shardFilled'[t] = row2
      /\ \A u \in TaskIds : u # t => shardFilled'[u] = shardFilled[u]
  <2>1. shardFilled' = [shardFilled EXCEPT ![t][s] = @ + 1]
    BY <1>3 DEF SubmitTrajectory
  <2> QED BY <1>1, <1>2, <1>5, <2>1
<1>10. /\ Len(taskTrajectories'[t]) = Len(taskTrajectories[t]) + 1
       /\ \A u \in TaskIds : u # t => taskTrajectories'[u] = taskTrajectories[u]
  <2>1. PICK id \in Nat : taskTrajectories' = [taskTrajectories EXCEPT ![t] = Append(@, id)]
    BY <1>1, LenProperties DEF SubmitTrajectory, TypeOK
  <2>2. PICK q \in Seq(Nat) : q = taskTrajectories[t]
    BY <1>1
  <2>3. Len(Append(q, id)) = Len(q) + 1
    OBVIOUS
  <2> QED BY <1>1, <2>1, <2>2, <2>3
<1>11. WithinQuota'
  <2> SUFFICES ASSUME NEW u \in TaskIds, NEW r \in Shards(tasks[u].slotsTotal)
               PROVE  shardFilled'[u][r] <= Quota(tasks[u].slotsTotal, r)
    BY <1>8 DEF WithinQuota
  <2>1. CASE u # t
    BY <1>9, <2>1 DEF SlotInv, WithinQuota
  <2>2. CASE u = t /\ r # s
    BY <1>2, <1>4, <1>6, <1>9, <2>2 DEF SlotInv, WithinQuota
  <2>3. CASE u = t /\ r = s
    <3>1. row[s] \in Nat /\ row[s] < Quota(n, s)
      BY <1>3, <1>4 DEF HasRoom
    <3>2. row2[s] <= Quota(n, s)
      BY <1>4, <1>6, <3>1
    <3> QED BY <1>2, <1>9, <2>3, <3>2
  <2> QED BY <2>1, <2>2, <2>3
<1>12. CountersCountRuns'
  <2> SUFFICES ASSUME NEW u \in TaskIds
               PROVE  SlotsFilledOf(shardFilled'[u], tasks[u].slotsTotal)
                        = Len(taskTrajectories'[u])
    BY <1>8 DEF CountersCountRuns, FilledOf
  <2>1. CASE u # t
    BY <1>9, <1>10, <2>1 DEF SlotInv, CountersCountRuns, FilledOf
  <2>2. CASE u = t
    <3>1. PICK S : S = Shards(n) /\ IsFiniteSet(S) /\ s \in S /\ S \subseteq ShardIds
      BY <1>4
    <3>2. /\ \A r \in S : row[r] \in Int /\ row2[r] \in Int
          /\ \A r \in S \ {s} : row2[r] = row[r]
      BY <1>6, <3>1
    <3>3. SumFunctionOnSet(row2, S) = SumFunctionOnSet(row, S) + (row2[s] - row[s])
      BY ONLY <3>1, <3>2, SumChange
    <3>4. SumFunctionOnSet(row, S) = Len(taskTrajectories[t])
      BY <1>2, <3>1 DEF SlotInv, CountersCountRuns, FilledOf, SlotsFilledOf
    <3>5. Len(taskTrajectories[t]) \in Nat /\ row[s] \in Nat
      BY <1>1, <1>4, LenProperties
    <3>6. SumFunctionOnSet(row2, S) = Len(taskTrajectories[t]) + 1
      BY ONLY <1>6, <3>3, <3>4, <3>5
    <3> QED BY <1>2, <1>9, <1>10, <2>2, <3>1, <3>6 DEF SlotsFilledOf
  <2> QED BY <2>1, <2>2
<1>13. NoRunsYet'
  <2> SUFFICES ASSUME NEW u \in TaskIds, ~ Exists(u)
               PROVE  (\A r \in ShardIds : shardFilled'[u][r] = 0) /\ taskTrajectories'[u] = <<>>
    BY <1>8 DEF NoRunsYet, Exists
  <2>1. u # t
    BY <1>8
  <2> QED BY <1>9, <1>10, <2>1 DEF SlotInv, NoRunsYet
<1> QED BY <1>11, <1>12, <1>13 DEF SlotInv

LEMMA SlotsKept ==
  ASSUME SlotInv, UNCHANGED <<taskCount, shardFilled, taskTrajectories>>,
         \A t \in TaskIds : tasks'[t].slotsTotal = tasks[t].slotsTotal
  PROVE  SlotInv'
<1>1. WithinQuota'
  BY DEF SlotInv, WithinQuota
<1>2. CountersCountRuns'
  BY DEF SlotInv, CountersCountRuns, FilledOf
<1>3. NoRunsYet'
  BY DEF SlotInv, NoRunsYet, Exists
<1> QED BY <1>1, <1>2, <1>3 DEF SlotInv

LEMMA NextSlots == MoneyInv /\ SlotInv /\ [Next]_vars => SlotInv'
<1> SUFFICES ASSUME MoneyInv, SlotInv, [Next]_vars PROVE SlotInv'
  OBVIOUS
<1>0. tasks \in [TaskIds -> Task]
  BY DEF MoneyInv, TypeOK
<1>1. ASSUME NEW f \in Accounts, NEW n \in SlotCounts, NEW r \in Rewards,
             NEW d \in Deadlines, NEW x \in Amounts, CreateTask(f, n, r, d, x)
      PROVE  SlotInv'
  BY <1>1, CreateTaskSlots
<1>2. ASSUME NEW f \in Accounts, NEW t \in TaskIds, NEW x \in Amounts, FundTask(f, t, x)
      PROVE  SlotInv'
  <2>1. \A u \in TaskIds : tasks'[u].slotsTotal = tasks[u].slotsTotal
    BY <1>0, <1>2 DEF FundTask, Task
  <2> QED BY <1>2, <2>1, SlotsKept DEF FundTask, runVars
<1>3. ASSUME NEW t \in TaskIds, CloseTask(t) PROVE SlotInv'
  <2>1. \A u \in TaskIds : tasks'[u].slotsTotal = tasks[u].slotsTotal
    BY <1>0, <1>3 DEF CloseTask, Task
  <2> QED BY <1>3, <2>1, SlotsKept DEF CloseTask, runVars
<1>4. ASSUME NEW t \in TaskIds, NEW a \in Accounts, NEW h \in Hashes, NEW s \in Scores,
             SubmitTrajectory(t, a, h, s)
      PROVE  SlotInv'
  BY <1>4, SubmitTrajectorySlots
<1>5. ASSUME NEW t \in TaskIds, NEW fee \in Fees, MintPolicy(t, fee) PROVE SlotInv'
  <2>1. \A u \in TaskIds : tasks'[u].slotsTotal = tasks[u].slotsTotal
    BY <1>0, <1>5 DEF MintPolicy, Task
  <2> QED BY <1>5, <2>1, SlotsKept DEF MintPolicy, runVars
<1>6. ASSUME NEW id \in DOMAIN policies, NEW b \in Accounts, NEW l \in Accounts,
             LicensePolicy(id, b, l)
      PROVE  SlotInv'
  BY <1>6, SlotsKept DEF LicensePolicy, taskVars, runVars
<1>7. ASSUME NEW a \in Holders, Claim(a) PROVE SlotInv'
  BY <1>7, SlotsKept DEF Claim, taskVars, runVars
<1>8. CASE Tick
  BY <1>8, SlotsKept DEF Tick, taskVars, runVars
<1>9. ASSUME NEW a \in Blockable, Blocklist(a) PROVE SlotInv'
  BY <1>9, SlotsKept DEF Blocklist, taskVars, runVars
<1>10. CASE UNCHANGED vars
  BY <1>10, SlotsKept DEF vars, taskVars, runVars
<1> QED BY <1>1, <1>2, <1>3, <1>4, <1>5, <1>6, <1>7, <1>8, <1>9, <1>10 DEF Next

(* Spread over any number of shards by any hash, a task's runs never       *)
(* exceed its slots, and its counters count exactly the runs logged on it. *)
THEOREM SpecSlotsNeverOversold == Spec => []SlotsNeverOversold
<1>1. MoneyInv /\ SlotInv => SlotsNeverOversold
  BY SlotsInvariant DEF MoneyInv
<1> QED BY <1>1, InitMoney, NextMoney, InitSlots, NextSlots, PTL DEF Spec

(* The full-task check agrees with the counters: a run is refused for want *)
(* of a slot exactly when none is left.                                    *)
THEOREM SpecRoomWhileUnfilled == Spec => []RoomWhileUnfilled
<1>1. MoneyInv /\ SlotInv => RoomWhileUnfilled
  BY SlotsInvariant DEF MoneyInv
<1> QED BY <1>1, InitMoney, NextMoney, InitSlots, NextSlots, PTL DEF Spec

-----------------------------------------------------------------------------
(* What escrow is spent on                                                 *)

(* _send credits its payee, in USDC or as a claim, with the whole amount.  *)
LEMMA SendCredits ==
  ASSUME MoneyType, NEW to \in Holders, NEW amount \in Nat, Send(to, amount)
  PROVE  Credited(to, amount)
<1>1. to # Protocol
  BY ProtocolAssumption
<1>2. usdc[to] \in Nat /\ claimable[to] \in Nat
  BY DEF MoneyType
<1>3. CASE to \notin blocked /\ usdc[Protocol] >= amount
  <2>1. usdc'[to] = usdc[to] + amount /\ claimable' = claimable
    BY <1>1, <1>3 DEF Send, MoneyType
  <2> QED BY <1>2, <2>1 DEF Credited
<1>4. CASE ~ (to \notin blocked /\ usdc[Protocol] >= amount)
  <2>1. claimable'[to] = claimable[to] + amount /\ usdc' = usdc
    BY <1>4 DEF Send, MoneyType
  <2> QED BY <1>2, <2>1 DEF Credited
<1> QED BY <1>3, <1>4

SpentOn(t) ==
  LET spent == tasks[t].escrow - tasks'[t].escrow
  IN  \/ /\ ~ tasks[t].closed /\ tasks'[t].closed /\ tasks'[t].escrow = 0
         /\ Credited(tasks[t].funder, spent)
      \/ /\ Len(trajectories') = Len(trajectories) + 1
         /\ LET run == trajectories'[Len(trajectories')]
            IN  /\ run.taskId = t /\ run.paid = spent
                /\ Credited(run.contributor, spent)

LEMMA CloseTaskSpends ==
  ASSUME MoneyInv, NEW t \in TaskIds, CloseTask(t)
  PROVE  /\ SpentOn(t)
         /\ \A u \in TaskIds : u # t => tasks'[u] = tasks[u]
<1>1. TypeOK /\ Unposted /\ MoneyType
  BY DEF MoneyInv, TypeOK, MoneyType
<1>2. tasks \in [TaskIds -> Task] /\ tasks[t] \in Task /\ tasks[t].escrow \in Nat
  BY <1>1 DEF TypeOK, Task
<1>3. /\ tasks' = [tasks EXCEPT ![t].escrow = 0, ![t].closed = TRUE]
      /\ ~ tasks[t].closed /\ Exists(t)
      /\ Send(tasks[t].funder, tasks[t].escrow)
  BY DEF CloseTask
<1>4. tasks[t].funder \in Holders
  BY <1>1, <1>3, HoldersFinite DEF Unposted
<1>5. Credited(tasks[t].funder, tasks[t].escrow)
  BY <1>1, <1>2, <1>3, <1>4, SendCredits
<1>6. tasks'[t].escrow = 0 /\ tasks'[t].closed
  BY <1>2, <1>3 DEF Task
<1>7. tasks[t].escrow - tasks'[t].escrow = tasks[t].escrow
  BY <1>2, <1>6
<1>8. SpentOn(t)
  BY <1>3, <1>5, <1>6, <1>7, Zenon DEF SpentOn
<1> QED BY <1>2, <1>3, <1>8

LEMMA SubmitTrajectorySpends ==
  ASSUME MoneyInv, NEW t \in TaskIds, NEW who \in Accounts, NEW h \in Hashes,
         NEW score \in Scores, SubmitTrajectory(t, who, h, score)
  PROVE  /\ SpentOn(t)
         /\ \A u \in TaskIds : u # t => tasks'[u] = tasks[u]
<1>1. TypeOK /\ MoneyType /\ score \in Nat /\ who \in Holders
  BY ProtocolAssumption, HoldersFinite DEF MoneyInv, TypeOK, MoneyType
<1>2. PICK pay \in Nat : pay = Payout(t, score)
  BY <1>1, PayoutType
<1>3. tasks \in [TaskIds -> Task] /\ tasks[t] \in Task /\ tasks[t].escrow \in Nat
  BY <1>1 DEF TypeOK, Task
<1>4. tasks' = [tasks EXCEPT ![t].escrow = @ - pay] /\ Send(who, pay)
  BY <1>2 DEF SubmitTrajectory
<1>5. PICK run : /\ run.taskId = t /\ run.contributor = who /\ run.paid = pay
                 /\ run \in Trajectory
                 /\ trajectories' = Append(trajectories, run)
  <2>1. [taskId |-> t, contributor |-> who, trajHash |-> h, score |-> score, paid |-> pay]
           \in Trajectory
    BY <1>1 DEF Trajectory
  <2> QED BY <1>2, <2>1 DEF SubmitTrajectory
<1>6. trajectories \in Seq(Trajectory)
  BY <1>1 DEF TypeOK
<1>7. /\ Len(trajectories') = Len(trajectories) + 1
      /\ trajectories'[Len(trajectories')] = run
  BY ONLY <1>5, <1>6
<1>8. tasks'[t].escrow = tasks[t].escrow - pay
  BY <1>3, <1>4 DEF Task
<1>9. tasks[t].escrow - tasks'[t].escrow = pay
  BY <1>3, <1>8
<1>10. Credited(who, pay)
  BY <1>1, <1>4, SendCredits
<1>11. SpentOn(t)
  BY <1>5, <1>7, <1>9, <1>10, Zenon DEF SpentOn
<1> QED BY <1>3, <1>4, <1>11

LEMMA NextSpends ==
  ASSUME MoneyInv, [Next]_vars
  PROVE  \A t \in TaskIds : tasks'[t].escrow < tasks[t].escrow => SpentOn(t)
<1> SUFFICES ASSUME NEW t \in TaskIds, tasks'[t].escrow < tasks[t].escrow
             PROVE  SpentOn(t)
  OBVIOUS
<1>0. /\ TypeOK /\ Unposted /\ tasks \in [TaskIds -> Task]
      /\ tasks[t].escrow \in Nat
  BY DEF MoneyInv, TypeOK, Task
<1>1. ASSUME NEW f \in Accounts, NEW n \in SlotCounts, NEW r \in Rewards,
             NEW d \in Deadlines, NEW x \in Amounts, CreateTask(f, n, r, d, x)
      PROVE  FALSE
  <2>1. PICK new : new.escrow = x /\ tasks' = [tasks EXCEPT ![taskCount] = new]
    BY <1>1 DEF CreateTask
  <2>2. x \in Nat /\ taskCount \in Nat
    BY <1>0, ProtocolAssumption DEF TypeOK
  <2>3. CASE t # taskCount
    BY <1>0, <2>1, <2>3
  <2>4. CASE t = taskCount
    <3>1. tasks[t].escrow = 0
      BY <1>0, <2>2, <2>4 DEF Unposted, Exists, EmptyTask
    <3>2. tasks'[t].escrow = x
      BY <1>0, <2>1, <2>4
    <3> QED BY <2>2, <3>1, <3>2
  <2> QED BY <2>3, <2>4
<1>2. ASSUME NEW f \in Accounts, NEW u \in TaskIds, NEW x \in Amounts, FundTask(f, u, x)
      PROVE  FALSE
  <2>1. tasks' = [tasks EXCEPT ![u].escrow = @ + x] /\ x \in Nat
    BY <1>2, ProtocolAssumption DEF FundTask
  <2>2. tasks'[t].escrow = IF t = u THEN tasks[t].escrow + x ELSE tasks[t].escrow
    BY <1>0, <2>1 DEF Task
  <2> QED BY <1>0, <2>1, <2>2
<1>3. ASSUME NEW u \in TaskIds, CloseTask(u) PROVE SpentOn(t)
  BY <1>0, <1>3, CloseTaskSpends
<1>4. ASSUME NEW u \in TaskIds, NEW a \in Accounts, NEW h \in Hashes, NEW s \in Scores,
             SubmitTrajectory(u, a, h, s)
      PROVE  SpentOn(t)
  BY <1>0, <1>4, SubmitTrajectorySpends
<1>5. ASSUME NEW u \in TaskIds, NEW fee \in Fees, MintPolicy(u, fee) PROVE FALSE
  <2>1. tasks'[t].escrow = tasks[t].escrow
    BY <1>0, <1>5 DEF MintPolicy, Task
  <2> QED BY <1>0, <2>1
<1>6. ASSUME tasks' = tasks PROVE FALSE
  BY <1>0, <1>6
<1>7. ASSUME NEW id \in DOMAIN policies, NEW b \in Accounts, NEW l \in Accounts,
             LicensePolicy(id, b, l)
      PROVE  tasks' = tasks
  BY <1>7 DEF LicensePolicy, taskVars
<1>8. ASSUME NEW a \in Holders, Claim(a) PROVE tasks' = tasks
  BY <1>8 DEF Claim, taskVars
<1>9. Tick => tasks' = tasks
  BY DEF Tick, taskVars
<1>10. ASSUME NEW a \in Blockable, Blocklist(a) PROVE tasks' = tasks
  BY <1>10 DEF Blocklist, taskVars
<1>11. UNCHANGED vars => tasks' = tasks
  BY DEF vars, taskVars
<1> QED BY <1>1, <1>2, <1>3, <1>4, <1>5, <1>6, <1>7, <1>8, <1>9, <1>10, <1>11 DEF Next

(* An escrow pays only for a run recorded on its own task, to the operator *)
(* of that run, or goes back whole to the sponsor of that task.            *)
THEOREM SpecEscrowSpentOnOwnTask == Spec => EscrowSpentOnOwnTask
<1>1. MoneyInv /\ [Next]_vars =>
        [\A t \in TaskIds : tasks'[t].escrow < tasks[t].escrow =>
           LET spent == tasks[t].escrow - tasks'[t].escrow
           IN  \/ /\ ~ tasks[t].closed /\ tasks'[t].closed /\ tasks'[t].escrow = 0
                  /\ Credited(tasks[t].funder, spent)
               \/ /\ Len(trajectories') = Len(trajectories) + 1
                  /\ LET run == trajectories'[Len(trajectories')]
                     IN  /\ run.taskId = t /\ run.paid = spent
                         /\ Credited(run.contributor, spent)]_vars
  BY NextSpends, Zenon DEF SpentOn
<1> QED BY <1>1, InitMoney, NextMoney, PTL DEF Spec, EscrowSpentOnOwnTask

-----------------------------------------------------------------------------
(* The contract keeps the promise of BountyBook                            *)

(* createTask posts no task without slots, and neither it nor fundTask     *)
(* lets an escrow pass MAX_TASK_ESCROW.                                    *)
PostedWell ==
  \A t \in TaskIds : /\ Exists(t) => tasks[t].slotsTotal # 0
                     /\ tasks[t].escrow <= MaxTaskEscrow

(* The book's variables, under names of their own.                         *)
Pot == [t \in TaskIds |-> tasks[t].escrow]
Places == [t \in TaskIds |-> tasks[t].slotsTotal]
Taken == [t \in TaskIds |-> FilledOf(t)]
Open == {t \in TaskIds : Exists(t) /\ ~ tasks[t].closed /\ ~ tasks[t].policyMinted}
Book == {<<r.trajHash, r.taskId, r.contributor, r.paid>> : r \in Range(trajectories)}

BountyInv == MoneyInv /\ SlotInv /\ RunsPaidOnce /\ PostedWell

BookUnchanged == /\ Pot' = Pot /\ Places' = Places /\ Taken' = Taken
                 /\ Open' = Open /\ Book' = Book

LEMMA TakenKept ==
  ASSUME SlotInv, SlotInv', taskTrajectories' = taskTrajectories
  PROVE  Taken' = Taken
<1>1. \A t \in TaskIds : FilledOf(t) = Len(taskTrajectories[t])
  BY DEF SlotInv, CountersCountRuns
<1>2. \A t \in TaskIds : FilledOf(t)' = Len(taskTrajectories'[t])
  BY DEF SlotInv, CountersCountRuns
<1>3. \A t \in TaskIds : FilledOf(t)' = FilledOf(t)
  BY <1>1, <1>2
<1> QED BY <1>3 DEF Taken

LEMMA CreateTaskPosts ==
  ASSUME BountyInv, SlotInv', NEW f \in Accounts, NEW n \in SlotCounts, NEW r \in Rewards,
         NEW d \in Deadlines, NEW x \in Amounts, CreateTask(f, n, r, d, x)
  PROVE  /\ PostedWell'
         /\ taskCount \in TaskIds /\ x \in 0 .. MaxTaskEscrow /\ n > 0 /\ x > 0
         /\ Places[taskCount] = 0
         /\ Places' = [Places EXCEPT ![taskCount] = n]
         /\ Pot' = [Pot EXCEPT ![taskCount] = x]
         /\ Open' = Open \cup {taskCount}
         /\ Taken' = Taken /\ Book' = Book
<1>1. TypeOK /\ Unposted /\ PostedWell /\ SlotInv
  BY DEF BountyInv, MoneyInv
<1>2. n \in Nat /\ r \in Nat /\ x \in Nat /\ MaxTasks \in Nat /\ MaxTaskEscrow \in Nat
  BY ProtocolAssumption
<1>3. taskCount < MaxTasks /\ n # 0 /\ r # 0 /\ x >= r /\ x <= MaxTaskEscrow
  BY DEF CreateTask
<1>4. taskCount \in Nat /\ tasks \in [TaskIds -> Task]
  BY <1>1, <1>2 DEF TypeOK
<1>5. taskCount \in TaskIds
  BY <1>2, <1>3, <1>4 DEF TaskIds
<1>6. x \in 0 .. MaxTaskEscrow /\ n > 0 /\ x > 0
  BY <1>2, <1>3
<1>7. PICK new : /\ new.escrow = x /\ new.slotsTotal = n /\ new.closed = FALSE
                 /\ new.policyMinted = FALSE
                 /\ tasks' = [tasks EXCEPT ![taskCount] = new]
  BY DEF CreateTask
<1>8. /\ taskCount' = taskCount + 1
      /\ taskTrajectories' = taskTrajectories /\ trajectories' = trajectories
  BY DEF CreateTask, runVars
<1>9. /\ tasks'[taskCount] = new
      /\ \A u \in TaskIds : u # taskCount => tasks'[u] = tasks[u]
  BY <1>4, <1>5, <1>7
<1>10. ~ Exists(taskCount) /\ tasks[taskCount] = EmptyTask
  BY <1>1, <1>4, <1>5 DEF Unposted, Exists
<1>11. \A u \in TaskIds : u # taskCount => (Exists(u)' <=> Exists(u))
  BY <1>4, <1>8 DEF Exists, TaskIds
<1>12. taskCount < taskCount'
  BY <1>4, <1>8
<1>13. PostedWell'
  <2> SUFFICES ASSUME NEW u \in TaskIds
               PROVE  /\ Exists(u)' => tasks'[u].slotsTotal # 0
                      /\ tasks'[u].escrow <= MaxTaskEscrow
    BY DEF PostedWell, Exists
  <2>1. CASE u = taskCount
    BY <1>3, <1>7, <1>9, <2>1
  <2>2. CASE u # taskCount
    BY <1>1, <1>9, <1>11, <2>2 DEF PostedWell
  <2> QED BY <2>1, <2>2
<1>14. Places[taskCount] = 0
  BY <1>5, <1>10 DEF Places, EmptyTask
<1>15. Places' = [Places EXCEPT ![taskCount] = n] /\ Pot' = [Pot EXCEPT ![taskCount] = x]
  <2>1. /\ tasks'[taskCount].slotsTotal = n /\ tasks'[taskCount].escrow = x
        /\ \A u \in TaskIds : u # taskCount => /\ tasks'[u].slotsTotal = tasks[u].slotsTotal
                                              /\ tasks'[u].escrow = tasks[u].escrow
    BY <1>7, <1>9
  <2>2. PICK id : id = taskCount /\ id \in TaskIds
    BY <1>5
  <2>3. Places' = [Places EXCEPT ![id] = n]
    BY <2>1, <2>2 DEF Places
  <2>4. Pot' = [Pot EXCEPT ![id] = x]
    BY <2>1, <2>2 DEF Pot
  <2> QED BY <2>2, <2>3, <2>4
<1>16. Open' = Open \cup {taskCount}
  <2>1. \A u \in TaskIds : u # taskCount => (u \in Open' <=> u \in Open)
    BY <1>9, <1>11 DEF Open
  <2>2. taskCount \in Open'
    <3>1. ~ tasks'[taskCount].closed /\ ~ tasks'[taskCount].policyMinted
      BY <1>7, <1>9
    <3>2. PICK id : id = taskCount
      OBVIOUS
    <3> QED BY <1>5, <1>12, <3>1, <3>2 DEF Open, Exists
  <2>3. Open' \subseteq TaskIds /\ Open \subseteq TaskIds
    BY DEF Open
  <2> QED BY ONLY <2>1, <2>2, <2>3
<1>17. Taken' = Taken /\ Book' = Book
  BY <1>1, <1>8, TakenKept DEF Book
<1> QED BY <1>5, <1>6, <1>13, <1>14, <1>15, <1>16, <1>17

LEMMA FundTaskFunds ==
  ASSUME BountyInv, SlotInv', NEW f \in Accounts, NEW t \in TaskIds, NEW x \in Amounts,
         FundTask(f, t, x)
  PROVE  /\ PostedWell'
         /\ x \in 0 .. MaxTaskEscrow /\ x > 0 /\ t \in Open
         /\ Pot' = [Pot EXCEPT ![t] = @ + x]
         /\ Places' = Places /\ Taken' = Taken /\ Open' = Open /\ Book' = Book
<1>1. TypeOK /\ PostedWell /\ SlotInv /\ tasks \in [TaskIds -> Task]
  BY DEF BountyInv, MoneyInv, TypeOK
<1>2. x \in Nat /\ MaxTaskEscrow \in Nat /\ tasks[t].escrow \in Nat
  BY <1>1, ProtocolAssumption DEF Task
<1>3. /\ Exists(t) /\ x # 0 /\ ~ tasks[t].closed /\ ~ tasks[t].policyMinted
      /\ tasks[t].escrow + x <= MaxTaskEscrow
      /\ tasks' = [tasks EXCEPT ![t].escrow = @ + x]
      /\ taskCount' = taskCount
      /\ taskTrajectories' = taskTrajectories /\ trajectories' = trajectories
  BY DEF FundTask, TakesFunds, runVars
<1>4. x \in 0 .. MaxTaskEscrow /\ x > 0
  BY <1>2, <1>3
<1>5. /\ tasks'[t].escrow = tasks[t].escrow + x
      /\ \A u \in TaskIds : u # t => tasks'[u] = tasks[u]
      /\ \A u \in TaskIds : /\ tasks'[u].slotsTotal = tasks[u].slotsTotal
                            /\ tasks'[u].closed = tasks[u].closed
                            /\ tasks'[u].policyMinted = tasks[u].policyMinted
  BY <1>1, <1>3 DEF Task
<1>6. PostedWell'
  BY <1>1, <1>3, <1>5 DEF PostedWell, Exists
<1>7. Pot' = [Pot EXCEPT ![t] = @ + x] /\ Places' = Places
  BY <1>5 DEF Pot, Places
<1>8. t \in Open /\ Open' = Open
  BY <1>3, <1>5 DEF Open, Exists
<1>9. Taken' = Taken /\ Book' = Book
  BY <1>1, <1>3, TakenKept DEF Book
<1> QED BY <1>4, <1>6, <1>7, <1>8, <1>9

LEMMA CloseTaskCloses ==
  ASSUME BountyInv, SlotInv', NEW t \in TaskIds, CloseTask(t)
  PROVE  /\ PostedWell'
         /\ Places[t] > 0
         /\ Pot' = [Pot EXCEPT ![t] = 0] /\ Open' = Open \ {t}
         /\ Places' = Places /\ Taken' = Taken /\ Book' = Book
<1>1. TypeOK /\ PostedWell /\ SlotInv /\ tasks \in [TaskIds -> Task]
  BY DEF BountyInv, MoneyInv, TypeOK
<1>2. MaxTaskEscrow \in Nat /\ tasks[t].slotsTotal \in Nat
  BY <1>1, ProtocolAssumption DEF Task
<1>3. /\ Exists(t) /\ tasks' = [tasks EXCEPT ![t].escrow = 0, ![t].closed = TRUE]
      /\ taskCount' = taskCount
      /\ taskTrajectories' = taskTrajectories /\ trajectories' = trajectories
  BY DEF CloseTask, runVars
<1>4. /\ tasks'[t].escrow = 0 /\ tasks'[t].closed = TRUE
      /\ \A u \in TaskIds : u # t => tasks'[u] = tasks[u]
      /\ \A u \in TaskIds : tasks'[u].slotsTotal = tasks[u].slotsTotal
  BY <1>1, <1>3 DEF Task
<1>5. PostedWell'
  BY <1>1, <1>2, <1>3, <1>4 DEF PostedWell, Exists
<1>6. Places[t] > 0
  BY <1>1, <1>2, <1>3 DEF PostedWell, Places
<1>7. Pot' = [Pot EXCEPT ![t] = 0] /\ Places' = Places
  BY <1>4 DEF Pot, Places
<1>8. Open' = Open \ {t}
  BY <1>3, <1>4 DEF Open, Exists
<1>9. Taken' = Taken /\ Book' = Book
  BY <1>1, <1>3, TakenKept DEF Book
<1> QED BY <1>5, <1>6, <1>7, <1>8, <1>9

LEMMA MintPolicySells ==
  ASSUME BountyInv, SlotInv', NEW t \in TaskIds, NEW fee \in Fees, MintPolicy(t, fee)
  PROVE  /\ PostedWell'
         /\ Places[t] > 0 /\ Taken[t] = Places[t]
         /\ Open' = Open \ {t}
         /\ Pot' = Pot /\ Places' = Places /\ Taken' = Taken /\ Book' = Book
<1>1. TypeOK /\ PostedWell /\ SlotInv /\ tasks \in [TaskIds -> Task]
  BY DEF BountyInv, MoneyInv, TypeOK
<1>2. PICK n \in Nat : n = tasks[t].slotsTotal
  BY <1>1 DEF Task
<1>3. /\ Exists(t) /\ tasks' = [tasks EXCEPT ![t].policyMinted = TRUE]
      /\ FilledOf(t) >= n /\ taskCount' = taskCount
      /\ taskTrajectories' = taskTrajectories /\ trajectories' = trajectories
  BY <1>2 DEF MintPolicy, runVars
<1>4. /\ tasks'[t].policyMinted = TRUE
      /\ \A u \in TaskIds : u # t => tasks'[u] = tasks[u]
      /\ \A u \in TaskIds : /\ tasks'[u].slotsTotal = tasks[u].slotsTotal
                            /\ tasks'[u].escrow = tasks[u].escrow
  BY <1>1, <1>3 DEF Task
<1>5. PostedWell'
  BY <1>1, <1>3, <1>4 DEF PostedWell, Exists
<1>6. PICK k \in Nat : k = FilledOf(t) /\ k <= n
  <2>1. FilledOf(t) = Len(taskTrajectories[t]) /\ FilledOf(t) <= n
    BY <1>1, <1>2, SlotsInvariant DEF SlotsNeverOversold
  <2> QED BY <1>1, <2>1, LenProperties DEF TypeOK
<1>7. Places[t] > 0 /\ Taken[t] = Places[t]
  <2>1. n # 0 /\ k = n
    BY <1>1, <1>2, <1>3, <1>6 DEF PostedWell
  <2>2. Places[t] = n /\ Taken[t] = k
    BY <1>2, <1>6 DEF Places, Taken
  <2> QED BY <2>1, <2>2
<1>8. Pot' = Pot /\ Places' = Places
  BY <1>4 DEF Pot, Places
<1>9. Open' = Open \ {t}
  BY <1>3, <1>4 DEF Open, Exists
<1>10. Taken' = Taken /\ Book' = Book
  BY <1>1, <1>3, TakenKept DEF Book
<1> QED BY <1>5, <1>7, <1>8, <1>9, <1>10

LEMMA SubmitTrajectoryAccepts ==
  ASSUME BountyInv, SlotInv', NEW t \in TaskIds, NEW who \in Accounts, NEW h \in Hashes,
         NEW score \in Scores, SubmitTrajectory(t, who, h, score)
  PROVE  /\ PostedWell'
         /\ \E paid \in 0 .. MaxTaskEscrow :
              /\ t \in Open /\ Taken[t] < Places[t] /\ paid <= Pot[t]
              /\ \A entry \in Book : entry[1] # h
              /\ Pot' = [Pot EXCEPT ![t] = @ - paid]
              /\ Taken' = [Taken EXCEPT ![t] = @ + 1]
              /\ Book' = Book \cup {<<h, t, who, paid>>}
              /\ Places' = Places /\ Open' = Open
<1>1. /\ TypeOK /\ PostedWell /\ SlotInv /\ RunsPaidOnce /\ tasks \in [TaskIds -> Task]
      /\ trajectories \in Seq(Trajectory) /\ score \in Nat
  BY ProtocolAssumption DEF BountyInv, MoneyInv, TypeOK
<1>2. PICK pay \in Nat : pay = Payout(t, score)
  BY <1>1, PayoutType
<1>3. /\ Exists(t) /\ ~ tasks[t].closed /\ ~ tasks[t].policyMinted
      /\ \E s \in Shards(tasks[t].slotsTotal) : HasRoom(shardFilled[t], tasks[t].slotsTotal, s)
      /\ pay <= tasks[t].escrow
      /\ tasks' = [tasks EXCEPT ![t].escrow = @ - pay]
      /\ taskCount' = taskCount /\ trajectoryOfHash[h] = 0
  BY <1>2 DEF SubmitTrajectory, AcceptsRuns, TrajectoryUsed
<1>4. tasks[t].escrow \in Nat /\ MaxTaskEscrow \in Nat /\ tasks[t].escrow <= MaxTaskEscrow
  BY <1>1, ProtocolAssumption DEF Task, PostedWell
<1>5. /\ tasks'[t].escrow = tasks[t].escrow - pay
      /\ \A u \in TaskIds : u # t => tasks'[u] = tasks[u]
      /\ \A u \in TaskIds : /\ tasks'[u].slotsTotal = tasks[u].slotsTotal
                            /\ tasks'[u].closed = tasks[u].closed
                            /\ tasks'[u].policyMinted = tasks[u].policyMinted
  BY <1>1, <1>3 DEF Task
<1>6. PostedWell'
  <2>1. tasks'[t].escrow <= MaxTaskEscrow
    BY <1>4, <1>5
  <2> QED BY <1>1, <1>3, <1>5, <2>1 DEF PostedWell, Exists
<1>7. pay \in 0 .. MaxTaskEscrow /\ pay <= Pot[t] /\ Pot' = [Pot EXCEPT ![t] = @ - pay]
  <2>1. pay \in 0 .. MaxTaskEscrow
    BY <1>3, <1>4
  <2>2. Pot[t] = tasks[t].escrow
    BY DEF Pot
  <2>3. Pot' = [Pot EXCEPT ![t] = @ - pay]
    BY <1>5 DEF Pot
  <2> QED BY <1>3, <2>1, <2>2, <2>3
<1>8. t \in Open /\ Open' = Open /\ Places' = Places
  BY <1>3, <1>5 DEF Open, Exists, Places
<1>9. Taken[t] < Places[t]
  BY <1>1, <1>3, SlotsInvariant DEF RoomWhileUnfilled, Taken, Places
<1>10. Taken' = [Taken EXCEPT ![t] = @ + 1]
  <2>1. PICK id \in Nat : taskTrajectories' = [taskTrajectories EXCEPT ![t] = Append(@, id)]
    BY <1>1, LenProperties DEF SubmitTrajectory
  <2>2. taskTrajectories \in [TaskIds -> Seq(Nat)]
    BY <1>1 DEF TypeOK
  <2>3. PICK q \in Seq(Nat) : q = taskTrajectories[t]
    BY <2>2
  <2>4. Len(Append(q, id)) = Len(q) + 1
    OBVIOUS
  <2>5. /\ Len(taskTrajectories'[t]) = Len(taskTrajectories[t]) + 1
        /\ \A u \in TaskIds : u # t => taskTrajectories'[u] = taskTrajectories[u]
    BY <2>1, <2>2, <2>3, <2>4
  <2>6. \A u \in TaskIds : /\ FilledOf(u) = Len(taskTrajectories[u])
                           /\ FilledOf(u)' = Len(taskTrajectories'[u])
    BY <1>1 DEF SlotInv, CountersCountRuns
  <2>7. \A u \in TaskIds : FilledOf(u)' = IF u = t THEN FilledOf(u) + 1 ELSE FilledOf(u)
    BY <2>5, <2>6
  <2> QED BY <2>7 DEF Taken
<1>11. PICK run \in Trajectory :
         /\ run.taskId = t /\ run.contributor = who /\ run.paid = pay /\ run.trajHash = h
         /\ trajectories' = Append(trajectories, run)
  <2>1. [taskId |-> t, contributor |-> who, trajHash |-> h, score |-> score, paid |-> pay]
           \in Trajectory
    BY <1>1 DEF Trajectory
  <2> QED BY <1>2, <2>1 DEF SubmitTrajectory
<1>12. Range(trajectories') = Range(trajectories) \cup {run}
  BY <1>1, <1>11 DEF Range
<1>13. Book' = Book \cup {<<h, t, who, pay>>}
  <2>1. Book' = {<<r.trajHash, r.taskId, r.contributor, r.paid>> : r \in Range(trajectories')}
    BY DEF Book
  <2> QED BY <1>11, <1>12, <2>1 DEF Book
<1>14. \A entry \in Book : entry[1] # h
  <2> SUFFICES ASSUME NEW r \in Range(trajectories) PROVE r.trajHash # h
    BY DEF Book
  <2>1. PICK i \in 1 .. Len(trajectories) : r = trajectories[i]
    BY <1>1 DEF Range
  <2>2. trajectoryOfHash[r.trajHash] = i
    BY <1>1, <2>1 DEF RunsPaidOnce
  <2> QED BY <1>3, <2>2
<1> QED BY <1>6, <1>7, <1>8, <1>9, <1>10, <1>13, <1>14

LEMMA NoBookStep ==
  ASSUME BountyInv, SlotInv', UNCHANGED <<taskVars, runVars>>
  PROVE  PostedWell' /\ BookUnchanged
<1>1. PostedWell'
  BY DEF BountyInv, PostedWell, Exists, taskVars
<1>2. Pot' = Pot /\ Places' = Places /\ Open' = Open /\ Book' = Book
  BY DEF Pot, Places, Open, Exists, Book, taskVars, runVars
<1>3. Taken' = Taken
  BY TakenKept DEF BountyInv, runVars
<1> QED BY <1>1, <1>2, <1>3 DEF BookUnchanged

(* Every step of the contract is a step of the book or leaves it alone.    *)
LEMMA NextInBook ==
  ASSUME BountyInv, SlotInv', [Next]_vars
  PROVE  PostedWell' /\ [Bounties!Next]_(Bounties!vars)
<1>1. ASSUME NEW f \in Accounts, NEW n \in SlotCounts, NEW r \in Rewards,
             NEW d \in Deadlines, NEW x \in Amounts, CreateTask(f, n, r, d, x)
      PROVE  PostedWell' /\ Bounties!Next
  <2>1. PICK t \in TaskIds : t = taskCount
    BY <1>1, CreateTaskPosts
  <2>2. /\ PostedWell'
        /\ x \in 0 .. MaxTaskEscrow /\ n > 0 /\ x > 0
        /\ Places[t] = 0 /\ Places' = [Places EXCEPT ![t] = n]
        /\ Pot' = [Pot EXCEPT ![t] = x] /\ Open' = Open \cup {t}
        /\ Taken' = Taken /\ Book' = Book
    BY <1>1, <2>1, CreateTaskPosts
  <2>3. Bounties!Post(t, n, x)
    BY <2>2 DEF Bounties!Post, Pot, Places, Taken, Open, Book
  <2> QED BY <2>2, <2>3 DEF Bounties!Next
<1>2. ASSUME NEW f \in Accounts, NEW t \in TaskIds, NEW x \in Amounts, FundTask(f, t, x)
      PROVE  PostedWell' /\ Bounties!Next
  <2>1. /\ PostedWell'
        /\ x \in 0 .. MaxTaskEscrow /\ x > 0 /\ t \in Open
        /\ Pot' = [Pot EXCEPT ![t] = @ + x]
        /\ Places' = Places /\ Taken' = Taken /\ Open' = Open /\ Book' = Book
    BY <1>2, FundTaskFunds
  <2>2. Bounties!Fund(t, x)
    BY <2>1 DEF Bounties!Fund, Pot, Places, Taken, Open, Book
  <2> QED BY <2>1, <2>2 DEF Bounties!Next
<1>3. ASSUME NEW t \in TaskIds, CloseTask(t) PROVE PostedWell' /\ Bounties!Next
  <2>1. /\ PostedWell'
        /\ Places[t] > 0 /\ Pot' = [Pot EXCEPT ![t] = 0] /\ Open' = Open \ {t}
        /\ Places' = Places /\ Taken' = Taken /\ Book' = Book
    BY <1>3, CloseTaskCloses
  <2>2. Bounties!Close(t)
    BY <2>1 DEF Bounties!Close, Pot, Places, Taken, Open, Book
  <2> QED BY <2>1, <2>2 DEF Bounties!Next
<1>4. ASSUME NEW t \in TaskIds, NEW who \in Accounts, NEW h \in Hashes, NEW s \in Scores,
             SubmitTrajectory(t, who, h, s)
      PROVE  PostedWell' /\ Bounties!Next
  <2>1. PICK paid \in 0 .. MaxTaskEscrow :
          /\ t \in Open /\ Taken[t] < Places[t] /\ paid <= Pot[t]
          /\ \A entry \in Book : entry[1] # h
          /\ Pot' = [Pot EXCEPT ![t] = @ - paid]
          /\ Taken' = [Taken EXCEPT ![t] = @ + 1]
          /\ Book' = Book \cup {<<h, t, who, paid>>}
          /\ Places' = Places /\ Open' = Open
    BY <1>4, SubmitTrajectoryAccepts
  <2>2. Bounties!Accept(t, who, h, paid)
    BY <2>1 DEF Bounties!Accept, Pot, Places, Taken, Open, Book
  <2>3. PostedWell'
    BY <1>4, SubmitTrajectoryAccepts
  <2> QED BY <2>2, <2>3 DEF Bounties!Next
<1>5. ASSUME NEW t \in TaskIds, NEW fee \in Fees, MintPolicy(t, fee)
      PROVE  PostedWell' /\ Bounties!Next
  <2>1. /\ PostedWell'
        /\ Places[t] > 0 /\ Taken[t] = Places[t] /\ Open' = Open \ {t}
        /\ Pot' = Pot /\ Places' = Places /\ Taken' = Taken /\ Book' = Book
    BY <1>5, MintPolicySells
  <2>2. Bounties!Sell(t)
    BY <2>1 DEF Bounties!Sell, Pot, Places, Taken, Open, Book
  <2> QED BY <2>1, <2>2 DEF Bounties!Next
<1>6. ASSUME UNCHANGED <<taskVars, runVars>> PROVE PostedWell' /\ UNCHANGED Bounties!vars
  BY <1>6, NoBookStep DEF BookUnchanged, Bounties!vars, Pot, Places, Taken, Open, Book
<1>7. ASSUME NEW id \in DOMAIN policies, NEW b \in Accounts, NEW l \in Accounts,
             LicensePolicy(id, b, l)
      PROVE  UNCHANGED <<taskVars, runVars>>
  BY <1>7 DEF LicensePolicy
<1>8. ASSUME NEW a \in Holders, Claim(a) PROVE UNCHANGED <<taskVars, runVars>>
  BY <1>8 DEF Claim
<1>9. Tick => UNCHANGED <<taskVars, runVars>>
  BY DEF Tick
<1>10. ASSUME NEW a \in Blockable, Blocklist(a) PROVE UNCHANGED <<taskVars, runVars>>
  BY <1>10 DEF Blocklist
<1>11. UNCHANGED vars => UNCHANGED <<taskVars, runVars>>
  BY DEF vars
<1> QED BY <1>1, <1>2, <1>3, <1>4, <1>5, <1>6, <1>7, <1>8, <1>9, <1>10, <1>11 DEF Next

LEMMA InitInBook == Init => PostedWell /\ Bounties!Init
<1> SUFFICES ASSUME Init PROVE PostedWell /\ Bounties!Init
  OBVIOUS
<1>1. \A t \in TaskIds : /\ tasks[t].escrow = 0 /\ tasks[t].slotsTotal = 0
                         /\ ~ Exists(t)
  BY DEF Init, EmptyTask, Exists, TaskIds
<1>2. PostedWell
  BY <1>1, ProtocolAssumption DEF PostedWell
<1>3. \A t \in TaskIds : FilledOf(t) = 0
  <2>1. SlotInv
    BY InitSlots
  <2>2. \A t \in TaskIds : Len(taskTrajectories[t]) = 0
    BY DEF Init
  <2> QED BY <2>1, <2>2 DEF SlotInv, CountersCountRuns
<1>4. Range(trajectories) = {}
  BY DEF Init, Range
<1> QED BY <1>1, <1>2, <1>3, <1>4 DEF Bounties!Init

(* The contract keeps what BountyBook promises whatever it is asked to do: *)
(* its shard counters, escrow fields, indexes and claims are one pot, one  *)
(* count of places and one book of runs per task.                          *)
THEOREM SpecImplementsBountyBook == Spec => ImplementsBountyBook
<1>1. MoneyInv => TypeOK
  BY DEF MoneyInv
<1>2. Init => RunsPaidOnce
  BY DEF Init, RunsPaidOnce
<1>3. Init => BountyInv /\ Bounties!Init
  BY <1>2, InitMoney, InitSlots, InitInBook DEF BountyInv
<1>4. BountyInv /\ [Next]_vars => BountyInv' /\ [Bounties!Next]_(Bounties!vars)
  <2> SUFFICES ASSUME BountyInv, [Next]_vars
               PROVE  BountyInv' /\ [Bounties!Next]_(Bounties!vars)
    OBVIOUS
  <2>1. MoneyInv /\ SlotInv /\ RunsPaidOnce /\ TypeOK
    BY <1>1 DEF BountyInv
  <2>2. MoneyInv' /\ SlotInv'
    BY <2>1, NextMoney, NextSlots
  <2>3. RunsPaidOnce'
    BY <2>1, NextRunsPaidOnce
  <2>4. PostedWell' /\ [Bounties!Next]_(Bounties!vars)
    BY <2>2, NextInBook
  <2> QED BY <2>2, <2>3, <2>4 DEF BountyInv
<1> QED BY <1>3, <1>4, PTL DEF Spec, ImplementsBountyBook, Bounties!Spec

-----------------------------------------------------------------------------
(* The aggregates of the log                                               *)

Earned(a, log) == [i \in DOMAIN log |-> IF log[i].contributor = a THEN log[i].paid ELSE 0]
Scored(a, log) == [i \in DOMAIN log |-> IF log[i].contributor = a THEN log[i].score ELSE 0]
ScoredOn(t, a, log) ==
  [i \in DOMAIN log |-> IF log[i].taskId = t /\ log[i].contributor = a THEN log[i].score ELSE 0]
AllScoredOn(t, log) == [i \in DOMAIN log |-> IF log[i].taskId = t THEN log[i].score ELSE 0]

LogSum(f, log) == SumFunctionOnSet(f, DOMAIN log)

Books ==
  \A a \in Accounts :
    /\ stats[a].earned = LogSum(Earned(a, trajectories), trajectories)
    /\ stats[a].score = LogSum(Scored(a, trajectories), trajectories)
    /\ stats[a].runs = Len(byContributor[a])
    /\ \A t \in TaskIds :
         weightOnTask[t][a] = LogSum(ScoredOn(t, a, trajectories), trajectories)

LEMMA BooksAreBooksAgree == Books <=> BooksAgree
BY DEF Books, BooksAgree, RunSum, LogSum, Earned, Scored, ScoredOn

(* One more run adds its own entry to a sum over the log.                  *)
LEMMA LogSumGrows ==
  ASSUME NEW n \in Nat, NEW f, NEW g, NEW v \in Nat,
         \A i \in 1 .. n : f[i] \in Nat /\ g[i] = f[i],
         g[n + 1] = v
  PROVE  SumFunctionOnSet(g, 1 .. (n + 1)) = SumFunctionOnSet(f, 1 .. n) + v
<1>1. /\ IsFiniteSet(1 .. (n + 1)) /\ IsFiniteSet(1 .. n)
      /\ n + 1 \in 1 .. (n + 1) /\ (1 .. (n + 1)) \ {n + 1} = 1 .. n
  <2>1. IsFiniteSet(1 .. (n + 1)) /\ IsFiniteSet(1 .. n)
    BY FS_Interval
  <2>2. n + 1 \in 1 .. (n + 1) /\ (1 .. (n + 1)) \ {n + 1} = 1 .. n
    OBVIOUS
  <2> QED BY <2>1, <2>2
<1>2. \A i \in 1 .. (n + 1) : g[i] \in Int
  OBVIOUS
<1>3. SumFunctionOnSet(g, 1 .. (n + 1)) = g[n + 1] + SumFunctionOnSet(g, 1 .. n)
  <2>1. PICK S, x : S = 1 .. (n + 1) /\ x = n + 1 /\ x \in S /\ IsFiniteSet(S)
                    /\ S \ {x} = 1 .. n
    BY <1>1
  <2>2. \A i \in S : g[i] \in Int
    BY <1>2, <2>1
  <2>3. SumFunctionOnSet(g, S) = g[x] + SumFunctionOnSet(g, S \ {x})
    BY ONLY <2>1, <2>2, SumRemove
  <2> QED BY <2>1, <2>3
<1>4. SumFunctionOnSet(g, 1 .. n) = SumFunctionOnSet(f, 1 .. n)
  <2>1. \A i \in 1 .. n : f[i] \in Int /\ g[i] = f[i]
    OBVIOUS
  <2> QED BY ONLY <1>1, <2>1, SumSame
<1>5. SumFunctionOnSet(f, 1 .. n) \in Nat
  <2>1. \A i \in 1 .. n : f[i] \in Nat
    OBVIOUS
  <2> QED BY ONLY <1>1, <2>1, SumNat
<1> QED BY <1>3, <1>4, <1>5

LEMMA LogGrows ==
  ASSUME trajectories \in Seq(Trajectory), NEW run \in Trajectory,
         trajectories' = Append(trajectories, run)
  PROVE  /\ \A a \in Accounts :
              LogSum(Earned(a, trajectories'), trajectories')
                = LogSum(Earned(a, trajectories), trajectories)
                  + IF run.contributor = a THEN run.paid ELSE 0
         /\ \A a \in Accounts :
              LogSum(Scored(a, trajectories'), trajectories')
                = LogSum(Scored(a, trajectories), trajectories)
                  + IF run.contributor = a THEN run.score ELSE 0
         /\ \A a \in Accounts, t \in TaskIds :
              LogSum(ScoredOn(t, a, trajectories'), trajectories')
                = LogSum(ScoredOn(t, a, trajectories), trajectories)
                  + IF run.taskId = t /\ run.contributor = a THEN run.score ELSE 0
<1>1. PICK n \in Nat : n = Len(trajectories)
  BY LenProperties
<1>2. /\ DOMAIN trajectories = 1 .. n /\ DOMAIN trajectories' = 1 .. (n + 1)
      /\ trajectories'[n + 1] = run /\ \A i \in 1 .. n : trajectories'[i] = trajectories[i]
  BY <1>1
<1>3. \A i \in 1 .. n : trajectories[i].paid \in Nat /\ trajectories[i].score \in Nat
  <2>1. \A i \in 1 .. n : trajectories[i] \in Trajectory
    BY <1>1, ElementOfSeq
  <2> QED BY <2>1 DEF Trajectory
<1>4. run.paid \in Nat /\ run.score \in Nat
  BY DEF Trajectory
<1>5. ASSUME NEW a \in Accounts
      PROVE  LogSum(Earned(a, trajectories'), trajectories')
        = LogSum(Earned(a, trajectories), trajectories) + IF run.contributor = a THEN run.paid ELSE 0
  <2>1. PICK f, g, v : /\ f = Earned(a, trajectories) /\ g = Earned(a, trajectories')
                       /\ v = IF run.contributor = a THEN run.paid ELSE 0
    OBVIOUS
  <2>2. v \in Nat /\ g[n + 1] = v
    BY <1>2, <1>4, <2>1 DEF Earned
  <2>3. \A i \in 1 .. n : f[i] \in Nat /\ g[i] = f[i]
    BY <1>2, <1>3, <2>1 DEF Earned
  <2>4. SumFunctionOnSet(g, 1 .. (n + 1)) = SumFunctionOnSet(f, 1 .. n) + v
    BY ONLY n \in Nat, <2>2, <2>3, LogSumGrows
  <2> QED BY <1>2, <2>1, <2>4, Zenon DEF LogSum
<1>6. ASSUME NEW a \in Accounts
      PROVE  LogSum(Scored(a, trajectories'), trajectories')
        = LogSum(Scored(a, trajectories), trajectories) + IF run.contributor = a THEN run.score ELSE 0
  <2>1. PICK f, g, v : /\ f = Scored(a, trajectories) /\ g = Scored(a, trajectories')
                       /\ v = IF run.contributor = a THEN run.score ELSE 0
    OBVIOUS
  <2>2. v \in Nat /\ g[n + 1] = v
    BY <1>2, <1>4, <2>1 DEF Scored
  <2>3. \A i \in 1 .. n : f[i] \in Nat /\ g[i] = f[i]
    BY <1>2, <1>3, <2>1 DEF Scored
  <2>4. SumFunctionOnSet(g, 1 .. (n + 1)) = SumFunctionOnSet(f, 1 .. n) + v
    BY ONLY n \in Nat, <2>2, <2>3, LogSumGrows
  <2> QED BY <1>2, <2>1, <2>4, Zenon DEF LogSum
<1>7. ASSUME NEW a \in Accounts, NEW t \in TaskIds
      PROVE  LogSum(ScoredOn(t, a, trajectories'), trajectories')
        = LogSum(ScoredOn(t, a, trajectories), trajectories)
          + IF run.taskId = t /\ run.contributor = a THEN run.score ELSE 0
  <2>1. PICK f, g, v : /\ f = ScoredOn(t, a, trajectories) /\ g = ScoredOn(t, a, trajectories')
                       /\ v = IF run.taskId = t /\ run.contributor = a THEN run.score ELSE 0
    OBVIOUS
  <2>2. v \in Nat /\ g[n + 1] = v
    BY <1>2, <1>4, <2>1 DEF ScoredOn
  <2>3. \A i \in 1 .. n : f[i] \in Nat /\ g[i] = f[i]
    BY <1>2, <1>3, <2>1 DEF ScoredOn
  <2>4. SumFunctionOnSet(g, 1 .. (n + 1)) = SumFunctionOnSet(f, 1 .. n) + v
    BY ONLY n \in Nat, <2>2, <2>3, LogSumGrows
  <2> QED BY <1>2, <2>1, <2>4, Zenon DEF LogSum
<1> QED BY <1>5, <1>6, <1>7

LEMMA NextBooks ==
  ASSUME TypeOK, Books, [Next]_vars
  PROVE  Books'
<1>1. CASE UNCHANGED runVars
  BY <1>1 DEF Books, runVars
<1>2. ASSUME NEW t \in TaskIds, NEW who \in Accounts, NEW h \in Hashes, NEW s \in Scores,
             SubmitTrajectory(t, who, h, s)
      PROVE  Books'
  <2>1. s \in Nat
    BY ProtocolAssumption
  <2>2. PICK pay \in Nat : pay = Payout(t, s)
    BY <2>1, PayoutType
  <2>3. PICK run \in Trajectory :
          /\ run.taskId = t /\ run.contributor = who /\ run.paid = pay /\ run.score = s
          /\ trajectories' = Append(trajectories, run)
    <3>1. [taskId |-> t, contributor |-> who, trajHash |-> h, score |-> s, paid |-> pay]
             \in Trajectory
      BY <2>1 DEF Trajectory
    <3> QED BY <1>2, <2>2, <3>1 DEF SubmitTrajectory
  <2>4. \A a \in Accounts :
          /\ LogSum(Earned(a, trajectories'), trajectories')
               = LogSum(Earned(a, trajectories), trajectories) + IF who = a THEN pay ELSE 0
          /\ LogSum(Scored(a, trajectories'), trajectories')
               = LogSum(Scored(a, trajectories), trajectories) + IF who = a THEN s ELSE 0
          /\ \A u \in TaskIds :
               LogSum(ScoredOn(u, a, trajectories'), trajectories')
                 = LogSum(ScoredOn(u, a, trajectories), trajectories)
                   + IF t = u /\ who = a THEN s ELSE 0
    <3>1. trajectories \in Seq(Trajectory)
      BY DEF TypeOK
    <3>2. /\ \A a \in Accounts :
               LogSum(Earned(a, trajectories'), trajectories')
                 = LogSum(Earned(a, trajectories), trajectories)
                   + IF run.contributor = a THEN run.paid ELSE 0
          /\ \A a \in Accounts :
               LogSum(Scored(a, trajectories'), trajectories')
                 = LogSum(Scored(a, trajectories), trajectories)
                   + IF run.contributor = a THEN run.score ELSE 0
          /\ \A a \in Accounts, u \in TaskIds :
               LogSum(ScoredOn(u, a, trajectories'), trajectories')
                 = LogSum(ScoredOn(u, a, trajectories), trajectories)
                   + IF run.taskId = u /\ run.contributor = a THEN run.score ELSE 0
      BY <2>3, <3>1, LogGrows, Zenon
    <3> QED BY ONLY <2>3, <3>2, Zenon
  <2>5. \A a \in Accounts :
          /\ stats'[a].earned = stats[a].earned + IF who = a THEN pay ELSE 0
          /\ stats'[a].score = stats[a].score + IF who = a THEN s ELSE 0
          /\ stats'[a].runs = stats[a].runs + IF who = a THEN 1 ELSE 0
    <3>1. stats' = [stats EXCEPT ![who] = WithRun(@, pay, s)]
      BY <1>2, <2>2 DEF SubmitTrajectory
    <3>2. \A a \in Accounts : /\ stats[a].earned \in Nat /\ stats[a].score \in Nat
                              /\ stats[a].runs \in Nat
      BY DEF TypeOK
    <3>3. stats \in [Accounts -> [runs : Nat, earned : Nat, score : Nat]]
      BY DEF TypeOK
    <3> QED BY <3>1, <3>2, <3>3 DEF WithRun
  <2>6. \A a \in Accounts, u \in TaskIds :
          weightOnTask'[u][a] = weightOnTask[u][a] + IF t = u /\ who = a THEN s ELSE 0
    <3>1. weightOnTask' = [weightOnTask EXCEPT ![t][who] = @ + s]
      BY <1>2 DEF SubmitTrajectory
    <3>2. weightOnTask \in [TaskIds -> [Accounts -> Nat]]
      BY DEF TypeOK
    <3> QED BY <2>1, <3>1, <3>2
  <2>7. \A a \in Accounts :
          Len(byContributor'[a]) = Len(byContributor[a]) + IF who = a THEN 1 ELSE 0
    <3>1. PICK id \in Nat : byContributor' = [byContributor EXCEPT ![who] = Append(@, id)]
      BY <1>2, LenProperties DEF SubmitTrajectory, TypeOK
    <3>2. byContributor \in [Accounts -> Seq(Nat)]
      BY DEF TypeOK
    <3>3. \A q \in Seq(Nat) : Len(q) \in Nat /\ Len(Append(q, id)) = Len(q) + 1
      BY LenProperties
    <3> QED BY <3>1, <3>2, <3>3
  <2> SUFFICES ASSUME NEW a \in Accounts
               PROVE  /\ stats'[a].earned = LogSum(Earned(a, trajectories'), trajectories')
                      /\ stats'[a].score = LogSum(Scored(a, trajectories'), trajectories')
                      /\ stats'[a].runs = Len(byContributor'[a])
                      /\ \A u \in TaskIds :
                           weightOnTask'[u][a]
                             = LogSum(ScoredOn(u, a, trajectories'), trajectories')
    BY DEF Books, LogSum, Earned, Scored, ScoredOn
  <2>8. /\ stats[a].earned = LogSum(Earned(a, trajectories), trajectories)
        /\ stats[a].score = LogSum(Scored(a, trajectories), trajectories)
        /\ stats[a].runs = Len(byContributor[a])
        /\ \A u \in TaskIds :
             weightOnTask[u][a] = LogSum(ScoredOn(u, a, trajectories), trajectories)
    BY DEF Books
  <2>9. stats'[a].earned = LogSum(Earned(a, trajectories'), trajectories')
    BY <2>4, <2>5, <2>8, Zenon
  <2>10. stats'[a].score = LogSum(Scored(a, trajectories'), trajectories')
    BY <2>4, <2>5, <2>8, Zenon
  <2>11. stats'[a].runs = Len(byContributor'[a])
    BY <2>5, <2>7, <2>8, Zenon
  <2>12. \A u \in TaskIds :
           weightOnTask'[u][a] = LogSum(ScoredOn(u, a, trajectories'), trajectories')
    BY <2>4, <2>6, <2>8, Zenon
  <2> QED BY <2>9, <2>10, <2>11, <2>12
<1> QED BY <1>1, <1>2, OnlySubmitRecords

LEMMA InitBooks == Init => Books
<1> SUFFICES ASSUME Init PROVE Books
  OBVIOUS
<1>1. trajectories = <<>> /\ DOMAIN trajectories = {}
  BY DEF Init
<1>2. \A f : LogSum(f, trajectories) = 0
  BY <1>1, SumEmpty DEF LogSum
<1>3. \A a \in Accounts : /\ stats[a].earned = 0 /\ stats[a].score = 0 /\ stats[a].runs = 0
                          /\ Len(byContributor[a]) = 0
                          /\ \A t \in TaskIds : weightOnTask[t][a] = 0
  BY DEF Init
<1> QED BY <1>2, <1>3 DEF Books

(* What the contract says an operator earned and scored, and the weight a  *)
(* later cap table is made of, are sums over the log of paid runs.         *)
THEOREM SpecBooksAgree == Spec => []BooksAgree
<1>1. MoneyInv => TypeOK
  BY DEF MoneyInv
<1> QED BY <1>1, InitMoney, NextMoney, InitBooks, NextBooks, BooksAreBooksAgree, PTL DEF Spec

-----------------------------------------------------------------------------
(* Who is on a cap table                                                   *)

(* The contributors of a task are exactly the accounts with a weight on    *)
(* it, each once, and there is one as soon as there is a run: _record adds *)
(* an operator when its weight is zero, and no accepted score is zero.     *)
ContributorsInv ==
  \A t \in TaskIds :
    /\ \A i \in DOMAIN taskContributors[t] : weightOnTask[t][taskContributors[t][i]] # 0
    /\ \A a \in Accounts : weightOnTask[t][a] # 0 =>
         \E i \in DOMAIN taskContributors[t] : taskContributors[t][i] = a
    /\ \A i, j \in DOMAIN taskContributors[t] :
         taskContributors[t][i] = taskContributors[t][j] => i = j
    /\ taskTrajectories[t] # <<>> => taskContributors[t] # <<>>

LEMMA SubmitTrajectoryContributors ==
  ASSUME TypeOK, ContributorsInv, NEW t \in TaskIds, NEW who \in Accounts, NEW h \in Hashes,
         NEW score \in Scores, SubmitTrajectory(t, who, h, score)
  PROVE  ContributorsInv'
<1>1. score \in Nat /\ score # 0
  BY ProtocolAssumption DEF SubmitTrajectory
<1>2. /\ weightOnTask \in [TaskIds -> [Accounts -> Nat]]
      /\ taskContributors \in [TaskIds -> Seq(Accounts)]
      /\ taskTrajectories \in [TaskIds -> Seq(Nat)]
  BY DEF TypeOK
<1>3. weightOnTask' = [weightOnTask EXCEPT ![t][who] = @ + score]
  BY DEF SubmitTrajectory
<1>4. PICK w \in [Accounts -> Nat], cs \in Seq(Accounts) :
        w = weightOnTask[t] /\ cs = taskContributors[t]
  BY <1>2
<1>5. PICK w2 : /\ w2 = weightOnTask'[t]
                /\ w2[who] = w[who] + score
                /\ \A a \in Accounts : a # who => w2[a] = w[a]
  <2>1. weightOnTask' = [weightOnTask EXCEPT ![t] = [weightOnTask[t] EXCEPT ![who] = @ + score]]
    BY <1>2, <1>3
  <2>2. weightOnTask'[t] = [w EXCEPT ![who] = @ + score]
    BY <1>2, <1>4, <2>1
  <2> QED BY <2>2
<1>6. w2[who] # 0 /\ \A a \in Accounts : w[a] # 0 => w2[a] # 0
  <2>1. w[who] \in Nat
    OBVIOUS
  <2>2. w2[who] # 0
    BY ONLY <1>1, <1>5, <2>1
  <2> QED BY <1>5, <2>2
<1>7. /\ \A i \in DOMAIN cs : w[cs[i]] # 0
      /\ \A a \in Accounts : w[a] # 0 => \E i \in DOMAIN cs : cs[i] = a
      /\ \A i, j \in DOMAIN cs : cs[i] = cs[j] => i = j
  BY <1>4 DEF ContributorsInv
<1>8. PICK cs2 \in Seq(Accounts) :
        /\ cs2 = taskContributors'[t]
        /\ w[who] = 0 => cs2 = Append(cs, who)
        /\ w[who] # 0 => cs2 = cs
  <2>1. Append(cs, who) \in Seq(Accounts)
    OBVIOUS
  <2>2. CASE w[who] = 0
    <3>1. taskContributors' = [taskContributors EXCEPT ![t] = Append(@, who)]
      BY <1>4, <2>2 DEF SubmitTrajectory, IsNewContributor
    <3> QED BY <1>2, <1>4, <2>1, <2>2, <3>1
  <2>3. CASE w[who] # 0
    <3>1. taskContributors' = taskContributors
      BY <1>4, <2>3 DEF SubmitTrajectory, IsNewContributor
    <3> QED BY <1>4, <2>3, <3>1
  <2> QED BY <2>2, <2>3
<1>9. /\ \A i \in DOMAIN cs2 : w2[cs2[i]] # 0
      /\ \A a \in Accounts : w2[a] # 0 => \E i \in DOMAIN cs2 : cs2[i] = a
      /\ \A i, j \in DOMAIN cs2 : cs2[i] = cs2[j] => i = j
      /\ cs2 # <<>>
  <2>1. PICK n \in Nat : n = Len(cs) /\ DOMAIN cs = 1 .. n
    BY LenProperties
  <2>2. CASE w[who] = 0
    <3>1. /\ DOMAIN cs2 = 1 .. (n + 1) /\ cs2[n + 1] = who
          /\ \A i \in 1 .. n : cs2[i] = cs[i] /\ cs[i] \in Accounts
      BY <1>8, <2>1, <2>2
    <3>2. \A i \in 1 .. n : cs[i] # who
      BY <1>7, <2>1, <2>2
    <3>3. \A i \in 1 .. (n + 1) : i = n + 1 \/ i \in 1 .. n
      OBVIOUS
    <3>4. n + 1 \in 1 .. (n + 1) /\ \A i \in 1 .. n : i \in 1 .. (n + 1)
      OBVIOUS
    <3>5. \A i \in DOMAIN cs2 : w2[cs2[i]] # 0
      BY <1>6, <1>7, <2>1, <3>1, <3>3
    <3>6. \A a \in Accounts : w2[a] # 0 => \E i \in DOMAIN cs2 : cs2[i] = a
      BY <1>5, <1>7, <2>1, <3>1, <3>4
    <3>7. \A i, j \in DOMAIN cs2 : cs2[i] = cs2[j] => i = j
      BY <1>7, <2>1, <3>1, <3>2, <3>3
    <3>8. cs2 # <<>>
      BY <3>1, <3>4
    <3> QED BY <3>5, <3>6, <3>7, <3>8
  <2>3. CASE w[who] # 0
    <3>1. cs2 = cs /\ \A i \in DOMAIN cs : cs[i] \in Accounts
      BY <1>8, <2>3
    <3>2. PICK i \in DOMAIN cs : cs[i] = who
      BY <1>7, <2>3
    <3>3. cs2 # <<>>
      BY <3>1, <3>2
    <3>4. \A a \in Accounts : w2[a] # 0 => w[a] # 0
      BY <1>5, <2>3
    <3> QED BY <1>6, <1>7, <3>1, <3>3, <3>4
  <2> QED BY <2>2, <2>3
<1>10. \A u \in TaskIds : u # t => /\ weightOnTask'[u] = weightOnTask[u]
                                   /\ taskContributors'[u] = taskContributors[u]
                                   /\ taskTrajectories'[u] = taskTrajectories[u]
  <2>1. taskContributors' \in {[taskContributors EXCEPT ![t] = Append(@, who)], taskContributors}
    BY DEF SubmitTrajectory
  <2>2. PICK id : taskTrajectories' = [taskTrajectories EXCEPT ![t] = Append(@, id)]
    BY DEF SubmitTrajectory
  <2> QED BY <1>2, <1>3, <2>1, <2>2
<1> SUFFICES ASSUME NEW u \in TaskIds
    PROVE  /\ \A i \in DOMAIN taskContributors'[u] :
                weightOnTask'[u][taskContributors'[u][i]] # 0
           /\ \A a \in Accounts : weightOnTask'[u][a] # 0 =>
                \E i \in DOMAIN taskContributors'[u] : taskContributors'[u][i] = a
           /\ \A i, j \in DOMAIN taskContributors'[u] :
                taskContributors'[u][i] = taskContributors'[u][j] => i = j
           /\ taskTrajectories'[u] # <<>> => taskContributors'[u] # <<>>
  BY DEF ContributorsInv
<1>11. CASE u = t
  BY <1>5, <1>8, <1>9, <1>11, Zenon
<1>12. CASE u # t
  <2>1. /\ weightOnTask'[u] = weightOnTask[u] /\ taskContributors'[u] = taskContributors[u]
        /\ taskTrajectories'[u] = taskTrajectories[u]
    BY <1>10, <1>12
  <2>2. /\ \A i \in DOMAIN taskContributors[u] : weightOnTask[u][taskContributors[u][i]] # 0
        /\ \A a \in Accounts : weightOnTask[u][a] # 0 =>
             \E i \in DOMAIN taskContributors[u] : taskContributors[u][i] = a
        /\ \A i, j \in DOMAIN taskContributors[u] :
             taskContributors[u][i] = taskContributors[u][j] => i = j
        /\ taskTrajectories[u] # <<>> => taskContributors[u] # <<>>
    BY DEF ContributorsInv
  <2> QED BY ONLY <2>1, <2>2, Zenon
<1> QED BY <1>11, <1>12

LEMMA NextContributors ==
  ASSUME TypeOK, ContributorsInv, [Next]_vars
  PROVE  ContributorsInv'
<1>1. CASE UNCHANGED runVars
  BY <1>1 DEF ContributorsInv, runVars
<1>2. ASSUME NEW t \in TaskIds, NEW a \in Accounts, NEW h \in Hashes, NEW s \in Scores,
             SubmitTrajectory(t, a, h, s)
      PROVE  ContributorsInv'
  BY <1>2, SubmitTrajectoryContributors
<1> QED BY <1>1, <1>2, OnlySubmitRecords

LEMMA InitContributors == Init => ContributorsInv
BY DEF Init, ContributorsInv

-----------------------------------------------------------------------------
(* Cap tables                                                              *)

Weighed(cs, w) == SumFunctionOnSet([i \in DOMAIN cs |-> w[cs[i]]], DOMAIN cs)

(* What a policy says of itself, whatever happens to its task.             *)
SoundTable(p) == /\ p.capTotal = Weighed(p.capTable, p.capWeight)
                 /\ p.capTotal # 0
                 /\ p.distributed = p.licencesSold * Handed(p)

(* The table is frozen by copying; it stays equal to the task's books      *)
(* because a task with a policy takes no run.                              *)
PolicyInv ==
  \A id \in DOMAIN policies :
    /\ policyOfTask[policies[id].taskId] = id
    /\ tasks[policies[id].taskId].policyMinted
    /\ policies[id].capTable = taskContributors[policies[id].taskId]
    /\ policies[id].capWeight = weightOnTask[policies[id].taskId]
    /\ SoundTable(policies[id])

LEMMA PolicyKept ==
  ASSUME TypeOK, PolicyInv, policies' = policies, policyOfTask' = policyOfTask,
         \A t \in TaskIds : tasks[t].policyMinted =>
           /\ tasks'[t].policyMinted
           /\ taskContributors'[t] = taskContributors[t]
           /\ weightOnTask'[t] = weightOnTask[t]
  PROVE  PolicyInv'
<1> SUFFICES ASSUME NEW id \in DOMAIN policies
    PROVE  /\ policyOfTask[policies[id].taskId] = id
           /\ tasks'[policies[id].taskId].policyMinted
           /\ policies[id].capTable = taskContributors'[policies[id].taskId]
           /\ policies[id].capWeight = weightOnTask'[policies[id].taskId]
           /\ SoundTable(policies[id])
  BY DEF PolicyInv
<1>1. PICK p \in Policy : p = policies[id]
  BY ElementOfSeq DEF TypeOK
<1>2. p.taskId \in TaskIds
  BY DEF Policy
<1>3. /\ policyOfTask[p.taskId] = id /\ tasks[p.taskId].policyMinted
      /\ p.capTable = taskContributors[p.taskId] /\ p.capWeight = weightOnTask[p.taskId]
      /\ SoundTable(p)
  BY <1>1 DEF PolicyInv
<1> QED BY <1>1, <1>2, <1>3, Zenon

(* A full task has a run, so a contributor, so a table whose total is not  *)
(* zero: licensePolicy never divides by zero.                              *)
LEMMA FullTableWeighs ==
  ASSUME MoneyInv, SlotInv, PostedWell, ContributorsInv, NEW t \in TaskIds, Exists(t),
         FilledOf(t) >= tasks[t].slotsTotal
  PROVE  Weighed(taskContributors[t], weightOnTask[t]) # 0
<1>1. TypeOK
  BY DEF MoneyInv
<1>2. PICK cs \in Seq(Accounts), w \in [Accounts -> Nat], q \in Seq(Nat), n \in Nat :
        /\ cs = taskContributors[t] /\ w = weightOnTask[t]
        /\ q = taskTrajectories[t] /\ n = tasks[t].slotsTotal
  BY <1>1 DEF TypeOK, Task
<1>3. q # <<>>
  <2>1. n # 0 /\ Len(q) >= n
    BY <1>2 DEF PostedWell, SlotInv, CountersCountRuns
  <2>2. Len(q) # 0
    BY <2>1, LenProperties
  <2> QED BY <2>2
<1>4. cs # <<>> /\ \A i \in DOMAIN cs : w[cs[i]] # 0
  BY <1>2, <1>3 DEF ContributorsInv
<1>5. 1 \in DOMAIN cs /\ IsFiniteSet(DOMAIN cs) /\ \A i \in DOMAIN cs : cs[i] \in Accounts
  <2>1. DOMAIN cs = 1 .. Len(cs) /\ Len(cs) \in Nat /\ Len(cs) # 0
    BY <1>4, EmptySeq, LenProperties
  <2>2. IsFiniteSet(DOMAIN cs)
    <3>1. PICK m \in Nat : DOMAIN cs = 1 .. m
      BY ONLY <2>1, Zenon
    <3>2. IsFiniteSet(1 .. m)
      BY FS_Interval
    <3> QED BY <3>1, <3>2
  <2>3. 1 \in DOMAIN cs
    <3>1. Len(cs) \in Nat \ {0}
      BY ONLY <2>1, Zenon
    <3>2. 1 \in 1 .. Len(cs)
      BY ONLY <3>1
    <3> QED BY ONLY <2>1, <3>2, Zenon
  <2>4. \A i \in DOMAIN cs : cs[i] \in Accounts
    BY ElementOfSeq, <2>1
  <2> QED BY <2>2, <2>3, <2>4
<1>6. PICK f : f = [i \in DOMAIN cs |-> w[cs[i]]]
  OBVIOUS
<1>7. \A i \in DOMAIN cs : f[i] \in Nat /\ f[i] # 0
  BY <1>4, <1>5, <1>6
<1>8. f[1] <= SumFunctionOnSet(f, DOMAIN cs)
  BY <1>5, <1>7, SumMember
<1>9. SumFunctionOnSet(f, DOMAIN cs) \in Nat
  BY <1>5, <1>7, SumNat
<1>10. f[1] \in Nat /\ f[1] # 0
  BY <1>5, <1>7
<1>11. SumFunctionOnSet(f, DOMAIN cs) # 0
  BY ONLY <1>8, <1>9, <1>10
<1> QED BY <1>2, <1>6, <1>11 DEF Weighed

LEMMA MintPolicyFreezes ==
  ASSUME MoneyInv, SlotInv, PostedWell, ContributorsInv, PolicyInv,
         NEW t \in TaskIds, NEW fee \in Fees, MintPolicy(t, fee)
  PROVE  PolicyInv'
<1>1. TypeOK /\ Unposted /\ fee \in Nat /\ policies \in Seq(Policy)
      /\ tasks \in [TaskIds -> Task] /\ policyOfTask \in [TaskIds -> Nat]
  BY ProtocolAssumption DEF MoneyInv, TypeOK
<1>2. PICK cs \in Seq(Accounts), w \in [Accounts -> Nat] :
        cs = taskContributors[t] /\ w = weightOnTask[t]
  BY <1>1 DEF TypeOK
<1>3. PICK k \in Nat : k = Weighed(cs, w) /\ k # 0
  <2>1. PICK f : f = [i \in DOMAIN cs |-> w[cs[i]]]
    OBVIOUS
  <2>2. IsFiniteSet(DOMAIN cs) /\ \A i \in DOMAIN cs : f[i] \in Nat
    BY <2>1, FS_Interval
  <2>3. Weighed(cs, w) \in Nat
    BY <2>1, <2>2, SumNat DEF Weighed
  <2>4. Weighed(cs, w) # 0
    BY <1>2, FullTableWeighs DEF MintPolicy
  <2> QED BY <2>3, <2>4
<1>4. PICK minter \in Accounts : minter = tasks[t].funder
  BY <1>1 DEF Unposted, MintPolicy
<1>5. [a \in Accounts |-> IF a \in Range(cs) THEN w[a] ELSE 0] = w
  <2>1. \A a \in Accounts : a \notin Range(cs) => w[a] = 0
    BY <1>2 DEF ContributorsInv, Range
  <2> QED BY <2>1
<1>6. PICK new \in Policy :
        /\ new.taskId = t /\ new.capTable = cs /\ new.capWeight = w /\ new.capTotal = k
        /\ new.licencesSold = 0 /\ new.distributed = 0
        /\ policies' = Append(policies, new)
  <2> DEFINE rec == [taskId |-> t, minter |-> minter, licenceFee |-> fee,
                     licencesSold |-> 0, distributed |-> 0, licensed |-> {},
                     capTable |-> cs, capWeight |-> w, capTotal |-> k]
  <2>1. rec \in Policy
    BY <1>1 DEF Policy
  <2>2. policies' = Append(policies, rec)
    BY <1>2, <1>3, <1>4, <1>5 DEF MintPolicy, Weighed
  <2> QED BY <2>1, <2>2
<1>7. SoundTable(new)
  <2>1. Handed(new) \in Nat
    BY <1>3, <1>6, CutsType
  <2> QED BY <1>3, <1>6, <2>1 DEF SoundTable
<1>8. PICK n \in Nat : n = Len(policies) /\ DOMAIN policies = 1 .. n
  BY <1>1, LenProperties
<1>9. /\ DOMAIN policies' = 1 .. (n + 1) /\ policies'[n + 1] = new
      /\ \A i \in 1 .. n : policies'[i] = policies[i]
  BY <1>1, <1>6, <1>8
<1>10. /\ tasks'[t].policyMinted
       /\ \A u \in TaskIds : u # t => tasks'[u] = tasks[u]
       /\ policyOfTask' = [policyOfTask EXCEPT ![t] = n + 1]
       /\ ~ tasks[t].policyMinted
       /\ taskContributors' = taskContributors /\ weightOnTask' = weightOnTask
  <2>1. tasks' = [tasks EXCEPT ![t].policyMinted = TRUE]
    BY DEF MintPolicy
  <2>2. tasks'[t].policyMinted
    BY <1>1, <2>1 DEF Task
  <2> QED BY <1>1, <1>8, <2>1, <2>2 DEF MintPolicy, runVars
<1> SUFFICES ASSUME NEW id \in 1 .. (n + 1)
    PROVE  /\ policyOfTask'[policies'[id].taskId] = id
           /\ tasks'[policies'[id].taskId].policyMinted
           /\ policies'[id].capTable = taskContributors[policies'[id].taskId]
           /\ policies'[id].capWeight = weightOnTask[policies'[id].taskId]
           /\ SoundTable(policies'[id])
  BY <1>9, <1>10 DEF PolicyInv
<1>11. CASE id = n + 1
  BY <1>1, <1>2, <1>6, <1>7, <1>9, <1>10, <1>11
<1>12. CASE id \in 1 .. n
  <2>1. PICK p \in Policy : p = policies[id]
    BY <1>1, <1>8, <1>12, ElementOfSeq
  <2>2. p.taskId \in TaskIds
    BY DEF Policy
  <2>3. /\ policyOfTask[p.taskId] = id /\ tasks[p.taskId].policyMinted
        /\ p.capTable = taskContributors[p.taskId] /\ p.capWeight = weightOnTask[p.taskId]
        /\ SoundTable(p)
    BY <1>8, <1>12, <2>1 DEF PolicyInv
  <2>4. p.taskId # t
    BY <1>10, <2>3
  <2>5. policyOfTask'[p.taskId] = id /\ tasks'[p.taskId] = tasks[p.taskId]
    BY <1>1, <1>10, <2>2, <2>3, <2>4
  <2> QED BY <1>9, <1>12, <2>1, <2>3, <2>5
<1> QED BY <1>11, <1>12

LEMMA LicensePolicyKeepsTables ==
  ASSUME TypeOK, PolicyInv, NEW id \in DOMAIN policies, NEW b \in Accounts, NEW l \in Accounts,
         LicensePolicy(id, b, l)
  PROVE  PolicyInv'
<1>1. PICK p \in Policy : p = policies[id]
  BY ElementOfSeq DEF TypeOK
<1>2. PICK q : q = WithLicence(p, l)
  OBVIOUS
<1>3. /\ policies' = [policies EXCEPT ![id] = q]
      /\ UNCHANGED taskVars /\ UNCHANGED runVars /\ policyOfTask' = policyOfTask
  BY <1>1, <1>2 DEF LicensePolicy
<1>4. /\ policyOfTask[p.taskId] = id /\ tasks[p.taskId].policyMinted
      /\ p.capTable = taskContributors[p.taskId] /\ p.capWeight = weightOnTask[p.taskId]
      /\ SoundTable(p)
  BY <1>1 DEF PolicyInv
<1>5. Handed(p) \in Nat /\ p.licencesSold \in Nat /\ p.distributed \in Nat
  BY <1>4, CutsType DEF SoundTable, Policy
<1>6. /\ q.taskId = p.taskId /\ q.capTable = p.capTable /\ q.capWeight = p.capWeight
      /\ q.capTotal = p.capTotal /\ q.licenceFee = p.licenceFee
      /\ q.licencesSold = p.licencesSold + 1 /\ q.distributed = p.distributed + Handed(p)
  <2>1. PICK n, d, s : /\ n = p.licencesSold + 1 /\ d = p.distributed + Handed(p)
                       /\ s = p.licensed \cup {l}
    OBVIOUS
  <2>2. q = [p EXCEPT !.licencesSold = n, !.distributed = d, !.licensed = s]
    BY <1>2, <2>1, Zenon DEF WithLicence
  <2> QED BY <2>1, <2>2 DEF Policy
<1>7. Handed(q) = Handed(p)
  BY <1>6 DEF Handed, Cuts, Pool
<1>8. SoundTable(q)
  <2>1. PICK n \in Nat, m \in Nat : n = p.licencesSold /\ m = Handed(p)
    BY <1>5
  <2>2. p.distributed = n * m
    BY <1>4, <2>1 DEF SoundTable
  <2>3. n * m + m = (n + 1) * m
    OBVIOUS
  <2> QED BY <1>4, <1>6, <1>7, <2>1, <2>2, <2>3 DEF SoundTable
<1>9. /\ DOMAIN policies' = DOMAIN policies /\ policies'[id] = q
      /\ \A i \in DOMAIN policies : i # id => policies'[i] = policies[i]
  BY <1>3 DEF TypeOK
<1>10. /\ tasks' = tasks /\ taskContributors' = taskContributors
       /\ weightOnTask' = weightOnTask
  BY <1>3 DEF taskVars, runVars
<1> SUFFICES ASSUME NEW i \in DOMAIN policies
    PROVE  /\ policyOfTask[policies'[i].taskId] = i
           /\ tasks[policies'[i].taskId].policyMinted
           /\ policies'[i].capTable = taskContributors[policies'[i].taskId]
           /\ policies'[i].capWeight = weightOnTask[policies'[i].taskId]
           /\ SoundTable(policies'[i])
  BY <1>3, <1>9, <1>10 DEF PolicyInv
<1>11. CASE i = id
  BY <1>4, <1>6, <1>8, <1>9, <1>11
<1>12. CASE i # id
  BY <1>9, <1>12 DEF PolicyInv
<1> QED BY <1>11, <1>12

TableInv == MoneyInv /\ SlotInv /\ PostedWell /\ ContributorsInv /\ PolicyInv

LEMMA NextTables ==
  ASSUME TableInv, [Next]_vars
  PROVE  PolicyInv'
<1>0. /\ TypeOK /\ Unposted /\ PolicyInv /\ tasks \in [TaskIds -> Task]
      /\ taskContributors \in [TaskIds -> Seq(Accounts)]
      /\ weightOnTask \in [TaskIds -> [Accounts -> Nat]]
  BY DEF TableInv, MoneyInv, TypeOK
<1>1. ASSUME NEW f \in Accounts, NEW n \in SlotCounts, NEW r \in Rewards,
             NEW d \in Deadlines, NEW x \in Amounts, CreateTask(f, n, r, d, x)
      PROVE  PolicyInv'
  <2>1. PICK new : tasks' = [tasks EXCEPT ![taskCount] = new]
    BY <1>1 DEF CreateTask
  <2>2. ASSUME NEW t \in TaskIds, tasks[t].policyMinted PROVE t # taskCount
    <3>1. taskCount \in Int
      BY <1>0 DEF TypeOK
    <3>2. EmptyTask.policyMinted = FALSE
      BY DEF EmptyTask
    <3>3. t < taskCount
      BY <1>0, <2>2, <3>2, Zenon DEF Unposted, Exists
    <3> QED BY <3>1, <3>3
  <2>3. \A t \in TaskIds : t # taskCount => tasks'[t] = tasks[t]
    BY <1>0, <2>1
  <2>4. UNCHANGED policyVars /\ UNCHANGED runVars
    BY <1>1 DEF CreateTask
  <2> QED BY <1>0, <2>2, <2>3, <2>4, PolicyKept DEF policyVars, runVars
<1>2. ASSUME NEW f \in Accounts, NEW u \in TaskIds, NEW x \in Amounts, FundTask(f, u, x)
      PROVE  PolicyInv'
  <2>1. \A t \in TaskIds : tasks'[t].policyMinted = tasks[t].policyMinted
    BY <1>0, <1>2 DEF FundTask, Task
  <2> QED BY <1>0, <1>2, <2>1, PolicyKept DEF FundTask, policyVars, runVars
<1>3. ASSUME NEW u \in TaskIds, CloseTask(u) PROVE PolicyInv'
  <2>1. \A t \in TaskIds : tasks'[t].policyMinted = tasks[t].policyMinted
    BY <1>0, <1>3 DEF CloseTask, Task
  <2> QED BY <1>0, <1>3, <2>1, PolicyKept DEF CloseTask, policyVars, runVars
<1>4. ASSUME NEW u \in TaskIds, NEW a \in Accounts, NEW h \in Hashes, NEW s \in Scores,
             SubmitTrajectory(u, a, h, s)
      PROVE  PolicyInv'
  <2>1. PICK pay : tasks' = [tasks EXCEPT ![u].escrow = @ - pay]
    BY <1>4 DEF SubmitTrajectory
  <2>2. /\ ~ tasks[u].policyMinted /\ UNCHANGED policyVars
        /\ weightOnTask' = [weightOnTask EXCEPT ![u][a] = @ + s]
        /\ taskContributors' \in {[taskContributors EXCEPT ![u] = Append(@, a)],
                                  taskContributors}
    BY <1>4 DEF SubmitTrajectory, AcceptsRuns
  <2>3. \A t \in TaskIds : t # u => /\ tasks'[t] = tasks[t]
                                    /\ weightOnTask'[t] = weightOnTask[t]
                                    /\ taskContributors'[t] = taskContributors[t]
    BY <1>0, <2>1, <2>2
  <2>4. \A t \in TaskIds : tasks[t].policyMinted =>
           /\ tasks'[t].policyMinted
           /\ taskContributors'[t] = taskContributors[t]
           /\ weightOnTask'[t] = weightOnTask[t]
    BY <2>2, <2>3
  <2> QED BY <1>0, <2>2, <2>4, PolicyKept DEF policyVars
<1>5. ASSUME NEW u \in TaskIds, NEW fee \in Fees, MintPolicy(u, fee) PROVE PolicyInv'
  BY <1>5, MintPolicyFreezes DEF TableInv
<1>6. ASSUME NEW id \in DOMAIN policies, NEW b \in Accounts, NEW l \in Accounts,
             LicensePolicy(id, b, l)
      PROVE  PolicyInv'
  BY <1>0, <1>6, LicensePolicyKeepsTables
<1>7. ASSUME UNCHANGED <<taskVars, runVars, policyVars>> PROVE PolicyInv'
  BY <1>0, <1>7, PolicyKept DEF taskVars, runVars, policyVars
<1>8. ASSUME NEW a \in Holders, Claim(a) PROVE UNCHANGED <<taskVars, runVars, policyVars>>
  BY <1>8 DEF Claim
<1>9. Tick => UNCHANGED <<taskVars, runVars, policyVars>>
  BY DEF Tick
<1>10. ASSUME NEW a \in Blockable, Blocklist(a) PROVE UNCHANGED <<taskVars, runVars, policyVars>>
  BY <1>10 DEF Blocklist
<1>11. UNCHANGED vars => UNCHANGED <<taskVars, runVars, policyVars>>
  BY DEF vars
<1> QED BY <1>1, <1>2, <1>3, <1>4, <1>5, <1>6, <1>7, <1>8, <1>9, <1>10, <1>11 DEF Next

LEMMA InitTables == Init => PolicyInv
BY DEF Init, PolicyInv

(* Weighing every contributor once is weighing every run of the task.      *)
LEMMA TableIsTheRuns ==
  ASSUME TypeOK, Books, ContributorsInv, NEW t \in TaskIds
  PROVE  Weighed(taskContributors[t], weightOnTask[t])
           = LogSum(AllScoredOn(t, trajectories), trajectories)
<1>1. PICK cs \in Seq(Accounts), w \in [Accounts -> Nat], log \in Seq(Trajectory) :
        cs = taskContributors[t] /\ w = weightOnTask[t] /\ log = trajectories
  BY DEF TypeOK
<1>2. /\ IsFiniteSet(DOMAIN cs) /\ IsFiniteSet(DOMAIN log) /\ IsFiniteSet(Accounts)
      /\ \A i \in DOMAIN cs : cs[i] \in Accounts
      /\ \A i \in DOMAIN log : log[i] \in Trajectory
  <2>1. IsFiniteSet(DOMAIN cs) /\ IsFiniteSet(DOMAIN log)
    BY FS_Interval
  <2>2. /\ \A i \in DOMAIN cs : cs[i] \in Accounts
        /\ \A i \in DOMAIN log : log[i] \in Trajectory
    BY ElementOfSeq
  <2> QED BY <2>1, <2>2, ProtocolAssumption
<1>3. PICK f : f = [i \in DOMAIN cs |-> w[cs[i]]]
  OBVIOUS
<1>4. SumFunctionOnSet(w, Accounts) = SumFunctionOnSet(f, DOMAIN cs)
  <2>1. \A i \in DOMAIN cs : f[i] \in Int /\ cs[i] \in Accounts
    BY <1>2, <1>3
  <2>2. PICK byAccount : byAccount = ClassSums(f, cs, DOMAIN cs, Accounts)
    OBVIOUS
  <2>3. SumFunctionOnSet(byAccount, Accounts) = SumFunctionOnSet(f, DOMAIN cs)
    BY <1>2, <2>1, <2>2, SumByClass
  <2>4. ASSUME NEW a \in Accounts PROVE byAccount[a] = w[a]
    <3>1. PICK g : g = [i \in DOMAIN cs |-> IF cs[i] = a THEN f[i] ELSE 0]
      OBVIOUS
    <3>2. byAccount[a] = SumFunctionOnSet(g, DOMAIN cs)
      BY <2>2, <3>1 DEF ClassSums
    <3>3. \A i \in DOMAIN cs : g[i] \in Int
      BY <2>1, <3>1
    <3>4. CASE w[a] = 0
      <4>1. \A i \in DOMAIN cs : g[i] = 0
        BY <1>3, <3>1, <3>4
      <4>2. SumFunctionOnSet(g, DOMAIN cs) = 0
        BY <1>2, <4>1, SumZero
      <4> QED BY <3>2, <3>4, <4>2
    <3>5. CASE w[a] # 0
      <4>1. PICK j \in DOMAIN cs : cs[j] = a
        BY <1>1, <3>5 DEF ContributorsInv
      <4>2. \A i \in DOMAIN cs : cs[i] = a => i = j
        BY <1>1, <4>1 DEF ContributorsInv
      <4>3. g[j] = w[a] /\ \A i \in DOMAIN cs \ {j} : g[i] = 0
        BY <1>3, <3>1, <4>1, <4>2
      <4>4. SumFunctionOnSet(g, DOMAIN cs) = g[j] + SumFunctionOnSet(g, DOMAIN cs \ {j})
        BY <1>2, <3>3, SumRemove
      <4>5. SumFunctionOnSet(g, DOMAIN cs \ {j}) = 0
        <5>1. IsFiniteSet(DOMAIN cs \ {j})
          BY <1>2, FS_Subset
        <5> QED BY <4>3, <5>1, SumZero
      <4>6. w[a] \in Nat
        OBVIOUS
      <4> QED BY <3>2, <4>3, <4>4, <4>5, <4>6
    <3> QED BY <3>4, <3>5
  <2>5. SumFunctionOnSet(w, Accounts) = SumFunctionOnSet(byAccount, Accounts)
    <3>1. \A a \in Accounts : byAccount[a] \in Int /\ w[a] = byAccount[a]
      BY <2>4
    <3> QED BY <1>2, <3>1, SumSame
  <2> QED BY <2>3, <2>5
<1>5. SumFunctionOnSet(w, Accounts) = LogSum(AllScoredOn(t, log), log)
  <2>1. PICK c, k : /\ c = AllScoredOn(t, log)
                    /\ k = [i \in DOMAIN log |-> log[i].contributor]
    OBVIOUS
  <2>2. \A i \in DOMAIN log : c[i] \in Int /\ k[i] \in Accounts
    BY <1>2, <2>1 DEF AllScoredOn, Trajectory
  <2>3. PICK byAccount : byAccount = ClassSums(c, k, DOMAIN log, Accounts)
    OBVIOUS
  <2>4. SumFunctionOnSet(byAccount, Accounts) = SumFunctionOnSet(c, DOMAIN log)
    BY <1>2, <2>2, <2>3, SumByClass
  <2>5. ASSUME NEW a \in Accounts PROVE byAccount[a] = w[a]
    <3>1. byAccount[a]
            = SumFunctionOnSet([i \in DOMAIN log |-> IF k[i] = a THEN c[i] ELSE 0], DOMAIN log)
      BY <2>3 DEF ClassSums
    <3>2. [i \in DOMAIN log |-> IF k[i] = a THEN c[i] ELSE 0] = ScoredOn(t, a, log)
      BY <2>1 DEF AllScoredOn, ScoredOn
    <3>3. w[a] = LogSum(ScoredOn(t, a, log), log)
      BY <1>1 DEF Books
    <3> QED BY <3>1, <3>2, <3>3 DEF LogSum
  <2>6. SumFunctionOnSet(w, Accounts) = SumFunctionOnSet(byAccount, Accounts)
    <3>1. \A a \in Accounts : byAccount[a] \in Int /\ w[a] = byAccount[a]
      BY <2>5
    <3> QED BY <1>2, <3>1, SumSame
  <2> QED BY <2>1, <2>4, <2>6 DEF LogSum
<1>6. Weighed(cs, w) = SumFunctionOnSet(f, DOMAIN cs)
  BY <1>3 DEF Weighed
<1> QED BY <1>1, <1>4, <1>5, <1>6

(* CapTableIsTheRuns with its sums written over the functions used here.   *)
CapTables ==
  \A id \in DOMAIN policies :
    LET p == policies[id]
    IN  /\ policyOfTask[p.taskId] = id
        /\ \A i, j \in DOMAIN p.capTable : p.capTable[i] = p.capTable[j] => i = j
        /\ \A a \in Accounts :
             p.capWeight[a] = LogSum(ScoredOn(p.taskId, a, trajectories), trajectories)
        /\ p.capTotal = LogSum(AllScoredOn(p.taskId, trajectories), trajectories)

LEMMA CapTablesAreTheRuns ==
  ASSUME TypeOK, Books, ContributorsInv, PolicyInv
  PROVE  CapTableIsTheRuns
<1>1. CapTables
  <2> SUFFICES ASSUME NEW id \in DOMAIN policies, NEW p, p = policies[id]
      PROVE  /\ policyOfTask[p.taskId] = id
             /\ \A i, j \in DOMAIN p.capTable : p.capTable[i] = p.capTable[j] => i = j
             /\ \A a \in Accounts :
                  p.capWeight[a] = LogSum(ScoredOn(p.taskId, a, trajectories), trajectories)
             /\ p.capTotal = LogSum(AllScoredOn(p.taskId, trajectories), trajectories)
    BY DEF CapTables
  <2>1. PICK t \in TaskIds : t = p.taskId
    <3>1. p \in Policy
      BY ElementOfSeq DEF TypeOK
    <3> QED BY <3>1 DEF Policy
  <2>2. /\ policyOfTask[t] = id
        /\ p.capTable = taskContributors[t] /\ p.capWeight = weightOnTask[t]
        /\ p.capTotal = Weighed(p.capTable, p.capWeight)
    BY <2>1 DEF PolicyInv, SoundTable
  <2>3. \A i, j \in DOMAIN p.capTable : p.capTable[i] = p.capTable[j] => i = j
    BY <2>2 DEF ContributorsInv
  <2>4. \A a \in Accounts :
          p.capWeight[a] = LogSum(ScoredOn(t, a, trajectories), trajectories)
    BY <2>2 DEF Books
  <2>5. p.capTotal = LogSum(AllScoredOn(t, trajectories), trajectories)
    BY <2>2, TableIsTheRuns
  <2> QED BY <2>1, <2>2, <2>3, <2>4, <2>5, Zenon
<1> QED BY <1>1 DEF CapTables, CapTableIsTheRuns, RunSum, LogSum, ScoredOn, AllScoredOn

LEMMA SumOfSame ==
  ASSUME NEW n \in Nat, NEW c \in Nat
  PROVE  SumFunctionOnSet([i \in 1 .. n |-> c], 1 .. n) = n * c
<1>1. PICK one : one = [i \in Nat |-> 1]
  OBVIOUS
<1> DEFINE G == {m \in Nat : SumFunctionOnSet(one, 1 .. m) = m}
<1>2. 0 \in G
  <2>1. 1 .. 0 = {}
    OBVIOUS
  <2> QED BY <2>1, SumEmpty
<1>3. ASSUME NEW m \in Nat, m \in G PROVE m + 1 \in G
  <2>1. /\ \A i \in 1 .. m : one[i] \in Nat /\ one[i] = one[i]
        /\ one[m + 1] = 1
    BY <1>1
  <2>2. SumFunctionOnSet(one, 1 .. (m + 1)) = SumFunctionOnSet(one, 1 .. m) + 1
    BY <2>1, LogSumGrows
  <2> QED BY <1>3, <2>2
<1>4. SumFunctionOnSet(one, 1 .. n) = n
  <2>1. n \in G
    <3> HIDE DEF G
    <3> QED BY <1>2, <1>3, NatSetInduction, Zenon
  <2> QED BY <2>1
<1>5. PICK h : h = [i \in 1 .. n |-> c]
  OBVIOUS
<1>6. \A i \in 1 .. n : one[i] \in Int /\ h[i] = c * one[i]
  BY <1>1, <1>5
<1>7. SumFunctionOnSet(h, 1 .. n) = c * SumFunctionOnSet(one, 1 .. n)
  <2>1. PICK S : S = 1 .. n /\ IsFiniteSet(S)
    BY FS_Interval
  <2>2. c \in Int /\ \A i \in S : one[i] \in Int /\ h[i] = c * one[i]
    BY <1>6, <2>1
  <2>3. SumFunctionOnSet(h, S) = c * SumFunctionOnSet(one, S)
    BY ONLY <2>1, <2>2, SumScale
  <2> QED BY <2>1, <2>3
<1> QED BY <1>4, <1>5, <1>7

(* Shares rounded down of an amount, over weights that add up to the total *)
(* they are divided by: together at most the amount, and short of it by    *)
(* less than one unit per share.                                           *)
THEOREM FloorsLoseLessThanTheirNumber ==
  ASSUME NEW n \in Nat, NEW amount \in Nat, NEW total \in Nat \ {0}, NEW w, NEW q,
         \A i \in 1 .. n : w[i] \in Nat /\ q[i] = (amount * w[i]) \div total,
         SumFunctionOnSet(w, 1 .. n) = total
  PROVE  /\ SumFunctionOnSet(q, 1 .. n) \in 0 .. amount
         /\ amount - SumFunctionOnSet(q, 1 .. n) < n
<1> DEFINE D == 1 .. n
<1>1. IsFiniteSet(D)
  BY FS_Interval
<1>2. PICK scaled, due, low : /\ scaled = [i \in D |-> total * q[i]]
                              /\ due = [i \in D |-> amount * w[i]]
                              /\ low = [i \in D |-> total - 1]
  OBVIOUS
<1>3. PICK most : most = [i \in D |-> scaled[i] + low[i]]
  OBVIOUS
<1>4. ASSUME NEW i \in D
      PROVE  /\ q[i] \in Nat /\ scaled[i] = total * q[i] /\ scaled[i] \in Nat
             /\ due[i] = amount * w[i] /\ due[i] \in Nat
             /\ low[i] = total - 1
             /\ scaled[i] <= due[i] /\ due[i] <= scaled[i] + low[i]
  <2>1. PICK x \in Nat : x = amount * w[i]
    OBVIOUS
  <2>2. /\ x \div total \in Nat /\ x % total \in 0 .. (total - 1)
        /\ x = total * (x \div total) + (x % total)
    BY DivMod
  <2>3. PICK y \in Nat : y = q[i] /\ y = x \div total
    BY <2>1, <2>2
  <2>4. total * y \in Nat /\ total * y <= x /\ x <= total * y + (total - 1)
    BY <2>2, <2>3
  <2>5. scaled[i] = total * y /\ due[i] = x /\ low[i] = total - 1
    BY <1>2, <2>1, <2>3
  <2> QED BY <2>1, <2>3, <2>4, <2>5
<1>5. /\ \A i \in D : q[i] \in Nat /\ q[i] \in Int /\ w[i] \in Int
      /\ \A i \in D : scaled[i] \in Int /\ due[i] \in Int /\ low[i] \in Int /\ most[i] \in Int
      /\ \A i \in D : scaled[i] <= due[i] /\ due[i] <= most[i]
      /\ \A i \in D : most[i] = scaled[i] + low[i]
  <2>1. \A i \in D : /\ q[i] \in Nat /\ scaled[i] \in Nat /\ due[i] \in Nat /\ w[i] \in Nat
                     /\ low[i] = total - 1
                     /\ scaled[i] <= due[i] /\ due[i] <= scaled[i] + low[i]
    BY <1>4, Zenon
  <2>2. \A i \in D : most[i] = scaled[i] + low[i]
    BY <1>3, Zenon
  <2>3. total \in Nat
    OBVIOUS
  <2> HIDE DEF D
  <2> QED BY ONLY <2>1, <2>2, <2>3
<1>5a. /\ \A i \in D : q[i] \in Int /\ scaled[i] = total * q[i]
      /\ \A i \in D : w[i] \in Int /\ due[i] = amount * w[i]
      /\ total \in Int /\ amount \in Int
  <2>1. total \in Int /\ amount \in Int
    OBVIOUS
  <2> QED BY <1>4, <1>5, <2>1, Zenon
<1> HIDE DEF D
<1>6. PICK s \in Nat : s = SumFunctionOnSet(q, D)
  BY <1>1, <1>5, SumNat
<1>7. SumFunctionOnSet(scaled, D) = total * s
  BY ONLY <1>5a, <1>1, <1>6, SumScale
<1>8. SumFunctionOnSet(due, D) = amount * total
  <2>1. SumFunctionOnSet(w, D) = total
    BY DEF D
  <2>2. \A i \in D : w[i] \in Int /\ due[i] = amount * w[i]
    BY <1>5a
  <2>3. SumFunctionOnSet(due, D) = amount * SumFunctionOnSet(w, D)
    BY ONLY amount \in Nat, <1>1, <2>2, SumScale
  <2> QED BY <2>1, <2>3
<1>9. SumFunctionOnSet(low, D) = n * (total - 1)
  <2>1. PICK c \in Nat : c = total - 1
    OBVIOUS
  <2>2. SumFunctionOnSet([i \in 1 .. n |-> c], 1 .. n) = n * c
    BY SumOfSame
  <2> QED BY <1>2, <2>1, <2>2, Zenon DEF D
<1>10. SumFunctionOnSet(most, D) = total * s + n * (total - 1)
  <2>1. SumFunctionOnSet(most, D) = SumFunctionOnSet(scaled, D) + SumFunctionOnSet(low, D)
    BY <1>1, <1>5, SumAdd
  <2> QED BY <1>7, <1>9, <2>1
<1>11. SumFunctionOnSet(scaled, D) <= SumFunctionOnSet(due, D)
  BY <1>1, <1>5, SumMonotone
<1>12. SumFunctionOnSet(due, D) <= SumFunctionOnSet(most, D)
  BY <1>1, <1>5, SumMonotone
<1>13. total * s <= amount * total
  BY <1>7, <1>8, <1>11
<1>14. amount * total <= total * s + n * (total - 1)
  BY <1>8, <1>10, <1>12
<1>15. n # 0
  <2>1. 1 .. 0 = {}
    OBVIOUS
  <2> QED BY <2>1, SumEmpty
<1>16. s <= amount
  <2>1. ASSUME s >= amount + 1 PROVE FALSE
    <3>1. total * s >= total * (amount + 1)
      BY <2>1
    <3>2. total * (amount + 1) = amount * total + total
      OBVIOUS
    <3> QED BY <1>13, <3>1, <3>2
  <2> QED BY <2>1
<1>17. amount - s < n
  <2>1. ASSUME amount >= s + n PROVE FALSE
    <3>1. total * amount >= total * (s + n)
      BY <2>1
    <3>2. /\ total * (s + n) = total * s + total * n
          /\ n * (total - 1) = total * n - n
          /\ total * amount = amount * total
      OBVIOUS
    <3> QED BY <1>14, <1>15, <3>1, <3>2
  <2> QED BY <2>1
<1> QED BY <1>6, <1>16, <1>17 DEF D

LEMMA SoundTablesSplit ==
  ASSUME TypeOK, PolicyInv
  PROVE  LicenceSplits
<1> SUFFICES ASSUME NEW id \in DOMAIN policies, NEW p, p = policies[id]
    PROVE  /\ p.capTotal # 0
           /\ Handed(p) <= Pool(p)
           /\ Pool(p) - Handed(p) < Len(p.capTable)
           /\ p.distributed = p.licencesSold * Handed(p)
  BY DEF LicenceSplits
<1>1. p \in Policy
  BY ElementOfSeq DEF TypeOK
<1>2. /\ p.capTotal = Weighed(p.capTable, p.capWeight) /\ p.capTotal # 0
      /\ p.distributed = p.licencesSold * Handed(p)
  BY DEF PolicyInv, SoundTable
<1>3. PICK n \in Nat, cs \in Seq(Accounts), weight \in [Accounts -> Nat], total \in Nat \ {0} :
        /\ cs = p.capTable /\ weight = p.capWeight /\ total = p.capTotal
        /\ n = Len(cs) /\ DOMAIN cs = 1 .. n
  BY <1>1, <1>2, LenProperties DEF Policy
<1>4. PICK amount \in Nat : amount = Pool(p)
  BY <1>1, <1>2, CutsType
<1>5. PICK w, q : w = [i \in 1 .. n |-> weight[cs[i]]] /\ q = Cuts(p)
  OBVIOUS
<1>6. \A i \in 1 .. n : cs[i] \in Accounts
  BY <1>3
<1>7. \A i \in 1 .. n : w[i] \in Nat /\ q[i] = (amount * w[i]) \div total
  BY <1>3, <1>4, <1>5, <1>6 DEF Cuts
<1>8. SumFunctionOnSet(w, 1 .. n) = total
  BY <1>2, <1>3, <1>5 DEF Weighed
<1>9. SumFunctionOnSet(q, 1 .. n) = Handed(p)
  BY <1>3, <1>5 DEF Handed
<1>10. Handed(p) \in 0 .. amount /\ amount - Handed(p) < n
  BY <1>7, <1>8, <1>9, FloorsLoseLessThanTheirNumber
<1> QED BY <1>2, <1>3, <1>4, <1>10

LEMMA TableInvHolds ==
  /\ Init => TableInv /\ BountyInv
  /\ TableInv /\ BountyInv /\ [Next]_vars => TableInv' /\ BountyInv'
<1>1. MoneyInv => TypeOK
  BY DEF MoneyInv
<1>2. Init => RunsPaidOnce
  BY DEF Init, RunsPaidOnce
<1>3. Init => TableInv /\ BountyInv
  BY <1>2, InitMoney, InitSlots, InitInBook, InitContributors, InitTables DEF TableInv, BountyInv
<1>4. ASSUME TableInv, BountyInv, [Next]_vars PROVE TableInv' /\ BountyInv'
  <2>1. MoneyInv /\ SlotInv /\ RunsPaidOnce /\ TypeOK /\ ContributorsInv
    BY <1>1, <1>4 DEF BountyInv, TableInv
  <2>2. MoneyInv' /\ SlotInv'
    BY <1>4, <2>1, NextMoney, NextSlots
  <2>3. RunsPaidOnce' /\ ContributorsInv'
    BY <1>4, <2>1, NextRunsPaidOnce, NextContributors
  <2>4. PostedWell'
    BY <1>4, <2>2, NextInBook
  <2>5. PolicyInv'
    BY <1>4, NextTables
  <2> QED BY <2>2, <2>3, <2>4, <2>5 DEF TableInv, BountyInv
<1> QED BY <1>3, <1>4

(* Every cap table lists each contributor of its task once, with the score *)
(* of that operator's runs, and no licence pays by another table later.    *)
THEOREM SpecCapTableIsTheRuns == Spec => []CapTableIsTheRuns
<1>1. MoneyInv => TypeOK
  BY DEF MoneyInv
<1>2. TableInv /\ Books => CapTableIsTheRuns
  BY <1>1, CapTablesAreTheRuns DEF TableInv
<1> QED BY <1>1, <1>2, InitMoney, NextMoney, InitBooks, NextBooks, TableInvHolds, PTL DEF Spec

(* A licence divides by a total that is not zero, hands out no more than   *)
(* its fee, and leaves the treasury less than one unit per contributor.    *)
THEOREM SpecLicenceSplits == Spec => []LicenceSplits
<1>1. MoneyInv => TypeOK
  BY DEF MoneyInv
<1>2. TableInv => LicenceSplits
  BY <1>1, SoundTablesSplit DEF TableInv
<1> QED BY <1>2, TableInvHolds, PTL DEF Spec

-----------------------------------------------------------------------------
(* The treasury                                                            *)

Leavings(ps) == [id \in DOMAIN ps |-> LeftOver(ps[id])]
LeavingsOf(ps) == SumFunctionOnSet(Leavings(ps), DOMAIN ps)
TreasuryHas == usdc[Treasury] + claimable[Treasury]

LEMMA TreasuryApart ==
  ASSUME Treasury \notin Accounts
  PROVE  /\ Treasury \in Holders /\ Treasury # Protocol
         /\ \A a \in Accounts : a # Treasury /\ a # Protocol /\ a \in Holders
BY ProtocolAssumption DEF Holders

LEMMA LeftOverInt ==
  ASSUME NEW ps \in Seq(Policy)
  PROVE  /\ \A id \in DOMAIN ps : LeftOver(ps[id]) \in Int /\ Leavings(ps)[id] \in Int
         /\ DOMAIN ps = 1 .. Len(ps) /\ Len(ps) \in Nat /\ IsFiniteSet(DOMAIN ps)
<1>1. DOMAIN ps = 1 .. Len(ps) /\ Len(ps) \in Nat
  OBVIOUS
<1>2. IsFiniteSet(DOMAIN ps)
  BY <1>1, FS_Interval
<1>3. ASSUME NEW id \in DOMAIN ps PROVE LeftOver(ps[id]) \in Int
  <2>1. PICK p \in Policy : p = ps[id]
    BY ElementOfSeq
  <2>2. p.licencesSold \in Nat /\ p.licenceFee \in Nat /\ p.distributed \in Nat
    BY DEF Policy
  <2>3. p.licencesSold * p.licenceFee \in Nat
    BY <2>2
  <2> QED BY <2>1, <2>2, <2>3 DEF LeftOver
<1> QED BY <1>1, <1>2, <1>3 DEF Leavings

(* A transfer or a claim that names somebody else leaves the treasury be.  *)
LEMMA OthersMoney ==
  ASSUME Treasury \notin Accounts, MoneyType, NEW a \in Accounts, NEW amount \in Nat,
         \/ Pull(a, amount) /\ UNCHANGED claimable
         \/ Send(a, amount)
  PROVE  TreasuryHas' = TreasuryHas
BY TreasuryApart DEF Pull, Send, MoneyType, TreasuryHas

LEMMA ClaimKeepsTreasury ==
  ASSUME Treasury \notin Accounts, MoneyType, NEW a \in Holders, Claim(a)
  PROVE  TreasuryHas' = TreasuryHas
<1>1. a # Protocol /\ Treasury # Protocol /\ Treasury \in Holders
  BY ProtocolAssumption, TreasuryApart
<1>2. /\ usdc' = [usdc EXCEPT ![Protocol] = @ - claimable[a], ![a] = @ + claimable[a]]
      /\ claimable' = [claimable EXCEPT ![a] = 0]
  BY DEF Claim
<1>3. usdc[Treasury] \in Nat /\ claimable[Treasury] \in Nat
  BY <1>1 DEF MoneyType
<1>4. CASE a = Treasury
  <2>1. usdc'[Treasury] = usdc[Treasury] + claimable[Treasury] /\ claimable'[Treasury] = 0
    BY <1>1, <1>2, <1>4 DEF MoneyType
  <2> QED BY <1>3, <2>1 DEF TreasuryHas
<1>5. CASE a # Treasury
  <2>1. usdc'[Treasury] = usdc[Treasury] /\ claimable'[Treasury] = claimable[Treasury]
    BY <1>1, <1>2, <1>5 DEF MoneyType
  <2> QED BY <2>1 DEF TreasuryHas
<1> QED BY <1>4, <1>5

(* No contributor being the treasury, it is due the fee and the dust.      *)
LEMMA DueToTreasury ==
  ASSUME Treasury \notin Accounts, NEW p \in Policy, p.capTotal # 0, Handed(p) <= Pool(p)
  PROVE  Due(p, Treasury) = p.licenceFee - Handed(p) /\ Due(p, Treasury) \in Nat
<1> DEFINE D == DOMAIN p.capTable
           f == [i \in D |-> IF p.capTable[i] = Treasury THEN Cuts(p)[i] ELSE 0]
<1>1. \A i \in D : f[i] = 0
  BY CutsType
<1>2. Due(p, Treasury) = SumFunctionOnSet(f, D) + (ProtocolFee(p.licenceFee) + (Pool(p) - Handed(p)))
  BY Zenon DEF Due
<1> HIDE DEF f
<1>3. SumFunctionOnSet(f, D) = 0
  BY <1>1, CutsType, SumZero
<1>4. p.licenceFee \in Nat /\ ProtocolFee(p.licenceFee) \in 0 .. p.licenceFee
  BY FeeBound DEF Policy
<1>5. Handed(p) \in Nat /\ Pool(p) = p.licenceFee - ProtocolFee(p.licenceFee)
  BY CutsType DEF Pool
<1> QED BY <1>2, <1>3, <1>4, <1>5

LEMMA LicencePaysTreasury ==
  ASSUME Treasury \notin Accounts, TypeOK, NEW id \in DOMAIN policies, NEW b \in Accounts,
         NEW l \in Accounts, LicensePolicy(id, b, l)
  PROVE  TreasuryHas' - TreasuryHas = LeavingsOf(policies') - LeavingsOf(policies)
         /\ LeavingsOf(policies) \in Int /\ LeavingsOf(policies') \in Int
         /\ TreasuryHas \in Int /\ TreasuryHas' \in Int
<1>1. PICK p \in Policy : p = policies[id]
  BY ElementOfSeq DEF TypeOK
<1>2. PICK q : q = WithLicence(p, l)
  OBVIOUS
<1>3. /\ policies' = [policies EXCEPT ![id] = q]
      /\ p.capTotal # 0 /\ Handed(p) <= Pool(p)
  BY <1>1, <1>2 DEF LicensePolicy
<1>4. /\ Handed(p) \in Nat /\ p.licencesSold \in Nat /\ p.distributed \in Nat
      /\ p.licenceFee \in Nat
  BY <1>3, CutsType DEF Policy
<1>5. q \in Policy
  BY <1>2, <1>4, WithLicenceType
<1>6. /\ q.licencesSold = p.licencesSold + 1 /\ q.distributed = p.distributed + Handed(p)
      /\ q.licenceFee = p.licenceFee
  <2>1. PICK n, d, s : /\ n = p.licencesSold + 1 /\ d = p.distributed + Handed(p)
                       /\ s = p.licensed \cup {l}
    OBVIOUS
  <2>2. q = [p EXCEPT !.licencesSold = n, !.distributed = d, !.licensed = s]
    BY <1>2, <2>1, Zenon DEF WithLicence
  <2> QED BY <2>1, <2>2 DEF Policy
<1>7. LeftOver(q) = LeftOver(p) + (p.licenceFee - Handed(p))
  <2>1. PICK n \in Nat, fee \in Nat : n = p.licencesSold /\ fee = p.licenceFee
    BY <1>4
  <2>2. (n + 1) * fee = n * fee + fee /\ n * fee \in Nat
    OBVIOUS
  <2> QED BY <1>4, <1>6, <2>1, <2>2 DEF LeftOver
<1>8. /\ policies \in Seq(Policy) /\ policies' \in Seq(Policy)
      /\ DOMAIN policies' = DOMAIN policies /\ policies'[id] = q
      /\ \A i \in DOMAIN policies : i # id => policies'[i] = policies[i]
  BY <1>3, <1>5, ExceptSeq DEF TypeOK
<1>9. PICK D, f, g : /\ D = DOMAIN policies /\ f = Leavings(policies) /\ g = Leavings(policies')
  OBVIOUS
<1>10. /\ IsFiniteSet(D) /\ id \in D /\ \A i \in D : f[i] \in Int /\ g[i] \in Int
       /\ f[id] = LeftOver(p) /\ g[id] = LeftOver(q)
       /\ \A i \in D \ {id} : g[i] = f[i]
  BY <1>1, <1>8, <1>9, LeftOverInt DEF Leavings
<1>11. SumFunctionOnSet(g, D) = SumFunctionOnSet(f, D) + (g[id] - f[id])
  BY <1>10, SumChange
<1>12. SumFunctionOnSet(f, D) \in Int /\ SumFunctionOnSet(g, D) \in Int
  BY <1>10, SumInt
<1>13. LeftOver(p) \in Int /\ LeftOver(q) \in Int
  BY <1>10
<1>14. LeavingsOf(policies') = LeavingsOf(policies) + (p.licenceFee - Handed(p))
       /\ LeavingsOf(policies) \in Int /\ LeavingsOf(policies') \in Int
  BY <1>4, <1>7, <1>8, <1>9, <1>10, <1>11, <1>12, <1>13 DEF LeavingsOf
<1>15. Due(p, Treasury) = p.licenceFee - Handed(p) /\ Due(p, Treasury) \in Nat
  BY <1>3, DueToTreasury
<1>16. /\ usdc[Treasury] \in Nat /\ claimable[Treasury] \in Nat
       /\ DOMAIN usdc = Holders \cup {Protocol}
  BY TreasuryApart DEF TypeOK
<1>17. IF Treasury \in blocked
       THEN /\ usdc'[Treasury] = usdc[Treasury]
            /\ claimable'[Treasury] = claimable[Treasury] + Due(p, Treasury)
       ELSE /\ usdc'[Treasury] = usdc[Treasury] + Due(p, Treasury)
            /\ claimable'[Treasury] = claimable[Treasury]
  <2> DEFINE due == [a \in Holders |-> Due(p, a)]
             paid == [a \in Holders |-> IF a \in blocked THEN 0 ELSE due[a]]
             deferred == [a \in Holders |-> IF a \in blocked THEN due[a] ELSE 0]
  <2>1. PICK total : usdc' = [a \in DOMAIN usdc |->
                    IF a = Protocol THEN total
                    ELSE usdc[a] + paid[a] - (IF a = b THEN p.licenceFee ELSE 0)]
    BY <1>1 DEF LicensePolicy
  <2>2. claimable' = [a \in Holders |-> claimable[a] + deferred[a]]
    BY <1>1 DEF LicensePolicy
  <2>3. /\ paid[Treasury] = IF Treasury \in blocked THEN 0 ELSE Due(p, Treasury)
        /\ deferred[Treasury] = IF Treasury \in blocked THEN Due(p, Treasury) ELSE 0
    BY TreasuryApart
  <2> HIDE DEF paid, deferred
  <2>4. usdc'[Treasury] = usdc[Treasury] + paid[Treasury] - 0
    BY <1>16, <2>1, TreasuryApart
  <2>5. claimable'[Treasury] = claimable[Treasury] + deferred[Treasury]
    BY <2>2, TreasuryApart
  <2> QED BY <1>15, <1>16, <2>3, <2>4, <2>5
<1>18. TreasuryHas' = TreasuryHas + (p.licenceFee - Handed(p)) /\ TreasuryHas \in Int
  BY <1>15, <1>16, <1>17 DEF TreasuryHas
<1>19. PICK left \in Int : left = p.licenceFee - Handed(p)
  BY <1>4
<1> QED BY ONLY <1>14, <1>18, <1>19

(* A policy nobody has licensed leaves nothing to the treasury.            *)
LEMMA SumGrowsByNothing ==
  ASSUME NEW n \in Nat, NEW f, NEW g,
         \A i \in 1 .. n : f[i] \in Int /\ g[i] = f[i],
         g[n + 1] = 0
  PROVE  SumFunctionOnSet(g, 1 .. (n + 1)) = SumFunctionOnSet(f, 1 .. n)
<1>1. IsFiniteSet(1 .. (n + 1)) /\ IsFiniteSet(1 .. n)
  BY FS_Interval
<1>2. n + 1 \in 1 .. (n + 1) /\ (1 .. (n + 1)) \ {n + 1} = 1 .. n
  OBVIOUS
<1>3. \A i \in 1 .. (n + 1) : g[i] \in Int
  OBVIOUS
<1>4. SumFunctionOnSet(g, 1 .. (n + 1)) = g[n + 1] + SumFunctionOnSet(g, 1 .. n)
  <2>1. PICK S, x : S = 1 .. (n + 1) /\ x = n + 1 /\ x \in S /\ IsFiniteSet(S)
                    /\ S \ {x} = 1 .. n
    BY <1>1, <1>2
  <2>2. \A i \in S : g[i] \in Int
    BY <1>3, <2>1
  <2>3. SumFunctionOnSet(g, S) = g[x] + SumFunctionOnSet(g, S \ {x})
    BY ONLY <2>1, <2>2, SumRemove
  <2> QED BY <2>1, <2>3
<1>5. SumFunctionOnSet(g, 1 .. n) = SumFunctionOnSet(f, 1 .. n)
  <2>1. \A i \in 1 .. n : f[i] \in Int /\ g[i] = f[i]
    OBVIOUS
  <2> QED BY ONLY <1>1, <2>1, SumSame
<1>6. SumFunctionOnSet(f, 1 .. n) \in Int
  <2>1. \A i \in 1 .. n : f[i] \in Int
    OBVIOUS
  <2> QED BY ONLY <1>1, <2>1, SumInt
<1> QED BY <1>4, <1>5, <1>6

LEMMA NextTreasury ==
  ASSUME Treasury \notin Accounts, MoneyInv, TreasuryHasTheRest, [Next]_vars
  PROVE  TreasuryHasTheRest'
<1>0. TypeOK /\ MoneyType /\ Unposted /\ TreasuryHas = LeavingsOf(policies)
  BY DEF MoneyInv, TypeOK, MoneyType, TreasuryHasTheRest, TreasuryHas, LeavingsOf, Leavings
<1> SUFFICES TreasuryHas' = LeavingsOf(policies')
  BY DEF TreasuryHasTheRest, TreasuryHas, LeavingsOf, Leavings
<1>1. ASSUME TreasuryHas' = TreasuryHas, UNCHANGED policies
      PROVE  TreasuryHas' = LeavingsOf(policies')
  BY <1>0, <1>1 DEF LeavingsOf, Leavings
<1>2. ASSUME NEW f \in Accounts, NEW n \in SlotCounts, NEW r \in Rewards,
             NEW d \in Deadlines, NEW x \in Amounts, CreateTask(f, n, r, d, x)
      PROVE  TreasuryHas' = LeavingsOf(policies')
  <2>1. x \in Nat /\ Pull(f, x) /\ UNCHANGED claimable /\ UNCHANGED policies
    BY <1>2, ProtocolAssumption DEF CreateTask, policyVars
  <2> QED BY <1>0, <1>1, <2>1, OthersMoney
<1>3. ASSUME NEW f \in Accounts, NEW t \in TaskIds, NEW x \in Amounts, FundTask(f, t, x)
      PROVE  TreasuryHas' = LeavingsOf(policies')
  <2>1. x \in Nat /\ Pull(f, x) /\ UNCHANGED claimable /\ UNCHANGED policies
    BY <1>3, ProtocolAssumption DEF FundTask, policyVars
  <2> QED BY <1>0, <1>1, <2>1, OthersMoney
<1>4. ASSUME NEW t \in TaskIds, CloseTask(t) PROVE TreasuryHas' = LeavingsOf(policies')
  <2>1. /\ tasks[t].funder \in Accounts /\ tasks[t].escrow \in Nat
        /\ Send(tasks[t].funder, tasks[t].escrow) /\ UNCHANGED policies
    BY <1>0, <1>4 DEF CloseTask, Unposted, TypeOK, Task, policyVars
  <2> QED BY <1>0, <1>1, <2>1, OthersMoney
<1>5. ASSUME NEW t \in TaskIds, NEW a \in Accounts, NEW h \in Hashes, NEW s \in Scores,
             SubmitTrajectory(t, a, h, s)
      PROVE  TreasuryHas' = LeavingsOf(policies')
  <2>1. Payout(t, s) \in Nat
    BY <1>0, ProtocolAssumption, PayoutType
  <2>2. Send(a, Payout(t, s)) /\ UNCHANGED policies
    BY <1>5 DEF SubmitTrajectory, policyVars
  <2> QED BY <1>0, <1>1, <2>1, <2>2, OthersMoney
<1>6. ASSUME NEW t \in TaskIds, NEW fee \in Fees, MintPolicy(t, fee)
      PROVE  TreasuryHas' = LeavingsOf(policies')
  <2>1. PICK new : policies' = Append(policies, new) /\ new.licencesSold = 0 /\ new.distributed = 0
                   /\ new.licenceFee = fee
    <3> DEFINE cs == taskContributors[t]
               w == [a \in Accounts |-> IF a \in Range(cs) THEN weightOnTask[t][a] ELSE 0]
               total == SumFunctionOnSet([i \in DOMAIN cs |-> weightOnTask[t][cs[i]]],
                                         DOMAIN cs)
    <3>1. policies' = Append(policies,
            [taskId |-> t, minter |-> tasks[t].funder, licenceFee |-> fee,
             licencesSold |-> 0, distributed |-> 0, licensed |-> {},
             capTable |-> cs, capWeight |-> w, capTotal |-> total])
      BY <1>6, Zenon DEF MintPolicy
    <3> HIDE DEF cs, w, total
    <3>2. PICK new : new =
            [taskId |-> t, minter |-> tasks[t].funder, licenceFee |-> fee,
             licencesSold |-> 0, distributed |-> 0, licensed |-> {},
             capTable |-> cs, capWeight |-> w, capTotal |-> total]
      OBVIOUS
    <3> QED BY ONLY <3>1, <3>2
  <2>2. UNCHANGED <<usdc, claimable>> /\ fee \in Nat
    BY <1>6, ProtocolAssumption DEF MintPolicy, moneyVars
  <2>3. policies \in Seq(Policy)
    BY <1>0 DEF TypeOK
  <2>4. PICK n, f, g : /\ n \in Nat /\ n = Len(policies)
                       /\ f = Leavings(policies) /\ g = Leavings(policies')
    BY <2>3
  <2>5. DOMAIN policies = 1 .. n /\ DOMAIN policies' = 1 .. (n + 1)
    BY <2>1, <2>3, <2>4
  <2>6. LeftOver(new) = 0
    BY <2>1, <2>2 DEF LeftOver
  <2>7. g[n + 1] = 0 /\ \A i \in 1 .. n : f[i] \in Int /\ g[i] = f[i]
    BY <2>1, <2>3, <2>4, <2>5, <2>6, LeftOverInt DEF Leavings
  <2>8. SumFunctionOnSet(g, 1 .. (n + 1)) = SumFunctionOnSet(f, 1 .. n)
    <3>1. g[n + 1] = 0 /\ \A i \in 1 .. n : f[i] \in Int /\ g[i] = f[i]
      BY <2>7
    <3>2. n \in Nat
      BY <2>4
    <3> QED BY ONLY <3>1, <3>2, SumGrowsByNothing
  <2>9. LeavingsOf(policies') = LeavingsOf(policies)
    BY <2>4, <2>5, <2>8 DEF LeavingsOf
  <2> QED BY <1>0, <2>2, <2>9 DEF TreasuryHas
<1>7. ASSUME NEW id \in DOMAIN policies, NEW b \in Accounts, NEW l \in Accounts,
             LicensePolicy(id, b, l)
      PROVE  TreasuryHas' = LeavingsOf(policies')
  BY <1>0, <1>7, LicencePaysTreasury
<1>8. ASSUME NEW a \in Holders, Claim(a) PROVE TreasuryHas' = LeavingsOf(policies')
  <2>1. UNCHANGED policies
    BY <1>8 DEF Claim, policyVars
  <2> QED BY <1>0, <1>1, <1>8, <2>1, ClaimKeepsTreasury
<1>9. ASSUME UNCHANGED <<usdc, claimable, policies>> PROVE TreasuryHas' = LeavingsOf(policies')
  BY <1>1, <1>9 DEF TreasuryHas
<1>10. ASSUME NEW a \in Blockable, Blocklist(a) PROVE UNCHANGED <<usdc, claimable, policies>>
  BY <1>10 DEF Blocklist, moneyVars, policyVars
<1>11. Tick \/ UNCHANGED vars => UNCHANGED <<usdc, claimable, policies>>
  BY DEF Tick, vars, moneyVars, policyVars
<1> QED BY <1>2, <1>3, <1>4, <1>5, <1>6, <1>7, <1>8, <1>9, <1>10, <1>11 DEF Next

(* A treasury that neither funds nor buys has, in hand or to claim, exactly *)
(* what licences brought in beyond what their contributors were given: no  *)
(* fee and no dust is lost or paid twice (licensePolicy, _send, claim).    *)
THEOREM SpecTreasuryHasTheRest ==
  ASSUME Treasury \notin Accounts
  PROVE  Spec => []TreasuryHasTheRest
<1>1. Init => TreasuryHasTheRest
  <2> SUFFICES ASSUME Init PROVE TreasuryHasTheRest
    OBVIOUS
  <2>1. usdc[Treasury] = 0 /\ claimable[Treasury] = 0 /\ policies = <<>>
    BY TreasuryApart DEF Init
  <2>2. SumFunctionOnSet([id \in DOMAIN policies |-> LeftOver(policies[id])], DOMAIN policies) = 0
    BY <2>1, SumEmpty
  <2> QED BY <2>1, <2>2 DEF TreasuryHasTheRest
<1>2. MoneyInv /\ TreasuryHasTheRest /\ [Next]_vars => TreasuryHasTheRest'
  BY NextTreasury
<1> QED BY <1>1, <1>2, InitMoney, NextMoney, PTL DEF Spec

-----------------------------------------------------------------------------
(* A task as the routes see it                                             *)

Takes ==
  {t \in TaskIds : Exists(t) /\ ~ (tasks[t].closed \/ tasks[t].policyMinted \/ Expired(t))}
RecordedOn(t) == {r.trajHash : r \in {r \in Range(trajectories) : r.taskId = t}}
Recorded == [t \in TaskIds |-> RecordedOn(t)]

(* Of each run a counter counted, one hash is recorded.                    *)
RecordedFits ==
  \A t \in TaskIds : IsFiniteSet(RecordedOn(t)) /\ Cardinality(RecordedOn(t)) <= FilledOf(t)

SeenUnchanged == Places' = Places /\ Takes' = Takes /\ Recorded' = Recorded

LEMMA FilledIsNat ==
  ASSUME TypeOK, SlotInv, NEW t \in TaskIds
  PROVE  FilledOf(t) \in Nat
<1>1. FilledOf(t) = Len(taskTrajectories[t])
  BY DEF SlotInv, CountersCountRuns
<1>2. PICK q \in Seq(Nat) : q = taskTrajectories[t]
  BY DEF TypeOK
<1> QED BY <1>1, <1>2, LenProperties

LEMMA RecordedFitsKept ==
  ASSUME RecordedFits, Taken' = Taken, trajectories' = trajectories
  PROVE  RecordedFits' /\ Recorded' = Recorded
<1>1. \A t \in TaskIds : RecordedOn(t)' = RecordedOn(t)
  BY DEF RecordedOn
<1>2. \A t \in TaskIds : FilledOf(t)' = FilledOf(t)
  <2>1. \A t \in TaskIds : Taken[t] = FilledOf(t) /\ Taken'[t] = FilledOf(t)'
    BY DEF Taken
  <2> QED BY <2>1
<1> QED BY <1>1, <1>2 DEF RecordedFits, Recorded

(* No task that stopped taking runs starts again: of tasks that were there *)
(* before the step, Takes only loses some.                                 *)
LEMMA TakesFall ==
  ASSUME TypeOK, taskCount' = taskCount, now' \in Nat, now <= now',
         \A t \in TaskIds : /\ tasks'[t].expiresAt = tasks[t].expiresAt
                            /\ tasks[t].closed => tasks'[t].closed
                            /\ tasks[t].policyMinted => tasks'[t].policyMinted
  PROVE  Takes' \subseteq Takes /\ Takes' = Takes \ (Takes \ Takes')
<1>1. \A t \in TaskIds : Exists(t)' <=> Exists(t)
  BY DEF Exists
<1>2. \A t \in TaskIds : Expired(t) => Expired(t)'
  <2> SUFFICES ASSUME NEW t \in TaskIds, Expired(t) PROVE Expired(t)'
    OBVIOUS
  <2>1. tasks[t].expiresAt \in Nat /\ now \in Nat
    BY DEF TypeOK, Task
  <2>2. tasks[t].expiresAt # 0 /\ now >= tasks[t].expiresAt
    BY DEF Expired
  <2>3. tasks'[t].expiresAt # 0 /\ now' >= tasks'[t].expiresAt
    BY <2>1, <2>2
  <2> QED BY <2>3 DEF Expired
<1>3. Takes' \subseteq Takes
  BY <1>1, <1>2 DEF Takes
<1> QED BY <1>3

LEMMA CreateTaskSeen ==
  ASSUME BountyInv, SlotInv', RecordedFits, NEW f \in Accounts, NEW n \in SlotCounts,
         NEW r \in Rewards, NEW d \in Deadlines, NEW x \in Amounts, CreateTask(f, n, r, d, x)
  PROVE  RecordedFits' /\ Seen!Next
<1>1. PICK t \in TaskIds : t = taskCount
  BY CreateTaskPosts
<1>2. /\ n > 0 /\ Places[t] = 0 /\ Places' = [Places EXCEPT ![t] = n] /\ Taken' = Taken
  BY <1>1, CreateTaskPosts
<1>3. /\ trajectories' = trajectories /\ now' = now /\ taskCount' = taskCount + 1
      /\ taskCount \in Nat
  BY DEF CreateTask, runVars, BountyInv, MoneyInv, TypeOK
<1>4. RecordedFits' /\ Recorded' = Recorded
  BY <1>2, <1>3, RecordedFitsKept
<1>5. Takes' \in {Takes, Takes \cup {t}}
  <2>1. \A u \in TaskIds : u # t => tasks'[u] = tasks[u]
    <3>1. tasks \in [TaskIds -> Task]
      BY DEF BountyInv, MoneyInv, TypeOK
    <3>2. PICK new : tasks' = [tasks EXCEPT ![t] = new]
      BY <1>1 DEF CreateTask
    <3> QED BY <3>1, <3>2
  <2>2. \A u \in TaskIds : u # t => (Exists(u)' <=> Exists(u))
    BY <1>1, <1>3 DEF Exists, TaskIds
  <2>3. \A u \in TaskIds : u # t => (u \in Takes' <=> u \in Takes)
    BY <1>3, <2>1, <2>2 DEF Takes, Expired
  <2>4. t \notin Takes
    BY <1>1, <1>3 DEF Takes, Exists
  <2>5. Takes \subseteq TaskIds /\ Takes' \subseteq TaskIds
    BY DEF Takes
  <2> QED BY ONLY <2>3, <2>4, <2>5
<1>6. Seen!Post(t, n)
  BY <1>2, <1>4, <1>5 DEF Seen!Post, Places, Takes, Recorded, RecordedOn
<1> QED BY <1>4, <1>6 DEF Seen!Next

LEMMA SubmitTrajectorySeen ==
  ASSUME BountyInv, SlotInv', RecordedFits, NEW t \in TaskIds, NEW who \in Accounts,
         NEW h \in Hashes, NEW score \in Scores, SubmitTrajectory(t, who, h, score)
  PROVE  RecordedFits' /\ Seen!Next
<1>1. /\ TypeOK /\ SlotInv /\ trajectories \in Seq(Trajectory) /\ score \in Nat
      /\ tasks \in [TaskIds -> Task]
  BY ProtocolAssumption DEF BountyInv, MoneyInv, TypeOK
<1>2. /\ Taken[t] < Places[t] /\ Places' = Places /\ Taken' = [Taken EXCEPT ![t] = @ + 1]
      /\ \A entry \in Book : entry[1] # h
  BY SubmitTrajectoryAccepts
<1>3. \A u \in TaskIds : h \notin RecordedOn(u)
  <2> SUFFICES ASSUME NEW r \in Range(trajectories) PROVE r.trajHash # h
    BY DEF RecordedOn
  <2>1. PICK entry \in Book : entry = <<r.trajHash, r.taskId, r.contributor, r.paid>>
    BY DEF Book
  <2> QED BY <1>2, <2>1
<1>4. PICK run \in Trajectory : /\ run.taskId = t /\ run.trajHash = h
                                /\ trajectories' = Append(trajectories, run)
  <2>1. PICK pay \in Nat : pay = Payout(t, score)
    BY <1>1, PayoutType
  <2>2. [taskId |-> t, contributor |-> who, trajHash |-> h, score |-> score, paid |-> pay]
           \in Trajectory
    BY <1>1 DEF Trajectory
  <2> QED BY <2>1, <2>2 DEF SubmitTrajectory
<1>5. Range(trajectories') = Range(trajectories) \cup {run}
  BY <1>1, <1>4 DEF Range
<1>6. \A u \in TaskIds : RecordedOn(u)' = IF u = t THEN RecordedOn(u) \cup {h} ELSE RecordedOn(u)
  BY <1>4, <1>5 DEF RecordedOn
<1>7. Recorded' = [Recorded EXCEPT ![t] = @ \cup {h}]
  BY <1>6 DEF Recorded
<1>8. \A u \in TaskIds : /\ FilledOf(u) \in Nat
                         /\ FilledOf(u)' = IF u = t THEN FilledOf(u) + 1 ELSE FilledOf(u)
  <2>1. \A u \in TaskIds : Taken[u] = FilledOf(u) /\ Taken'[u] = FilledOf(u)'
    BY DEF Taken
  <2>2. \A u \in TaskIds : Taken'[u] = IF u = t THEN Taken[u] + 1 ELSE Taken[u]
    BY <1>2 DEF Taken
  <2>3. \A u \in TaskIds : FilledOf(u) \in Nat
    BY <1>1, FilledIsNat
  <2> QED BY <2>1, <2>2, <2>3
<1>9. RecordedFits'
  <2> SUFFICES ASSUME NEW u \in TaskIds
               PROVE  IsFiniteSet(RecordedOn(u)') /\ Cardinality(RecordedOn(u)') <= FilledOf(u)'
    BY DEF RecordedFits
  <2>1. /\ IsFiniteSet(RecordedOn(u)) /\ Cardinality(RecordedOn(u)) <= FilledOf(u)
        /\ Cardinality(RecordedOn(u)) \in Nat
    BY FS_CardinalityType DEF RecordedFits
  <2>2. CASE u = t
    <3>1. RecordedOn(u)' = RecordedOn(u) \cup {h} /\ h \notin RecordedOn(u)
      BY <1>3, <1>6, <2>2
    <3>2. IsFiniteSet(RecordedOn(u)') /\ Cardinality(RecordedOn(u)') = Cardinality(RecordedOn(u)) + 1
      BY <2>1, <3>1, FS_AddElement
    <3> QED BY <1>8, <2>1, <2>2, <3>2
  <2>3. CASE u # t
    BY <1>6, <1>8, <2>1, <2>3
  <2> QED BY <2>2, <2>3
<1>10. Cardinality(Recorded[t]) < Places[t]
  <2>1. Cardinality(RecordedOn(t)) <= FilledOf(t) /\ Cardinality(RecordedOn(t)) \in Nat
    BY FS_CardinalityType DEF RecordedFits
  <2>2. FilledOf(t) < tasks[t].slotsTotal /\ tasks[t].slotsTotal \in Nat
    BY <1>1, <1>2 DEF Taken, Places, Task
  <2> QED BY <1>8, <2>1, <2>2 DEF Recorded, Places
<1>11. t \in Takes /\ Takes' = Takes
  <2>1. PICK pay : tasks' = [tasks EXCEPT ![t].escrow = pay]
    BY DEF SubmitTrajectory
  <2>2. \A u \in TaskIds : /\ tasks'[u].closed = tasks[u].closed
                           /\ tasks'[u].policyMinted = tasks[u].policyMinted
                           /\ tasks'[u].expiresAt = tasks[u].expiresAt
    BY <1>1, <2>1 DEF Task
  <2>3. taskCount' = taskCount /\ now' = now /\ Exists(t) /\ AcceptsRuns(t)
    BY DEF SubmitTrajectory
  <2> QED BY <2>2, <2>3 DEF Takes, Exists, Expired, AcceptsRuns
<1>12. \A u \in TaskIds : h \notin Recorded[u]
  BY <1>3 DEF Recorded
<1>13. Seen!Record(t, h)
  BY <1>2, <1>7, <1>10, <1>11, <1>12
     DEF Seen!Record, Places, Takes, Recorded, RecordedOn, Seen!Cardinality, Cardinality
<1> QED BY <1>9, <1>13 DEF Seen!Next

(* The other calls end tasks at most, and so does the clock.               *)
LEMMA OthersSeen ==
  ASSUME BountyInv, SlotInv', RecordedFits, Places' = Places, Taken' = Taken,
         trajectories' = trajectories, Takes' \subseteq Takes
  PROVE  RecordedFits' /\ Seen!Next
<1>1. RecordedFits' /\ Recorded' = Recorded
  BY RecordedFitsKept
<1>2. PICK ts \in SUBSET Takes : Takes' = Takes \ ts
  <2>1. Takes' = Takes \ (Takes \ Takes')
    OBVIOUS
  <2> QED BY <2>1
<1>3. Seen!End(ts)
  BY <1>1, <1>2 DEF Seen!End, Places, Takes, Recorded, RecordedOn
<1> QED BY <1>1, <1>2, <1>3 DEF Seen!Next, Takes


LEMMA NextSeen ==
  ASSUME BountyInv, MoneyInv', SlotInv', RecordedFits, [Next]_vars
  PROVE  RecordedFits' /\ [Seen!Next]_(Seen!vars)
<1>0. TypeOK /\ TypeOK' /\ tasks \in [TaskIds -> Task] /\ now \in Nat /\ now' \in Nat
  BY DEF BountyInv, MoneyInv, TypeOK
<1>1. ASSUME NEW f \in Accounts, NEW n \in SlotCounts, NEW r \in Rewards,
             NEW d \in Deadlines, NEW x \in Amounts, CreateTask(f, n, r, d, x)
      PROVE  RecordedFits' /\ Seen!Next
  BY <1>1, CreateTaskSeen
<1>2. ASSUME NEW f \in Accounts, NEW t \in TaskIds, NEW x \in Amounts, FundTask(f, t, x)
      PROVE  RecordedFits' /\ Seen!Next
  <2>1. PICK e : tasks' = [tasks EXCEPT ![t].escrow = e]
    BY <1>2 DEF FundTask
  <2>2. Places' = Places /\ Taken' = Taken
    BY <1>2, FundTaskFunds
  <2>3. taskCount' = taskCount /\ now' = now /\ trajectories' = trajectories
    BY <1>2 DEF FundTask, runVars
  <2>4. \A u \in TaskIds : /\ tasks'[u].expiresAt = tasks[u].expiresAt
                           /\ tasks'[u].closed = tasks[u].closed
                           /\ tasks'[u].policyMinted = tasks[u].policyMinted
    BY <1>0, <2>1 DEF Task
  <2>5. Takes' \subseteq Takes
    BY <1>0, <2>3, <2>4, TakesFall
  <2> QED BY <2>2, <2>3, <2>5, OthersSeen
<1>3. ASSUME NEW t \in TaskIds, CloseTask(t) PROVE RecordedFits' /\ Seen!Next
  <2>1. tasks' = [tasks EXCEPT ![t].escrow = 0, ![t].closed = TRUE]
    BY <1>3 DEF CloseTask
  <2>2. Places' = Places /\ Taken' = Taken
    BY <1>3, CloseTaskCloses
  <2>3. taskCount' = taskCount /\ now' = now /\ trajectories' = trajectories
    BY <1>3 DEF CloseTask, runVars
  <2>4. \A u \in TaskIds : /\ tasks'[u].expiresAt = tasks[u].expiresAt
                           /\ tasks[u].closed => tasks'[u].closed
                           /\ tasks[u].policyMinted => tasks'[u].policyMinted
    BY <1>0, <2>1 DEF Task
  <2>5. Takes' \subseteq Takes
    BY <1>0, <2>3, <2>4, TakesFall
  <2> QED BY <2>2, <2>3, <2>5, OthersSeen
<1>4. ASSUME NEW t \in TaskIds, NEW who \in Accounts, NEW h \in Hashes, NEW s \in Scores,
             SubmitTrajectory(t, who, h, s)
      PROVE  RecordedFits' /\ Seen!Next
  BY <1>4, SubmitTrajectorySeen
<1>5. ASSUME NEW t \in TaskIds, NEW fee \in Fees, MintPolicy(t, fee)
      PROVE  RecordedFits' /\ Seen!Next
  <2>1. tasks' = [tasks EXCEPT ![t].policyMinted = TRUE]
    BY <1>5 DEF MintPolicy
  <2>2. Places' = Places /\ Taken' = Taken
    BY <1>5, MintPolicySells
  <2>3. taskCount' = taskCount /\ now' = now /\ trajectories' = trajectories
    BY <1>5 DEF MintPolicy, runVars
  <2>4. \A u \in TaskIds : /\ tasks'[u].expiresAt = tasks[u].expiresAt
                           /\ tasks[u].closed => tasks'[u].closed
                           /\ tasks[u].policyMinted => tasks'[u].policyMinted
    BY <1>0, <2>1 DEF Task
  <2>5. Takes' \subseteq Takes
    BY <1>0, <2>3, <2>4, TakesFall
  <2> QED BY <2>2, <2>3, <2>5, OthersSeen
<1>6. ASSUME UNCHANGED <<taskVars, runVars>>, now <= now'
      PROVE  RecordedFits' /\ Seen!Next
  <2>1. Places' = Places /\ Taken' = Taken
    BY <1>6, NoBookStep DEF BookUnchanged
  <2>2. taskCount' = taskCount /\ tasks' = tasks /\ trajectories' = trajectories
    BY <1>6 DEF taskVars, runVars
  <2>3. Takes' \subseteq Takes
    BY <1>0, <1>6, <2>2, TakesFall
  <2> QED BY <2>1, <2>2, <2>3, OthersSeen
<1>7. ASSUME NEW id \in DOMAIN policies, NEW b \in Accounts, NEW l \in Accounts,
             LicensePolicy(id, b, l)
      PROVE  UNCHANGED <<taskVars, runVars>> /\ now' = now
  BY <1>7 DEF LicensePolicy
<1>8. ASSUME NEW a \in Holders, Claim(a) PROVE UNCHANGED <<taskVars, runVars>> /\ now' = now
  BY <1>8 DEF Claim
<1>9. ASSUME NEW a \in Blockable, Blocklist(a)
      PROVE  UNCHANGED <<taskVars, runVars>> /\ now' = now
  BY <1>9 DEF Blocklist
<1>10. ASSUME Tick PROVE UNCHANGED <<taskVars, runVars>> /\ now <= now'
  BY <1>0, <1>10 DEF Tick
<1>11. UNCHANGED vars => UNCHANGED <<taskVars, runVars>> /\ now' = now
  BY DEF vars
<1>12. now' = now => now <= now'
  BY <1>0
<1> QED BY <1>1, <1>2, <1>3, <1>4, <1>5, <1>6, <1>7, <1>8, <1>9, <1>10, <1>11, <1>12 DEF Next

(* What the routes suppose of a task on Arc is what the contract does: it  *)
(* records a run only while the task is neither closed, minted nor past    *)
(* its deadline and has a slot left, each run once; and neither comes back *)
(* (_record).                                                              *)
THEOREM SpecImplementsTaskOnArc == Spec => ImplementsTaskOnArc
<1>1. MoneyInv => TypeOK
  BY DEF MoneyInv
<1>2. Init => BountyInv
  <2>1. Init => RunsPaidOnce
    BY DEF Init, RunsPaidOnce
  <2> QED BY <2>1, InitMoney, InitSlots, InitInBook DEF BountyInv
<1>3. Init => RecordedFits /\ Seen!Init
  <2> SUFFICES ASSUME Init PROVE RecordedFits /\ Seen!Init
    OBVIOUS
  <2>1. \A t \in TaskIds : RecordedOn(t) = {} /\ tasks[t].slotsTotal = 0 /\ FilledOf(t) \in Nat
    <3>1. Range(trajectories) = {}
      BY DEF Init, Range
    <3>2. \A t \in TaskIds : tasks[t].slotsTotal = 0
      BY DEF Init, EmptyTask
    <3>3. TypeOK /\ SlotInv
      BY <1>1, InitMoney, InitSlots
    <3> QED BY <3>1, <3>2, <3>3, FilledIsNat DEF RecordedOn
  <2>2. RecordedFits
    BY <2>1, FS_EmptySet DEF RecordedFits
  <2>3. /\ Places \in [TaskIds -> Nat] /\ Takes \in SUBSET TaskIds
        /\ Recorded \in [TaskIds -> SUBSET Hashes]
        /\ \A t \in TaskIds : Cardinality(Recorded[t]) <= Places[t]
    <3>1. Places \in [TaskIds -> Nat] /\ Takes \in SUBSET TaskIds
      BY <2>1 DEF Places, Takes
    <3>2. Recorded \in [TaskIds -> SUBSET Hashes]
      BY <2>1 DEF Recorded
    <3>3. \A t \in TaskIds : Cardinality(Recorded[t]) = 0 /\ Places[t] = 0
      BY <2>1, FS_EmptySet DEF Places, Recorded
    <3> QED BY <3>1, <3>2, <3>3
  <2> QED BY <2>2, <2>3
       DEF Seen!Init, Places, Takes, Recorded, RecordedOn, Seen!Cardinality, Cardinality
<1>4. BountyInv /\ RecordedFits /\ [Next]_vars
        => BountyInv' /\ RecordedFits' /\ [Seen!Next]_(Seen!vars)
  <2> SUFFICES ASSUME BountyInv, RecordedFits, [Next]_vars
               PROVE  BountyInv' /\ RecordedFits' /\ [Seen!Next]_(Seen!vars)
    OBVIOUS
  <2>1. MoneyInv /\ SlotInv /\ RunsPaidOnce /\ TypeOK
    BY <1>1 DEF BountyInv
  <2>2. MoneyInv' /\ SlotInv'
    BY <2>1, NextMoney, NextSlots
  <2>3. RunsPaidOnce'
    BY <2>1, NextRunsPaidOnce
  <2>4. PostedWell'
    BY <2>2, NextInBook
  <2>5. RecordedFits' /\ [Seen!Next]_(Seen!vars)
    BY <2>2, NextSeen
  <2> QED BY <2>2, <2>3, <2>4, <2>5 DEF BountyInv
<1> QED BY <1>2, <1>3, <1>4, PTL DEF Spec, ImplementsTaskOnArc, Seen!Spec
=============================================================================
