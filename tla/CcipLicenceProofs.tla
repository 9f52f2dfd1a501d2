-------------------------- MODULE CcipLicenceProofs --------------------------
(***************************************************************************)
(* Theorems of CcipLicence, for every set of chains and buyers, every      *)
(* price list and every number of orders, whatever the owner does.         *)
(*                                                                         *)
(* The inductive invariant is Books: the types, the two totals, the        *)
(* balance of dollars and orders, and Traced, which ties the receiver's    *)
(* records to the messages sent: ids are never reused, an instruction not  *)
(* yet processed has no order, and an order is the one its message asks    *)
(* for.  Without it a delivery could meet a known order, and its dollars   *)
(* would count twice.                                                      *)
(***************************************************************************)
EXTENDS CcipLicence, SumTheorems

LEMMA SetsFinite ==
  IsFiniteSet(OrderIds) /\ IsFiniteSet(MessageIds) /\ IsFiniteSet(Licensees)
<1>1. IsFiniteSet(0 .. MaxOrders - 1)
  BY LicenceAssumption, FS_Interval
<1>2. IsFiniteSet(Senders) /\ IsFiniteSet(Licensees)
  BY LicenceAssumption
<1>3. IsFiniteSet(Senders \X (0 .. MaxOrders - 1))
  BY <1>1, <1>2, FS_Product
<1>4. IsFiniteSet(Licensees \X (0 .. MaxOrders - 1))
  BY <1>1, <1>2, FS_Product
<1> DEFINE N == 0 .. MaxOrders - 1
           f == [p \in Senders \X (Licensees \X N) |-> <<p[1], p[2][1], p[2][2]>>]
<1>5. IsFiniteSet(Senders \X (Licensees \X N))
  BY <1>2, <1>4, FS_Product
<1>6. f \in Surjection(Senders \X (Licensees \X N), OrderIds)
  <2>1. f \in [Senders \X (Licensees \X N) -> OrderIds]
    BY DEF OrderIds
  <2>2. ASSUME NEW id \in OrderIds
        PROVE  \E p \in Senders \X (Licensees \X N) : f[p] = id
    <3>1. PICK s \in Senders, a \in Licensees, n \in N : id = <<s, a, n>>
      BY DEF OrderIds
    <3>2. f[<<s, <<a, n>>>>] = id
      BY <3>1
    <3> QED BY <3>1, <3>2
  <2> HIDE DEF f
  <2> QED BY <2>1, <2>2 DEF Surjection
<1>7. IsFiniteSet(OrderIds)
  BY <1>5, <1>6, FS_Surjection
<1> QED BY <1>2, <1>3, <1>7 DEF MessageIds

LEMMA HoldersDistinct ==
  /\ Receiver \in Holders /\ Protocol \in Holders /\ Owner \in Holders
  /\ Licensees \subseteq Holders
  /\ Receiver # Protocol /\ Receiver # Owner /\ Protocol # Owner
  /\ \A a \in Licensees : a # Receiver /\ a # Protocol /\ a # Owner
BY LicenceAssumption DEF Holders

-----------------------------------------------------------------------------
(* The ledger: balances, credits, orders and the two totals                *)

PendingOf(o) == IF o.status = "Pending" THEN o.amount ELSE 0

LedgerType ==
  /\ usdc \in [Holders -> Nat]
  /\ orders \in [OrderIds -> Order]
  /\ owed \in [Licensees -> Nat]
  /\ owedTotal \in Nat /\ pendingTotal \in Nat /\ licensesBought \in Nat

Ledger == LedgerType /\ TotalsAgree

(* The dollars here or swept, less what the totals promise.                *)
Net == usdc[Receiver] + usdc[Owner] - pendingTotal - owedTotal

LEMMA PendingSumMoves ==
  ASSUME orders \in [OrderIds -> Order], NEW id \in OrderIds, NEW o \in Order,
         orders' = [orders EXCEPT ![id] = o]
  PROVE  /\ orders' \in [OrderIds -> Order]
         /\ SumFunctionOnSet([i \in OrderIds |-> PendingAmount(i)], OrderIds)'
              = SumFunctionOnSet([i \in OrderIds |-> PendingAmount(i)], OrderIds)
                + (PendingOf(o) - PendingOf(orders[id]))
<1> DEFINE f == [i \in OrderIds |-> PendingAmount(i)]
           g == [i \in OrderIds |-> PendingAmount(i)']
<1>1. orders' \in [OrderIds -> Order]
  OBVIOUS
<1>2. \A i \in OrderIds : f[i] \in Int /\ g[i] \in Int
  BY <1>1 DEF PendingAmount, Order
<1>3. \A i \in OrderIds \ {id} : g[i] = f[i]
  BY DEF PendingAmount
<1>4. f[id] = PendingOf(orders[id]) /\ g[id] = PendingOf(o)
  BY DEF PendingAmount, PendingOf
<1> HIDE DEF f, g
<1>5. SumFunctionOnSet(g, OrderIds) = SumFunctionOnSet(f, OrderIds) + (g[id] - f[id])
  BY <1>2, <1>3, SetsFinite, SumChange
<1> QED BY <1>1, <1>4, <1>5 DEF f, g

LEMMA PendingCovered ==
  ASSUME Ledger, NEW id \in OrderIds
  PROVE  PendingOf(orders[id]) \in 0 .. pendingTotal
<1> DEFINE f == [i \in OrderIds |-> PendingAmount(i)]
<1>1. \A i \in OrderIds : f[i] \in Nat
  BY DEF Ledger, LedgerType, PendingAmount, Order
<1>2. f[id] = PendingOf(orders[id])
  BY DEF PendingAmount, PendingOf
<1>3. pendingTotal = SumFunctionOnSet(f, OrderIds) /\ pendingTotal \in Nat
  BY DEF Ledger, TotalsAgree, LedgerType
<1> HIDE DEF f
<1>4. f[id] <= SumFunctionOnSet(f, OrderIds)
  BY <1>1, SetsFinite, SumMember
<1> QED BY <1>1, <1>2, <1>3, <1>4

LEMMA OwedMoves ==
  ASSUME owed \in [Licensees -> Nat], NEW a \in Licensees, NEW v \in Nat,
         owed' = [owed EXCEPT ![a] = v]
  PROVE  /\ owed' \in [Licensees -> Nat]
         /\ SumFunctionOnSet(owed', Licensees)
              = SumFunctionOnSet(owed, Licensees) + (v - owed[a])
<1>1. owed' \in [Licensees -> Nat] /\ owed'[a] = v
  OBVIOUS
<1>2. \A b \in Licensees : owed[b] \in Int /\ owed'[b] \in Int
  BY <1>1
<1>3. \A b \in Licensees \ {a} : owed'[b] = owed[b]
  OBVIOUS
<1>4. SumFunctionOnSet(owed', Licensees)
        = SumFunctionOnSet(owed, Licensees) + (owed'[a] - owed[a])
  <2>1. IsFiniteSet(Licensees)
    BY SetsFinite
  <2> QED BY ONLY <1>2, <1>3, <2>1, SumChange, a \in Licensees
<1> QED BY <1>1, <1>4

LEMMA OwedCovered ==
  ASSUME Ledger, NEW a \in Licensees
  PROVE  owed[a] \in 0 .. owedTotal
<1>1. \A b \in Licensees : owed[b] \in Nat
  BY DEF Ledger, LedgerType
<1>2. owedTotal = SumFunctionOnSet(owed, Licensees) /\ owedTotal \in Nat
  BY DEF Ledger, TotalsAgree, LedgerType
<1>3. owed[a] <= SumFunctionOnSet(owed, Licensees)
  BY <1>1, SetsFinite, SumMember
<1> QED BY <1>1, <1>2, <1>3

LEMMA UsdcMoves ==
  ASSUME usdc \in [Holders -> Nat], NEW from \in Holders, NEW to \in Holders, from # to,
         NEW amount \in Nat, Moves(from, to, amount)
  PROVE  /\ usdc' \in [Holders -> Nat]
         /\ usdc'[from] = usdc[from] - amount
         /\ usdc'[to] = usdc[to] + amount
         /\ \A h \in Holders : h # from /\ h # to => usdc'[h] = usdc[h]
<1>1. usdc[from] \in Nat /\ usdc[to] \in Nat /\ usdc[from] >= amount
  BY DEF Moves
<1>2. usdc[from] - amount \in Nat /\ usdc[to] + amount \in Nat
  BY <1>1
<1>3. usdc' = [usdc EXCEPT ![from] = @ - amount, ![to] = @ + amount]
  BY DEF Moves
<1> QED BY <1>2, <1>3

LEMMA CreditMoves ==
  ASSUME Ledger, NEW a \in Licensees, NEW amount \in Nat, Credit(a, amount)
  PROVE  /\ owed' \in [Licensees -> Nat] /\ owedTotal' = owedTotal + amount
         /\ owedTotal' = SumFunctionOnSet(owed', Licensees)
<1>1. owed' = [owed EXCEPT ![a] = owed[a] + amount] /\ owed[a] + amount \in Nat
  BY DEF Credit, Ledger, LedgerType
<1>2. /\ owed' \in [Licensees -> Nat]
      /\ SumFunctionOnSet(owed', Licensees)
           = SumFunctionOnSet(owed, Licensees) + ((owed[a] + amount) - owed[a])
  BY <1>1, OwedMoves DEF Ledger, LedgerType
<1>3. owedTotal = SumFunctionOnSet(owed, Licensees) /\ owedTotal \in Nat /\ owed[a] \in Nat
  BY DEF Ledger, TotalsAgree, LedgerType
<1> QED BY <1>2, <1>3 DEF Credit

LEMMA FeeType == ASSUME NEW p \in PolicyIds PROVE Fee[p] \in Nat
BY LicenceAssumption

(* _buy with an order that the free balance covers: the fee leaves for the *)
(* policy, the change becomes a credit, and credits stay covered.          *)
LEMMA BuyMoves ==
  ASSUME Ledger, NEW id \in OrderIds, NEW o \in Order, o.licensee \in Licensees,
         o.amount >= Fee[o.policyId], Available >= o.amount, Buy(id, o)
  PROVE  /\ usdc' \in [Holders -> Nat] /\ usdc'[Owner] = usdc[Owner]
         /\ usdc'[Receiver] = usdc[Receiver] - Fee[o.policyId]
         /\ owed' \in [Licensees -> Nat]
         /\ owedTotal' = owedTotal + (o.amount - Fee[o.policyId])
         /\ owedTotal' = SumFunctionOnSet(owed', Licensees)
         /\ orders' = [orders EXCEPT ![id] = [o EXCEPT !.status = "Licensed"]]
         /\ licensesBought' = licensesBought + 1
         /\ o.amount > 0 => usdc'[Receiver] >= owedTotal'
<1> DEFINE fee == Fee[o.policyId]
<1>1. fee \in Nat /\ o.amount \in Nat
  BY FeeType DEF Order
<1>2. o.amount - fee \in Nat
  BY <1>1
<1>3. /\ Moves(Receiver, Protocol, fee) /\ Credit(o.licensee, o.amount - fee)
      /\ orders' = [orders EXCEPT ![id] = [o EXCEPT !.status = "Licensed"]]
      /\ licensesBought' = licensesBought + 1
  BY DEF Buy
<1>4. /\ usdc' \in [Holders -> Nat] /\ usdc'[Receiver] = usdc[Receiver] - fee
      /\ usdc'[Owner] = usdc[Owner]
  BY <1>1, <1>3, UsdcMoves, HoldersDistinct DEF Ledger, LedgerType
<1> HIDE DEF fee
<1>5. /\ owed' \in [Licensees -> Nat] /\ owedTotal' = owedTotal + (o.amount - fee)
      /\ owedTotal' = SumFunctionOnSet(owed', Licensees)
  BY <1>2, <1>3, CreditMoves
<1>6. usdc[Receiver] \in Nat /\ owedTotal \in Nat
  BY HoldersDistinct DEF Ledger, LedgerType
<1>7. ASSUME o.amount > 0 PROVE usdc[Receiver] - owedTotal >= o.amount
  BY <1>1, <1>6, <1>7 DEF Available
<1>8. o.amount > 0 => usdc'[Receiver] >= owedTotal'
  BY <1>1, <1>4, <1>5, <1>6, <1>7
<1> QED BY <1>3, <1>4, <1>5, <1>8 DEF fee

LEMMA OrderOfType ==
  ASSUME NEW m \in Message, NEW st \in Status
  PROVE  /\ OrderOf(m, st) \in Order /\ OrderOf(m, st).status = st
         /\ OrderOf(m, st).licensee = m.licensee /\ OrderOf(m, st).amount = m.amount
         /\ OrderOf(m, st).policyId = m.policyId
         /\ m.licensee \in Licensees /\ m.amount \in Nat \ {0} /\ m.policyId \in PolicyIds
         /\ m.orderId \in OrderIds /\ m.messageId \in MessageIds
<1>1. m.amount \in Nat \ {0}
  BY LicenceAssumption DEF Message
<1> QED BY <1>1 DEF Message, OrderOf, Order

(* A new order takes its amount out of Net, whatever becomes of it.        *)
LEMMA ProcessMoves ==
  ASSUME Ledger, NEW m \in Message, IsNew(m), ProcessMessage(m)
  PROVE  /\ Ledger'
         /\ Net' = Net - m.amount
         /\ \E st \in {"Pending", "Licensed", "Rejected"} :
              orders' = [orders EXCEPT ![m.orderId] = OrderOf(m, st)]
         /\ licensesBought' > licensesBought => usdc'[Receiver] >= owedTotal'
<1> DEFINE id == m.orderId
           old == SumFunctionOnSet([i \in OrderIds |-> PendingAmount(i)], OrderIds)
<1>1. /\ id \in OrderIds /\ m.licensee \in Licensees /\ m.amount \in Nat \ {0}
      /\ m.policyId \in PolicyIds
  BY OrderOfType DEF Status
<1>2. PendingOf(orders[id]) = 0
  BY DEF IsNew, PendingOf
<1>3. /\ usdc \in [Holders -> Nat] /\ orders \in [OrderIds -> Order]
      /\ owed \in [Licensees -> Nat] /\ owedTotal \in Nat /\ pendingTotal \in Nat
      /\ licensesBought \in Nat /\ usdc[Receiver] \in Nat /\ usdc[Owner] \in Nat
      /\ pendingTotal = old /\ owedTotal = SumFunctionOnSet(owed, Licensees)
  BY HoldersDistinct DEF Ledger, LedgerType, TotalsAgree
<1>4. ASSUME NEW st \in {"Pending", "Licensed", "Rejected"},
             orders' = [orders EXCEPT ![id] = OrderOf(m, st)]
      PROVE  /\ orders' \in [OrderIds -> Order]
             /\ old' = old + PendingOf(OrderOf(m, st))
  <2>1. OrderOf(m, st) \in Order
    BY OrderOfType DEF Status
  <2>2. PendingOf(OrderOf(m, st)) \in Int
    BY <2>1 DEF PendingOf, Order
  <2>3. old \in Int
    BY <1>3
  <2>4. /\ orders' \in [OrderIds -> Order]
        /\ old' = old + (PendingOf(OrderOf(m, st)) - PendingOf(orders[id]))
    BY <1>1, <1>3, <1>4, <2>1, PendingSumMoves
  <2> HIDE DEF old, id
  <2> QED BY <1>2, <2>2, <2>3, <2>4
<1> HIDE DEF old, id
<1>5. CASE BuysAtOnce(m) /\ Buy(id, OrderOf(m, "Pending")) /\ UNCHANGED pendingTotal
  <2> DEFINE o == OrderOf(m, "Pending")
  <2>1. /\ o \in Order /\ o.licensee = m.licensee /\ o.amount = m.amount
        /\ o.policyId = m.policyId
    BY OrderOfType DEF Status
  <2>2. [o EXCEPT !.status = "Licensed"] = OrderOf(m, "Licensed")
    BY DEF OrderOf
  <2>3. o.amount >= Fee[o.policyId] /\ Available >= o.amount
    BY <1>5, <2>1 DEF BuysAtOnce, Buyable
  <2>4. Fee[o.policyId] \in Nat
    BY <1>1, <2>1, FeeType
  <2> HIDE DEF o
  <2>5. /\ usdc' \in [Holders -> Nat] /\ usdc'[Owner] = usdc[Owner]
        /\ usdc'[Receiver] = usdc[Receiver] - Fee[o.policyId]
        /\ owed' \in [Licensees -> Nat]
        /\ owedTotal' = owedTotal + (o.amount - Fee[o.policyId])
        /\ owedTotal' = SumFunctionOnSet(owed', Licensees)
        /\ orders' = [orders EXCEPT ![id] = [o EXCEPT !.status = "Licensed"]]
        /\ licensesBought' = licensesBought + 1
        /\ o.amount > 0 => usdc'[Receiver] >= owedTotal'
    BY <1>1, <1>5, <2>1, <2>3, BuyMoves DEF o
  <2>6. orders' = [orders EXCEPT ![id] = OrderOf(m, "Licensed")]
    BY <2>2, <2>5 DEF o
  <2>7. PendingOf(OrderOf(m, "Licensed")) = 0
    BY DEF PendingOf, OrderOf
  <2>8. orders' \in [OrderIds -> Order] /\ old' = old
    BY <1>3, <1>4, <2>6, <2>7
  <2>9. pendingTotal' = pendingTotal
    BY <1>5
  <2>10. Net' = Net - m.amount
    BY <1>1, <1>3, <2>1, <2>4, <2>5, <2>9 DEF Net
  <2>11. Ledger'
    <3>1. owedTotal' \in Nat
      BY <1>1, <1>3, <2>1, <2>3, <2>4, <2>5
    <3>2. LedgerType'
      BY <1>3, <2>5, <2>8, <2>9, <3>1 DEF LedgerType
    <3>3. TotalsAgree'
      BY <1>3, <2>5, <2>8, <2>9 DEF TotalsAgree, old
    <3> QED BY <3>2, <3>3 DEF Ledger
  <2>12. usdc'[Receiver] >= owedTotal'
    BY <1>1, <2>1, <2>5
  <2> QED BY <2>6, <2>10, <2>11, <2>12 DEF id
<1>6. CASE /\ orders' = [orders EXCEPT ![id] = OrderOf(m, "Pending")]
           /\ pendingTotal' = pendingTotal + m.amount
           /\ UNCHANGED <<usdc, owed, owedTotal, licensesBought>>
  <2>1. PendingOf(OrderOf(m, "Pending")) = m.amount
    BY DEF PendingOf, OrderOf
  <2>2. orders' \in [OrderIds -> Order] /\ old' = old + m.amount
    BY <1>4, <1>6, <2>1
  <2>3. Net' = Net - m.amount
    BY <1>1, <1>3, <1>6 DEF Net
  <2>4. pendingTotal' \in Nat
    BY <1>1, <1>3, <1>6
  <2>5. LedgerType'
    BY <1>3, <1>6, <2>2, <2>4 DEF LedgerType
  <2>6. TotalsAgree'
    BY <1>3, <1>6, <2>2 DEF TotalsAgree, old
  <2>7. ~ (licensesBought' > licensesBought)
    BY <1>3, <1>6
  <2> QED BY <1>6, <2>3, <2>5, <2>6, <2>7 DEF Ledger, id
<1>7. CASE /\ orders' = [orders EXCEPT ![id] = OrderOf(m, "Rejected")]
           /\ Credit(m.licensee, m.amount)
           /\ UNCHANGED <<usdc, pendingTotal, licensesBought>>
  <2>1. PendingOf(OrderOf(m, "Rejected")) = 0
    BY DEF PendingOf, OrderOf
  <2>2. orders' \in [OrderIds -> Order] /\ old' = old
    BY <1>3, <1>4, <1>7, <2>1
  <2>3. /\ owed' \in [Licensees -> Nat] /\ owedTotal' = owedTotal + m.amount
        /\ owedTotal' = SumFunctionOnSet(owed', Licensees)
    BY <1>1, <1>7, CreditMoves
  <2>4. Net' = Net - m.amount
    BY <1>1, <1>3, <1>7, <2>3 DEF Net
  <2>5. owedTotal' \in Nat
    BY <1>1, <1>3, <2>3
  <2>6. LedgerType'
    BY <1>3, <1>7, <2>2, <2>3, <2>5 DEF LedgerType
  <2>7. TotalsAgree'
    BY <1>3, <1>7, <2>2, <2>3 DEF TotalsAgree, old
  <2>8. ~ (licensesBought' > licensesBought)
    BY <1>3, <1>7
  <2> QED BY <1>7, <2>4, <2>6, <2>7, <2>8 DEF Ledger, id
<1>8. \/ BuysAtOnce(m) /\ Buy(id, OrderOf(m, "Pending")) /\ UNCHANGED pendingTotal
      \/ /\ orders' = [orders EXCEPT ![id] = OrderOf(m, "Pending")]
         /\ pendingTotal' = pendingTotal + m.amount
         /\ UNCHANGED <<usdc, owed, owedTotal, licensesBought>>
      \/ /\ orders' = [orders EXCEPT ![id] = OrderOf(m, "Rejected")]
         /\ Credit(m.licensee, m.amount)
         /\ UNCHANGED <<usdc, pendingTotal, licensesBought>>
  BY DEF ProcessMessage, id
<1> QED BY <1>5, <1>6, <1>7, <1>8

LEMMA LedgerParts ==
  ASSUME Ledger
  PROVE  /\ usdc \in [Holders -> Nat] /\ orders \in [OrderIds -> Order]
         /\ owed \in [Licensees -> Nat] /\ owedTotal \in Nat /\ pendingTotal \in Nat
         /\ licensesBought \in Nat /\ usdc[Receiver] \in Nat /\ usdc[Owner] \in Nat
BY HoldersDistinct DEF Ledger, LedgerType

(* executePending and cancelPending: the order's amount leaves pendingTotal *)
(* and, as a fee and change or as a refund, the receiver.                   *)
LEMMA ExecuteMoves ==
  ASSUME Ledger, NEW id \in OrderIds, orders[id].licensee \in Licensees, orders[id].amount > 0,
         ExecutePending(id)
  PROVE  /\ Ledger' /\ Net' = Net
         /\ orders' = [orders EXCEPT ![id] = [orders[id] EXCEPT !.status = "Licensed"]]
         /\ usdc'[Receiver] >= owedTotal'
<1> DEFINE o == orders[id]
           old == SumFunctionOnSet([i \in OrderIds |-> PendingAmount(i)], OrderIds)
           new == [o EXCEPT !.status = "Licensed"]
<1>1. /\ o \in Order /\ o.amount \in Nat \ {0} /\ o.licensee \in Licensees
      /\ o.policyId \in PolicyIds
  BY LedgerParts DEF Order
<1>2. /\ o.status = "Pending" /\ o.amount >= Fee[o.policyId] /\ Available >= o.amount
      /\ Buy(id, o) /\ pendingTotal' = pendingTotal - o.amount
  BY DEF ExecutePending, Buyable
<1>3. new \in Order /\ PendingOf(new) = 0
  BY <1>1 DEF Order, Status, PendingOf
<1>4. PendingOf(o) = o.amount
  BY <1>2 DEF PendingOf
<1>5. Fee[o.policyId] \in Nat
  BY <1>1, FeeType
<1>6. pendingTotal = old
  BY DEF Ledger, TotalsAgree
<1>7. PendingOf(o) \in 0 .. pendingTotal
  BY PendingCovered
<1> HIDE DEF o, old
<1>8. /\ usdc' \in [Holders -> Nat] /\ usdc'[Owner] = usdc[Owner]
      /\ usdc'[Receiver] = usdc[Receiver] - Fee[o.policyId]
      /\ owed' \in [Licensees -> Nat]
      /\ owedTotal' = owedTotal + (o.amount - Fee[o.policyId])
      /\ owedTotal' = SumFunctionOnSet(owed', Licensees)
      /\ orders' = [orders EXCEPT ![id] = new]
      /\ licensesBought' = licensesBought + 1
      /\ o.amount > 0 => usdc'[Receiver] >= owedTotal'
  BY <1>1, <1>2, BuyMoves
<1> HIDE DEF new
<1>9. orders' \in [OrderIds -> Order] /\ old' = old + (PendingOf(new) - PendingOf(o))
  BY <1>3, <1>8, LedgerParts, PendingSumMoves DEF o, old
<1>10. old' = pendingTotal'
  BY <1>1, <1>2, <1>3, <1>4, <1>6, <1>7, <1>9, LedgerParts
<1>11. pendingTotal' \in Nat /\ owedTotal' \in Nat
  BY <1>1, <1>2, <1>4, <1>5, <1>7, <1>8, LedgerParts
<1>12. LedgerType'
  BY <1>8, <1>9, <1>11, LedgerParts DEF LedgerType
<1>13. TotalsAgree'
  BY <1>8, <1>10 DEF TotalsAgree, old
<1>14. Net' = Net
  BY <1>1, <1>2, <1>5, <1>8, LedgerParts DEF Net
<1> QED BY <1>1, <1>8, <1>12, <1>13, <1>14 DEF Ledger, new, o

LEMMA CancelMoves ==
  ASSUME Ledger, NEW id \in OrderIds, orders[id].licensee \in Licensees, CancelPending(id)
  PROVE  /\ Ledger' /\ Net' = Net
         /\ orders' = [orders EXCEPT ![id] = [orders[id] EXCEPT !.status = "Cancelled"]]
         /\ orders[id].amount > 0 => usdc'[Receiver] >= owedTotal'
         /\ licensesBought' = licensesBought
<1> DEFINE o == orders[id]
           old == SumFunctionOnSet([i \in OrderIds |-> PendingAmount(i)], OrderIds)
           new == [o EXCEPT !.status = "Cancelled"]
<1>1. o \in Order /\ o.amount \in Nat /\ o.licensee \in Licensees
  BY LedgerParts DEF Order
<1>2. /\ o.status = "Pending" /\ Available >= o.amount
      /\ orders' = [orders EXCEPT ![id].status = "Cancelled"]
      /\ pendingTotal' = pendingTotal - o.amount
      /\ Moves(Receiver, o.licensee, o.amount)
      /\ UNCHANGED <<owed, owedTotal, licensesBought>>
  BY DEF CancelPending
<1>3. new \in Order /\ PendingOf(new) = 0
  BY <1>1 DEF Order, Status, PendingOf
<1>4. PendingOf(o) = o.amount
  BY <1>2 DEF PendingOf
<1>5. pendingTotal = old /\ owedTotal = SumFunctionOnSet(owed, Licensees)
  BY DEF Ledger, TotalsAgree
<1>6. PendingOf(o) \in 0 .. pendingTotal
  BY PendingCovered
<1>7. orders' = [orders EXCEPT ![id] = new]
  BY <1>2, LedgerParts
<1> HIDE DEF o, old, new
<1>8. /\ usdc' \in [Holders -> Nat] /\ usdc'[Owner] = usdc[Owner]
      /\ usdc'[Receiver] = usdc[Receiver] - o.amount
  BY <1>1, <1>2, LedgerParts, UsdcMoves, HoldersDistinct
<1>9. orders' \in [OrderIds -> Order] /\ old' = old + (PendingOf(new) - PendingOf(o))
  BY <1>3, <1>7, LedgerParts, PendingSumMoves DEF o, old
<1>10. old' = pendingTotal'
  BY <1>1, <1>2, <1>3, <1>4, <1>5, <1>6, <1>9, LedgerParts
<1>11. pendingTotal' \in Nat
  BY <1>1, <1>2, <1>4, <1>6, LedgerParts
<1>12. LedgerType'
  BY <1>2, <1>8, <1>9, <1>11, LedgerParts DEF LedgerType
<1>13. TotalsAgree'
  BY <1>2, <1>5, <1>10 DEF TotalsAgree, old
<1>14. Net' = Net
  BY <1>1, <1>2, <1>8, LedgerParts DEF Net
<1>15. ASSUME o.amount > 0 PROVE usdc'[Receiver] >= owedTotal'
  <2>1. usdc[Receiver] - owedTotal >= o.amount
    BY <1>1, <1>2, <1>15, LedgerParts DEF Available
  <2> QED BY <1>1, <1>2, <1>8, <2>1, LedgerParts
<1> QED BY <1>2, <1>7, <1>12, <1>13, <1>14, <1>15 DEF Ledger, new, o

LEMMA WithdrawMoves ==
  ASSUME Ledger, NEW a \in Licensees, WithdrawOwed(a)
  PROVE  Ledger' /\ Net' = Net
<1>1. owed[a] \in 0 .. owedTotal /\ owed[a] \in Nat
  BY OwedCovered, LedgerParts
<1>2. /\ owed' = [owed EXCEPT ![a] = 0] /\ owedTotal' = owedTotal - owed[a]
      /\ Moves(Receiver, a, owed[a])
      /\ UNCHANGED <<orders, pendingTotal, licensesBought>>
  BY DEF WithdrawOwed
<1>3. /\ usdc' \in [Holders -> Nat] /\ usdc'[Owner] = usdc[Owner]
      /\ usdc'[Receiver] = usdc[Receiver] - owed[a]
  BY <1>1, <1>2, LedgerParts, UsdcMoves, HoldersDistinct
<1>4. /\ owed' \in [Licensees -> Nat]
      /\ SumFunctionOnSet(owed', Licensees) = SumFunctionOnSet(owed, Licensees) + (0 - owed[a])
  BY <1>2, LedgerParts, OwedMoves
<1>5. owedTotal = SumFunctionOnSet(owed, Licensees)
  BY DEF Ledger, TotalsAgree
<1>6. owedTotal' = SumFunctionOnSet(owed', Licensees) /\ owedTotal' \in Nat
  BY <1>1, <1>2, <1>4, <1>5, LedgerParts
<1>7. LedgerType'
  BY <1>2, <1>3, <1>4, <1>6, LedgerParts DEF LedgerType
<1>8. TotalsAgree'
  BY <1>2, <1>6 DEF Ledger, TotalsAgree, PendingAmount
<1>9. Net' = Net
  BY <1>1, <1>2, <1>3, LedgerParts DEF Net
<1> QED BY <1>7, <1>8, <1>9 DEF Ledger

LEMMA SweepMoves ==
  ASSUME Ledger, Sweep
  PROVE  Ledger' /\ Net' = Net
<1> DEFINE excess == usdc[Receiver] - (pendingTotal + owedTotal)
<1>1. excess \in Nat
  BY LedgerParts DEF Sweep
<1>2. Moves(Receiver, Owner, excess)
  BY DEF Sweep
<1>3. UNCHANGED <<orders, owed, owedTotal, pendingTotal, licensesBought>>
  BY DEF Sweep
<1> HIDE DEF excess
<1>4. /\ usdc' \in [Holders -> Nat] /\ usdc'[Owner] = usdc[Owner] + excess
      /\ usdc'[Receiver] = usdc[Receiver] - excess
  BY <1>1, <1>2, LedgerParts, UsdcMoves, HoldersDistinct
<1>5. LedgerType'
  BY <1>3, <1>4, LedgerParts DEF LedgerType
<1>6. TotalsAgree'
  BY <1>3 DEF Ledger, TotalsAgree, PendingAmount
<1>7. Net' = Net
  BY <1>1, <1>3, <1>4, LedgerParts DEF Net
<1> QED BY <1>5, <1>6, <1>7 DEF Ledger

LEMMA LedgerStutter ==
  ASSUME Ledger, UNCHANGED <<usdc, orders, owed, owedTotal, pendingTotal, licensesBought>>
  PROVE  Ledger' /\ Net' = Net
BY DEF Ledger, LedgerType, TotalsAgree, PendingAmount, Net

-----------------------------------------------------------------------------
(* Messages and the orders they became                                     *)

(* `n` of sender `s` has been used.                                        *)
Used(x) == x[2] < orderCount[x[1]]

Traced ==
  /\ orderCount \in [Senders -> Nat]
  /\ sent \subseteq Message /\ IsFiniteSet(sent)
  /\ minted \subseteq MessageIds /\ executed \subseteq MessageIds /\ failed \subseteq executed
  /\ \A x \in minted : Used(x)
  /\ \A m \in sent : Used(m.messageId) /\ m.messageId = <<m.orderId[1], m.orderId[3]>>
  /\ \A m, n \in sent : m.messageId = n.messageId => m = n
  /\ \A m \in sent : m.messageId \notin executed \/ m.messageId \in failed => IsNew(m)
  /\ \A id \in OrderIds : orders[id].status # "None" =>
       \E m \in sent : m.orderId = id /\ orders[id] = OrderOf(m, orders[id].status)

Around ==
  /\ dust \in Nat /\ policyCount \in Nat
  /\ blocked \subseteq Holders /\ allowed \subseteq Senders

Books == Ledger /\ Around /\ Traced /\ DollarsMatchOrders

Unminted == {m \in sent : m.messageId \notin minted}
Unordered == {m \in sent : IsNew(m)}

LEMMA AmountInt ==
  ASSUME NEW S, IsFiniteSet(S), S \subseteq Message
  PROVE  AmountOf(S) \in Int
<1> DEFINE f == [m \in S |-> m.amount]
<1>1. \A m \in S : f[m] \in Int
  BY OrderOfType DEF Status
<1> HIDE DEF f
<1>2. SumFunctionOnSet(f, S) \in Int
  BY <1>1, SumInt
<1> QED BY <1>2 DEF f, AmountOf

LEMMA AmountRemove ==
  ASSUME NEW S, IsFiniteSet(S), S \subseteq Message, NEW x \in S
  PROVE  AmountOf(S \ {x}) = AmountOf(S) - x.amount
<1> DEFINE f == [m \in S |-> m.amount]
           g == [m \in S \ {x} |-> m.amount]
<1>1. \A m \in S : m.amount \in Int
  BY OrderOfType DEF Status
<1>2. \A m \in S : f[m] \in Int
  BY <1>1
<1>3. \A m \in S \ {x} : f[m] \in Int /\ g[m] = f[m]
  BY <1>1
<1>4. IsFiniteSet(S \ {x})
  BY FS_Subset
<1>5. f[x] = x.amount
  OBVIOUS
<1> HIDE DEF f, g
<1>6. SumFunctionOnSet(g, S \ {x}) = SumFunctionOnSet(f, S \ {x})
  BY <1>3, <1>4, SumSame
<1>7. SumFunctionOnSet(f, S) = f[x] + SumFunctionOnSet(f, S \ {x})
  BY <1>2, SumRemove
<1>8. SumFunctionOnSet(f, S \ {x}) \in Int
  BY <1>3, <1>4, SumInt
<1>9. x.amount \in Int
  BY <1>1
<1> QED BY <1>5, <1>6, <1>7, <1>8, <1>9 DEF f, g, AmountOf

LEMMA AmountInsert ==
  ASSUME NEW S, IsFiniteSet(S), S \subseteq Message, NEW x \in Message, x \notin S
  PROVE  AmountOf(S \cup {x}) = AmountOf(S) + x.amount
<1>1. IsFiniteSet(S \cup {x}) /\ S \cup {x} \subseteq Message
  BY FS_AddElement
<1>2. (S \cup {x}) \ {x} = S
  OBVIOUS
<1>3. AmountOf(S) = AmountOf(S \cup {x}) - x.amount
  BY <1>1, <1>2, AmountRemove
<1>4. AmountOf(S \cup {x}) \in Int /\ x.amount \in Int
  BY <1>1, AmountInt, OrderOfType DEF Status
<1> QED BY <1>3, <1>4

(* The balance of dollars and orders, as the steps use it.                 *)
LEMMA DollarsAsNet ==
  ASSUME Ledger, Traced, dust \in Nat
  PROVE  /\ DollarsMatchOrders <=> Net + AmountOf(Unminted) = dust + AmountOf(Unordered)
         /\ Net \in Int /\ AmountOf(Unminted) \in Int /\ AmountOf(Unordered) \in Int
         /\ IsFiniteSet(Unminted) /\ IsFiniteSet(Unordered)
         /\ Unminted \subseteq Message /\ Unordered \subseteq Message
<1>1. /\ Unminted \subseteq sent /\ Unordered \subseteq sent
      /\ sent \subseteq Message /\ IsFiniteSet(sent)
  BY DEF Unminted, Unordered, Traced
<1>2. /\ IsFiniteSet(Unminted) /\ IsFiniteSet(Unordered)
      /\ Unminted \subseteq Message /\ Unordered \subseteq Message
  BY <1>1, FS_Subset
<1>3. AmountOf(Unminted) \in Int /\ AmountOf(Unordered) \in Int
  BY <1>2, AmountInt
<1>4. Net \in Int
  BY LedgerParts DEF Net
<1>5. DollarsMatchOrders <=>
        usdc[Receiver] + usdc[Owner] + AmountOf(Unminted)
          = pendingTotal + owedTotal + dust + AmountOf(Unordered)
  BY DEF DollarsMatchOrders, Unminted, Unordered
<1> QED BY <1>2, <1>3, <1>4, <1>5, LedgerParts DEF Net

(* Ids are never reused: two messages sent for one order id are one.       *)
LEMMA OneMessagePerOrder ==
  ASSUME Traced, NEW m \in sent, NEW n \in sent, m.orderId = n.orderId
  PROVE  m = n
BY DEF Traced

LEMMA UnprocessedIsNew ==
  ASSUME Traced, NEW m \in sent, m.messageId \notin executed \/ m.messageId \in failed
  PROVE  IsNew(m)
BY DEF Traced

(* Processing turns one message's order, and no other's, from none to some. *)
LEMMA ProcessTraced ==
  ASSUME Ledger, Traced, NEW m \in sent, IsNew(m),
         NEW st \in {"Pending", "Licensed", "Rejected"},
         orders' = [orders EXCEPT ![m.orderId] = OrderOf(m, st)],
         UNCHANGED <<orderCount, sent, minted>>,
         executed' \subseteq MessageIds, failed' \subseteq executed',
         m.messageId \in executed' /\ m.messageId \notin failed',
         \A n \in sent : n.messageId # m.messageId =>
            (n.messageId \notin executed' \/ n.messageId \in failed' =>
               n.messageId \notin executed \/ n.messageId \in failed)
  PROVE  /\ Traced' /\ Unminted' = Unminted
         /\ m \in Unordered /\ Unordered' = Unordered \ {m}
<1>1. /\ m \in Message /\ m.orderId \in OrderIds /\ sent \subseteq Message
      /\ \A n \in sent : n.orderId \in OrderIds
  BY OrderOfType DEF Traced, Status
<1>2. OrderOf(m, st).status = st /\ st # "None"
  BY <1>1, OrderOfType DEF Status
<1>3. \A id \in OrderIds : id # m.orderId => orders'[id] = orders[id]
  BY LedgerParts
<1>4. orders'[m.orderId] = OrderOf(m, st)
  BY <1>1, LedgerParts
<1>5. ~ IsNew(m)'
  BY <1>2, <1>4 DEF IsNew
<1>6. ASSUME NEW n \in sent, n # m
      PROVE  IsNew(n)' <=> IsNew(n)
  <2>1. n.orderId # m.orderId
    BY <1>6, OneMessagePerOrder
  <2> QED BY <1>1, <1>3, <2>1 DEF IsNew
<1>7. m \in Unordered /\ Unordered' = Unordered \ {m}
  BY <1>5, <1>6 DEF Unordered
<1>8. Unminted' = Unminted
  BY DEF Unminted
<1>9. ASSUME NEW n \in sent, n.messageId \notin executed' \/ n.messageId \in failed'
      PROVE  IsNew(n)'
  <2>1. n.messageId # m.messageId
    BY <1>9
  <2>2. n # m
    BY <2>1
  <2>3. IsNew(n)
    BY <1>9, <2>1, UnprocessedIsNew
  <2> QED BY <1>6, <2>2, <2>3
<1>10. ASSUME NEW id \in OrderIds, orders'[id].status # "None"
       PROVE  \E n \in sent : n.orderId = id /\ orders'[id] = OrderOf(n, orders'[id].status)
  <2>1. CASE id = m.orderId
    BY <1>2, <1>4, <2>1
  <2>2. CASE id # m.orderId
    BY <1>3, <1>10, <2>2 DEF Traced
  <2> QED BY <2>1, <2>2
<1>11. Traced'
  BY <1>9, <1>10 DEF Traced, Used
<1> QED BY <1>7, <1>8, <1>11

(* A step that ends a pending order.                                       *)
LEMMA EndTraced ==
  ASSUME Ledger, Traced, NEW id \in OrderIds, orders[id].status = "Pending",
         NEW st \in {"Licensed", "Cancelled"},
         orders' = [orders EXCEPT ![id] = [orders[id] EXCEPT !.status = st]],
         UNCHANGED <<orderCount, sent, minted, executed, failed>>
  PROVE  Traced' /\ Unminted' = Unminted /\ Unordered' = Unordered
<1>1. \A i \in OrderIds : i # id => orders'[i] = orders[i]
  BY LedgerParts
<1>2. orders'[id] = [orders[id] EXCEPT !.status = st] /\ orders'[id].status = st
  BY LedgerParts DEF Order
<1>3. \A n \in sent : n.orderId \in OrderIds
  BY OrderOfType DEF Traced, Status
<1>4. ASSUME NEW n \in sent PROVE IsNew(n)' <=> IsNew(n)
  BY <1>1, <1>2, <1>3 DEF IsNew
<1>5. Unminted' = Unminted /\ Unordered' = Unordered
  BY <1>4 DEF Unminted, Unordered
<1>6. PICK m \in sent : m.orderId = id /\ orders[id] = OrderOf(m, "Pending")
  BY DEF Traced
<1>7. orders'[id] = OrderOf(m, st)
  BY <1>2, <1>6 DEF OrderOf
<1>8. ASSUME NEW i \in OrderIds, orders'[i].status # "None"
      PROVE  \E n \in sent : n.orderId = i /\ orders'[i] = OrderOf(n, orders'[i].status)
  <2>1. CASE i = id
    BY <1>2, <1>6, <1>7, <2>1
  <2>2. CASE i # id
    BY <1>1, <1>8, <2>2 DEF Traced
  <2> QED BY <2>1, <2>2
<1>9. Traced'
  BY <1>4, <1>8 DEF Traced, Used
<1> QED BY <1>5, <1>9

(* An order the receiver keeps belongs to the buyer who sent it.           *)
LEMMA PlacedOrder ==
  ASSUME Ledger, Traced, NEW id \in OrderIds, orders[id].status # "None"
  PROVE  orders[id].licensee \in Licensees /\ orders[id].amount > 0
<1>1. PICK m \in sent : m.orderId = id /\ orders[id] = OrderOf(m, orders[id].status)
  BY DEF Traced
<1>2. m \in Message
  BY DEF Traced
<1>3. orders[id].status \in Status
  BY LedgerParts DEF Order
<1> QED BY <1>1, <1>2, <1>3, OrderOfType

LEMMA TracedStutter ==
  ASSUME Traced, UNCHANGED <<orderCount, sent, minted, executed, failed, orders>>
  PROVE  Traced' /\ Unminted' = Unminted /\ Unordered' = Unordered
BY DEF Traced, Used, IsNew, Unminted, Unordered

(* What is left to show of a step once its parts are known.                *)
LEMMA BalanceStep ==
  ASSUME Ledger', Traced', Around',
         Net' + AmountOf(Unminted)' = dust' + AmountOf(Unordered)',
         AmountOf(Unminted)' \in Int, AmountOf(Unordered)' \in Int
  PROVE  Books'
<1>1. /\ usdc'[Receiver] \in Nat /\ usdc'[Owner] \in Nat /\ dust' \in Nat
      /\ pendingTotal' \in Nat /\ owedTotal' \in Nat
  BY HoldersDistinct DEF Ledger, LedgerType, Around
<1>2. DollarsMatchOrders' <=>
        usdc'[Receiver] + usdc'[Owner] + AmountOf(Unminted)'
          = pendingTotal' + owedTotal' + dust' + AmountOf(Unordered)'
  BY DEF DollarsMatchOrders, Unminted, Unordered
<1>3. Net' = usdc'[Receiver] + usdc'[Owner] - pendingTotal' - owedTotal'
  BY DEF Net
<1>4. DollarsMatchOrders'
  BY <1>1, <1>2, <1>3
<1> QED BY <1>4 DEF Books

(* A step that moves no dollars between the bridge, the orders and Net.    *)
LEMMA SameBalance ==
  ASSUME Books, Ledger', Traced', Around', Net' = Net, dust' = dust,
         Unminted' = Unminted, Unordered' = Unordered
  PROVE  Books'
<1>1. /\ Net + AmountOf(Unminted) = dust + AmountOf(Unordered)
      /\ AmountOf(Unminted) \in Int /\ AmountOf(Unordered) \in Int
  BY DollarsAsNet DEF Books, Around
<1>2. AmountOf(Unminted)' = AmountOf(Unminted) /\ AmountOf(Unordered)' = AmountOf(Unordered)
  BY DEF AmountOf
<1> QED BY <1>1, <1>2, BalanceStep

-----------------------------------------------------------------------------
(* One lemma per action                                                    *)

LEMMA BuyLicenceBooks ==
  ASSUME Books, NEW s \in Senders, NEW a \in Licensees, NEW p \in PolicyIds,
         NEW x \in Amounts, NEW fee \in MaxFees, BuyLicence(s, a, p, x, fee)
  PROVE  Books'
<1>1. Ledger /\ Traced /\ Around
  BY DEF Books
<1>2. PICK n \in 0 .. MaxOrders - 1 : n = orderCount[s]
  BY LicenceAssumption, <1>1 DEF BuyLicence, Traced
<1> DEFINE new == [messageId |-> <<s, n>>, sender |-> s, orderId |-> <<s, a, n>>,
                   licensee |-> a, policyId |-> p, amount |-> x, maxFee |-> fee]
<1>ty. new \in Message
  BY <1>2 DEF Message, MessageIds, OrderIds
<1>3. PICK m \in Message : m = new
  BY <1>ty, Zenon
<1>4. orderCount' = [orderCount EXCEPT ![s] = @ + 1] /\ sent' = sent \cup {m}
  BY <1>2, <1>3 DEF BuyLicence, NextOrderId
<1>5. /\ UNCHANGED <<minted, executed, failed, orders>>
      /\ UNCHANGED <<usdc, owed, owedTotal, pendingTotal, licensesBought>>
      /\ UNCHANGED <<dust, policyCount, blocked, allowed>>
  BY DEF BuyLicence, bridgeVars, aroundVars
<1>6. Ledger' /\ Net' = Net
  BY <1>1, <1>5, LedgerStutter
<1>7. Around'
  BY <1>1, <1>5 DEF Around
<1>8. m.messageId = <<s, n>> /\ m.orderId = <<s, a, n>> /\ m.amount = x
  BY <1>3
<1>9. n \in Nat /\ orderCount' \in [Senders -> Nat]
  BY <1>1, <1>2, <1>4 DEF Traced
<1>10. ASSUME NEW y \in MessageIds, Used(y) PROVE y # <<s, n>> /\ Used(y)'
  <2>1. y[1] \in Senders /\ y[2] \in Nat
    BY LicenceAssumption DEF MessageIds
  <2>2. orderCount[y[1]] \in Nat /\ y[2] < orderCount[y[1]]
    BY <1>1, <1>10, <2>1 DEF Traced, Used
  <2>3. orderCount'[y[1]] >= orderCount[y[1]]
    BY <1>1, <1>4, <2>1, <2>2 DEF Traced
  <2>4. y[2] < orderCount'[y[1]]
    BY <1>9, <2>1, <2>2, <2>3
  <2>5. y # <<s, n>>
    BY <1>2, <2>2
  <2> QED BY <2>4, <2>5 DEF Used
<1>11. Used(<<s, n>>)'
  <2>1. orderCount'[s] = n + 1
    BY <1>1, <1>2, <1>4 DEF Traced
  <2>2. n < orderCount'[s]
    BY <1>9, <2>1
  <2> QED BY <2>2 DEF Used
<1> HIDE DEF new
<1>12. \A k \in sent : k \in Message /\ k.messageId \in MessageIds /\ k.messageId # <<s, n>>
  <2>1. \A k \in sent : k \in Message /\ Used(k.messageId)
    BY <1>1 DEF Traced
  <2> QED BY <1>10, <2>1, OrderOfType DEF Status
<1>13. m \notin sent
  BY <1>8, <1>12
<1>14. IsNew(m)
  <2>1. ASSUME ~ IsNew(m) PROVE FALSE
    <3>1. m.orderId \in OrderIds
      BY <1>3, OrderOfType DEF Status
    <3>2. PICK k \in sent : k.orderId = m.orderId
      BY <1>1, <2>1, <3>1 DEF Traced, IsNew
    <3>3. k.messageId = <<s, n>>
      BY <1>1, <1>8, <3>2 DEF Traced
    <3> QED BY <1>12, <3>3
  <2> QED BY <2>1
<1>15. <<s, n>> \notin minted
  BY <1>1, <1>10 DEF Traced
<1>16. Unminted' = Unminted \cup {m} /\ m \notin Unminted
  BY <1>4, <1>5, <1>8, <1>13, <1>15 DEF Unminted
<1>17. Unordered' = Unordered \cup {m} /\ m \notin Unordered
  BY <1>4, <1>5, <1>13, <1>14 DEF Unordered, IsNew
<1>18. Traced'
  <2>1. sent' \subseteq Message /\ IsFiniteSet(sent')
    BY <1>1, <1>3, <1>4, FS_AddElement DEF Traced
  <2>2. \A y \in minted' : Used(y)'
    BY <1>1, <1>5, <1>10 DEF Traced
  <2>3. ASSUME NEW k \in sent'
        PROVE  Used(k.messageId)' /\ k.messageId = <<k.orderId[1], k.orderId[3]>>
    <3>1. CASE k = m
      BY <1>8, <1>11, <3>1
    <3>2. CASE k \in sent
      <4>1. Used(k.messageId) /\ k.messageId = <<k.orderId[1], k.orderId[3]>>
        BY <1>1, <3>2 DEF Traced
      <4> QED BY <1>10, <1>12, <3>2, <4>1
    <3> QED BY <1>4, <3>1, <3>2
  <2>4. \A j, k \in sent' : j.messageId = k.messageId => j = k
    BY <1>1, <1>4, <1>8, <1>12 DEF Traced
  <2>5. \A k \in sent' : k.messageId \notin executed' \/ k.messageId \in failed' => IsNew(k)'
    BY <1>1, <1>4, <1>5, <1>14 DEF Traced, IsNew
  <2>6. \A id \in OrderIds : orders'[id].status # "None" =>
          \E k \in sent' : k.orderId = id /\ orders'[id] = OrderOf(k, orders'[id].status)
    BY <1>1, <1>4, <1>5 DEF Traced
  <2>7. /\ minted' \subseteq MessageIds /\ executed' \subseteq MessageIds
        /\ failed' \subseteq executed'
    BY <1>1, <1>5 DEF Traced
  <2> QED BY <1>9, <2>1, <2>2, <2>3, <2>4, <2>5, <2>6, <2>7 DEF Traced
<1>19. /\ Net + AmountOf(Unminted) = dust + AmountOf(Unordered)
       /\ Net \in Int /\ AmountOf(Unminted) \in Int /\ AmountOf(Unordered) \in Int
       /\ IsFiniteSet(Unminted) /\ IsFiniteSet(Unordered)
       /\ Unminted \subseteq Message /\ Unordered \subseteq Message
  BY <1>1, DollarsAsNet DEF Books, Around
<1>20. /\ AmountOf(Unminted \cup {m}) = AmountOf(Unminted) + m.amount
       /\ AmountOf(Unordered \cup {m}) = AmountOf(Unordered) + m.amount
  BY <1>3, <1>16, <1>17, <1>19, AmountInsert
<1>21. /\ AmountOf(Unminted)' = AmountOf(Unminted) + m.amount
       /\ AmountOf(Unordered)' = AmountOf(Unordered) + m.amount
  BY <1>16, <1>17, <1>20 DEF AmountOf
<1>22. m.amount \in Nat /\ dust \in Nat /\ dust' = dust
  BY <1>1, <1>3, <1>5, OrderOfType DEF Around, Status
<1>23. /\ Net' + AmountOf(Unminted)' = dust' + AmountOf(Unordered)'
       /\ AmountOf(Unminted)' \in Int /\ AmountOf(Unordered)' \in Int
  BY <1>6, <1>19, <1>21, <1>22
<1> QED BY <1>6, <1>7, <1>18, <1>23, BalanceStep

LEMMA MintBooks ==
  ASSUME Books, NEW m \in sent, NEW d \in 0 .. m.maxFee, Mint(m, d)
  PROVE  Books'
<1>1. Ledger /\ Traced /\ Around /\ m \in Message
  BY DEF Books, Traced
<1>2. m.amount \in Nat /\ d \in Nat /\ m.messageId \in MessageIds
  <2>1. m.maxFee \in Nat
    BY <1>1, LicenceAssumption DEF Message
  <2> QED BY <1>1, <2>1, OrderOfType DEF Status
<1>3. /\ m.messageId \notin minted /\ minted' = minted \cup {m.messageId}
      /\ dust' = dust + d
      /\ usdc' = [usdc EXCEPT ![Receiver] = @ + m.amount + d]
      /\ UNCHANGED <<orderCount, sent, executed, failed, orders>>
      /\ UNCHANGED <<owed, owedTotal, pendingTotal, licensesBought>>
      /\ UNCHANGED <<policyCount, blocked, allowed>>
  BY DEF Mint, sendVars, aroundVars
<1>4. /\ usdc' \in [Holders -> Nat] /\ usdc'[Receiver] = usdc[Receiver] + m.amount + d
      /\ usdc'[Owner] = usdc[Owner]
  BY <1>1, <1>2, <1>3, LedgerParts, HoldersDistinct
<1>5. Ledger'
  <2>1. LedgerType'
    BY <1>1, <1>3, <1>4, LedgerParts DEF LedgerType
  <2>2. TotalsAgree'
    BY <1>1, <1>3 DEF Ledger, TotalsAgree, PendingAmount
  <2> QED BY <2>1, <2>2 DEF Ledger
<1>6. Net' = Net + m.amount + d
  BY <1>1, <1>2, <1>3, <1>4, LedgerParts DEF Net
<1>7. Around'
  BY <1>1, <1>2, <1>3 DEF Around
<1>8. Traced'
  BY <1>1, <1>2, <1>3 DEF Traced, Used, IsNew
<1>9. m \in Unminted /\ Unminted' = Unminted \ {m}
  BY <1>1, <1>3 DEF Unminted, Traced
<1>10. Unordered' = Unordered
  BY <1>3 DEF Unordered, IsNew
<1>11. /\ Net + AmountOf(Unminted) = dust + AmountOf(Unordered)
       /\ Net \in Int /\ AmountOf(Unminted) \in Int /\ AmountOf(Unordered) \in Int
       /\ IsFiniteSet(Unminted) /\ Unminted \subseteq Message
  BY <1>1, DollarsAsNet DEF Books, Around
<1>12. AmountOf(Unminted \ {m}) = AmountOf(Unminted) - m.amount
  BY <1>9, <1>11, AmountRemove
<1>13. /\ AmountOf(Unminted)' = AmountOf(Unminted) - m.amount
       /\ AmountOf(Unordered)' = AmountOf(Unordered)
  BY <1>9, <1>10, <1>12 DEF AmountOf
<1>14. dust \in Nat
  BY <1>1 DEF Around
<1>15. /\ Net' + AmountOf(Unminted)' = dust' + AmountOf(Unordered)'
       /\ AmountOf(Unminted)' \in Int /\ AmountOf(Unordered)' \in Int
  BY <1>2, <1>3, <1>6, <1>11, <1>13, <1>14
<1> QED BY <1>5, <1>7, <1>8, <1>15, BalanceStep

(* Delivering a message and retrying one have the same effect on the books. *)
LEMMA ProcessBooks ==
  ASSUME Books, NEW m \in sent, IsNew(m), ProcessMessage(m),
         UNCHANGED <<orderCount, sent, minted, dust, policyCount, blocked, allowed>>,
         executed' \subseteq MessageIds, failed' \subseteq executed',
         m.messageId \in executed' /\ m.messageId \notin failed',
         \A n \in sent : n.messageId # m.messageId =>
            (n.messageId \notin executed' \/ n.messageId \in failed' =>
               n.messageId \notin executed \/ n.messageId \in failed)
  PROVE  Books'
<1>1. Ledger /\ Traced /\ Around /\ m \in Message
  BY DEF Books, Traced
<1>2. Ledger' /\ Net' = Net - m.amount
  BY <1>1, ProcessMoves
<1>3. PICK st \in {"Pending", "Licensed", "Rejected"} :
        orders' = [orders EXCEPT ![m.orderId] = OrderOf(m, st)]
  BY <1>1, ProcessMoves
<1>4. UNCHANGED <<orderCount, sent, minted>>
  OBVIOUS
<1>5. /\ Traced' /\ Unminted' = Unminted
      /\ m \in Unordered /\ Unordered' = Unordered \ {m}
  BY <1>1, <1>3, <1>4, ProcessTraced
<1>6. Around'
  BY <1>1 DEF Around
<1>7. /\ Net + AmountOf(Unminted) = dust + AmountOf(Unordered)
      /\ Net \in Int /\ AmountOf(Unminted) \in Int /\ AmountOf(Unordered) \in Int
      /\ IsFiniteSet(Unordered) /\ Unordered \subseteq Message
  BY <1>1, DollarsAsNet DEF Books, Around
<1>8. AmountOf(Unordered \ {m}) = AmountOf(Unordered) - m.amount
  BY <1>5, <1>7, AmountRemove
<1>9. /\ AmountOf(Unminted)' = AmountOf(Unminted)
      /\ AmountOf(Unordered)' = AmountOf(Unordered) - m.amount
  BY <1>5, <1>8 DEF AmountOf
<1>10. dust \in Nat /\ dust' = dust /\ m.amount \in Nat
  BY <1>1, OrderOfType DEF Around, Status
<1>11. /\ Net' + AmountOf(Unminted)' = dust' + AmountOf(Unordered)'
       /\ AmountOf(Unminted)' \in Int /\ AmountOf(Unordered)' \in Int
  BY <1>2, <1>7, <1>9, <1>10
<1> QED BY <1>2, <1>5, <1>6, <1>11, BalanceStep

LEMMA DeliverBooks ==
  ASSUME Books, NEW m \in sent, Deliver(m)
  PROVE  Books'
<1>1. Traced /\ m \in Message /\ m.messageId \in MessageIds
  BY OrderOfType DEF Books, Traced, Status
<1>2. m.messageId \notin executed /\ IsNew(m)
  BY <1>1, UnprocessedIsNew DEF Deliver
<1>3. /\ ProcessMessage(m) /\ executed' = executed \cup {m.messageId} /\ failed' = failed
      /\ UNCHANGED <<orderCount, sent, minted, dust, policyCount, blocked, allowed>>
  BY DEF Deliver, sendVars, aroundVars
<1>4. executed \subseteq MessageIds /\ failed \subseteq executed
  BY <1>1 DEF Traced
<1>5. /\ executed' \subseteq MessageIds /\ failed' \subseteq executed'
      /\ m.messageId \in executed' /\ m.messageId \notin failed'
      /\ \A n \in sent : n.messageId # m.messageId =>
            (n.messageId \notin executed' \/ n.messageId \in failed' =>
               n.messageId \notin executed \/ n.messageId \in failed)
  BY <1>1, <1>2, <1>3, <1>4
<1> QED BY <1>2, <1>3, <1>5, ProcessBooks

LEMMA RetryBooks ==
  ASSUME Books, NEW m \in sent, RetryFailedMessage(m)
  PROVE  Books'
<1>1. Traced
  BY DEF Books
<1>2. m.messageId \in failed /\ IsNew(m)
  BY <1>1, UnprocessedIsNew DEF RetryFailedMessage
<1>3. /\ ProcessMessage(m) /\ failed' = failed \ {m.messageId} /\ executed' = executed
      /\ UNCHANGED <<orderCount, sent, minted, dust, policyCount, blocked, allowed>>
  BY DEF RetryFailedMessage, sendVars, bridgeVars, aroundVars
<1>4. executed \subseteq MessageIds /\ failed \subseteq executed
  BY <1>1 DEF Traced
<1>5. /\ executed' \subseteq MessageIds /\ failed' \subseteq executed'
      /\ m.messageId \in executed' /\ m.messageId \notin failed'
      /\ \A n \in sent : n.messageId # m.messageId =>
            (n.messageId \notin executed' \/ n.messageId \in failed' =>
               n.messageId \notin executed \/ n.messageId \in failed)
  BY <1>2, <1>3, <1>4
<1> QED BY <1>2, <1>3, <1>5, ProcessBooks

(* A failed delivery and a message given up leave orders and money alone.  *)
LEMMA FailedSetBooks ==
  ASSUME Books, executed' \subseteq MessageIds, failed' \subseteq executed',
         \A n \in sent : n.messageId \notin executed' \/ n.messageId \in failed' =>
               n.messageId \notin executed \/ n.messageId \in failed,
         UNCHANGED <<orderCount, sent, minted, dust, policyCount, blocked, allowed>>,
         UNCHANGED <<usdc, orders, owed, owedTotal, pendingTotal, licensesBought>>
  PROVE  Books'
<1>1. Ledger /\ Traced /\ Around
  BY DEF Books
<1>2. Ledger' /\ Net' = Net
  BY <1>1, LedgerStutter
<1>3. Traced'
  BY <1>1 DEF Traced, Used, IsNew
<1>4. Unminted' = Unminted /\ Unordered' = Unordered
  BY DEF Unminted, Unordered, IsNew
<1>5. Around' /\ dust' = dust
  BY <1>1 DEF Around
<1> QED BY <1>2, <1>3, <1>4, <1>5, SameBalance

LEMMA DeliverFailsBooks ==
  ASSUME Books, NEW m \in sent, DeliverFails(m)
  PROVE  Books'
<1>1. /\ executed' = executed \cup {m.messageId} /\ failed' = failed \cup {m.messageId}
      /\ m.messageId \notin executed
      /\ UNCHANGED <<orderCount, sent, minted, dust, policyCount, blocked, allowed>>
      /\ UNCHANGED <<usdc, orders, owed, owedTotal, pendingTotal, licensesBought>>
  BY DEF DeliverFails, sendVars, aroundVars
<1>2. /\ executed \subseteq MessageIds /\ failed \subseteq executed
      /\ m.messageId \in MessageIds
  BY OrderOfType DEF Books, Traced, Status
<1> QED BY <1>1, <1>2, FailedSetBooks

LEMMA ResolveBooks ==
  ASSUME Books, NEW m \in sent, ResolveFailedMessage(m)
  PROVE  Books'
<1>1. /\ executed' = executed /\ failed' = failed \ {m.messageId}
      /\ UNCHANGED <<orderCount, sent, minted, dust, policyCount, blocked, allowed>>
      /\ UNCHANGED <<usdc, orders, owed, owedTotal, pendingTotal, licensesBought>>
  BY DEF ResolveFailedMessage, sendVars, bridgeVars, aroundVars
<1>2. executed \subseteq MessageIds /\ failed \subseteq executed
  BY DEF Books, Traced
<1> QED BY <1>1, <1>2, FailedSetBooks

(* The follow-ups change Net by nothing and no message's standing.         *)
LEMMA ExecuteBooks ==
  ASSUME Books, NEW id \in OrderIds, ExecutePending(id)
  PROVE  Books' /\ usdc'[Receiver] >= owedTotal'
<1>1. Ledger /\ Traced /\ Around
  BY DEF Books
<1>2. orders[id].status = "Pending"
  BY DEF ExecutePending
<1>3. orders[id].licensee \in Licensees /\ orders[id].amount > 0
  BY <1>1, <1>2, PlacedOrder
<1>4. /\ Ledger' /\ Net' = Net /\ usdc'[Receiver] >= owedTotal'
      /\ orders' = [orders EXCEPT ![id] = [orders[id] EXCEPT !.status = "Licensed"]]
  BY <1>1, <1>3, ExecuteMoves
<1>5. /\ UNCHANGED <<orderCount, sent, minted, executed, failed>>
      /\ UNCHANGED <<dust, policyCount, blocked, allowed>>
  BY DEF ExecutePending, sendVars, bridgeVars, aroundVars
<1>6. Traced' /\ Unminted' = Unminted /\ Unordered' = Unordered
  BY <1>1, <1>2, <1>4, <1>5, EndTraced
<1>7. Around' /\ dust' = dust
  BY <1>1, <1>5 DEF Around
<1> QED BY <1>4, <1>6, <1>7, SameBalance

LEMMA CancelBooks ==
  ASSUME Books, NEW id \in OrderIds, CancelPending(id)
  PROVE  Books' /\ usdc'[Receiver] >= owedTotal'
<1>1. Ledger /\ Traced /\ Around
  BY DEF Books
<1>2. orders[id].status = "Pending"
  BY DEF CancelPending
<1>3. orders[id].licensee \in Licensees /\ orders[id].amount > 0
  BY <1>1, <1>2, PlacedOrder
<1>4. /\ Ledger' /\ Net' = Net /\ usdc'[Receiver] >= owedTotal'
      /\ orders' = [orders EXCEPT ![id] = [orders[id] EXCEPT !.status = "Cancelled"]]
  BY <1>1, <1>3, CancelMoves
<1>5. /\ UNCHANGED <<orderCount, sent, minted, executed, failed>>
      /\ UNCHANGED <<dust, policyCount, blocked, allowed>>
  BY DEF CancelPending, sendVars, bridgeVars, aroundVars
<1>6. Traced' /\ Unminted' = Unminted /\ Unordered' = Unordered
  BY <1>1, <1>2, <1>4, <1>5, EndTraced
<1>7. Around' /\ dust' = dust
  BY <1>1, <1>5 DEF Around
<1> QED BY <1>4, <1>6, <1>7, SameBalance

LEMMA PaymentBooks ==
  ASSUME Books, Sweep \/ \E a \in Licensees : WithdrawOwed(a)
  PROVE  Books'
<1>1. Ledger /\ Traced /\ Around
  BY DEF Books
<1>2. Ledger' /\ Net' = Net
  BY <1>1, SweepMoves, WithdrawMoves
<1>3. /\ UNCHANGED <<orderCount, sent, minted, executed, failed, orders>>
      /\ UNCHANGED <<dust, policyCount, blocked, allowed>>
  BY DEF Sweep, WithdrawOwed, sendVars, bridgeVars, aroundVars
<1>4. Traced' /\ Unminted' = Unminted /\ Unordered' = Unordered
  BY <1>1, <1>3, TracedStutter
<1>5. Around' /\ dust' = dust
  BY <1>1, <1>3 DEF Around
<1> QED BY <1>2, <1>4, <1>5, SameBalance

LEMMA SurroundingsBooks ==
  ASSUME Books,
         \/ \E s \in Senders, on \in BOOLEAN : AllowSender(s, on)
         \/ MintPolicy
         \/ \E a \in Blockable : Blocklist(a)
         \/ UNCHANGED vars
  PROVE  Books' /\ UNCHANGED <<usdc, orders, owed, owedTotal, licensesBought, sent>>
<1>1. Ledger /\ Traced /\ Around
  BY DEF Books
<1>2. /\ UNCHANGED <<orderCount, sent, minted, executed, failed, orders, dust>>
      /\ UNCHANGED <<usdc, owed, owedTotal, pendingTotal, licensesBought>>
  BY DEF AllowSender, MintPolicy, Blocklist, sendVars, bridgeVars, aroundVars, vars
<1>3. Around'
  BY <1>1, <1>2, LicenceAssumption
  DEF Around, AllowSender, MintPolicy, Blocklist, aroundVars, vars
<1>4. Traced' /\ Unminted' = Unminted /\ Unordered' = Unordered
  BY <1>1, <1>2, TracedStutter
<1>5. Ledger' /\ Net' = Net
  BY <1>1, <1>2, LedgerStutter
<1> QED BY <1>2, <1>3, <1>4, <1>5, SameBalance

LEMMA InitBooks == Init => Books
<1> SUFFICES ASSUME Init PROVE Books
  OBVIOUS
<1>1. NoOrder \in Order
  BY LicenceAssumption DEF NoOrder, Order, Status, PolicyIds
<1>2. LedgerType
  BY <1>1 DEF Init, LedgerType
<1>3. TotalsAgree
  <2> DEFINE f == [id \in OrderIds |-> PendingAmount(id)]
  <2>1. \A id \in OrderIds : f[id] = 0
    BY DEF Init, PendingAmount, NoOrder
  <2>2. \A a \in Licensees : owed[a] = 0
    BY DEF Init
  <2> HIDE DEF f
  <2>3. SumFunctionOnSet(f, OrderIds) = 0
    BY <2>1, SetsFinite, SumZero
  <2>4. SumFunctionOnSet(owed, Licensees) = 0
    BY <2>2, SetsFinite, SumZero
  <2>5. pendingTotal = 0 /\ owedTotal = 0
    BY DEF Init
  <2> QED BY <2>3, <2>4, <2>5 DEF TotalsAgree, f
<1>4. Traced
  <2>1. IsFiniteSet({})
    BY FS_EmptySet
  <2> QED BY <2>1 DEF Init, Traced, NoOrder
<1>5. Around
  BY DEF Init, Around
<1>6. DollarsMatchOrders
  <2>1. Unminted = {} /\ Unordered = {}
    BY DEF Init, Unminted, Unordered
  <2>2. AmountOf({}) = 0
    BY SumEmpty DEF AmountOf
  <2>3. Net = 0 /\ dust = 0
    BY HoldersDistinct DEF Init, Net
  <2>4. Net + AmountOf(Unminted) = dust + AmountOf(Unordered)
    BY <2>1, <2>2, <2>3
  <2> QED BY <1>2, <1>3, <1>4, <2>4, DollarsAsNet, <2>3 DEF Ledger
<1> QED BY <1>2, <1>3, <1>4, <1>5, <1>6 DEF Books, Ledger

LEMMA NextBooks == Books /\ [Next]_vars => Books'
<1> SUFFICES ASSUME Books, [Next]_vars PROVE Books'
  OBVIOUS
<1>1. CASE \E s \in Senders, a \in Licensees, p \in PolicyIds, x \in Amounts, f \in MaxFees :
             BuyLicence(s, a, p, x, f)
  BY <1>1, BuyLicenceBooks
<1>2. CASE \E m \in sent : \E d \in 0 .. m.maxFee : Mint(m, d)
  BY <1>2, MintBooks
<1>3. CASE \E m \in sent : Deliver(m) \/ RetryFailedMessage(m)
  BY <1>3, DeliverBooks, RetryBooks
<1>4. CASE \E m \in sent : DeliverFails(m) \/ ResolveFailedMessage(m)
  BY <1>4, DeliverFailsBooks, ResolveBooks
<1>5. CASE \E id \in OrderIds : ExecutePending(id) \/ CancelPending(id)
  BY <1>5, ExecuteBooks, CancelBooks
<1>6. CASE Sweep \/ \E a \in Licensees : WithdrawOwed(a)
  BY <1>6, PaymentBooks
<1>7. CASE \/ \E s \in Senders, on \in BOOLEAN : AllowSender(s, on)
           \/ MintPolicy
           \/ \E a \in Blockable : Blocklist(a)
           \/ UNCHANGED vars
  BY <1>7, SurroundingsBooks
<1> QED BY <1>1, <1>2, <1>3, <1>4, <1>5, <1>6, <1>7 DEF Next

LEMMA SpecBooks == Spec => []Books
BY InitBooks, NextBooks, PTL DEF Spec

(* Every variable keeps its type: no total and no balance goes below zero, *)
(* whichever of two networks is late.                                      *)
THEOREM SpecTypeOK == Spec => []TypeOK
<1>1. Books => TypeOK
  BY DEF Books, Ledger, LedgerType, Around, Traced, TypeOK
<1> QED BY <1>1, SpecBooks, PTL

(* pendingTotal and owedTotal, from which available and sweep decide, are  *)
(* always the sums they stand for.                                         *)
THEOREM SpecTotalsAgree == Spec => []TotalsAgree
<1>1. Books => TotalsAgree
  BY DEF Books, Ledger
<1> QED BY <1>1, SpecBooks, PTL

(* In every order of arrival, dollars here, swept and still to come are    *)
(* exactly what orders, credits and instructions stand for, plus dust.     *)
THEOREM SpecDollarsMatchOrders == Spec => []DollarsMatchOrders
<1>1. Books => DollarsMatchOrders
  BY DEF Books
<1> QED BY <1>1, SpecBooks, PTL

(* When every burn was minted and no buyer's dollars were swept, each order *)
(* and each credit is covered as it stands: of the dollars that orders and  *)
(* credits share, nobody's are missing whoever is served first, and nothing *)
(* is promised twice however often messages are retried.                    *)
THEOREM SpecArrivedIsPayable == Spec => []ArrivedIsPayable
<1>1. Books => ArrivedIsPayable
  <2> SUFFICES ASSUME Books, \A m \in sent : m.messageId \in minted, usdc[Owner] <= dust
      PROVE  /\ \A id \in OrderIds : orders[id].status = "Pending" => Available >= orders[id].amount
             /\ \A a \in Licensees : owed[a] <= usdc[Receiver]
    BY DEF ArrivedIsPayable
  <2>1. /\ Ledger /\ Traced /\ dust \in Nat
        /\ usdc[Receiver] \in Nat /\ usdc[Owner] \in Nat
        /\ pendingTotal \in Nat /\ owedTotal \in Nat
    BY LedgerParts, HoldersDistinct DEF Books, Around, Ledger, LedgerType
  <2>2. Unminted = {} /\ AmountOf(Unminted) = 0
    BY SumEmpty DEF Unminted, AmountOf
  <2>3. AmountOf(Unordered) \in Nat
    <3>1. \A m \in Unordered : [x \in Unordered |-> x.amount][m] \in Nat
      BY <2>1, DollarsAsNet, OrderOfType DEF Status
    <3> QED BY <2>1, <3>1, DollarsAsNet, SumNat DEF AmountOf
  <2>4. Net = dust + AmountOf(Unordered)
    <3>1. Net + AmountOf(Unminted) = dust + AmountOf(Unordered) /\ Net \in Int
      BY <2>1, DollarsAsNet DEF Books
    <3> QED BY <2>2, <3>1
  <2>5. usdc[Receiver] >= pendingTotal + owedTotal
    <3>1. Net = usdc[Receiver] + usdc[Owner] - pendingTotal - owedTotal
      BY DEF Net
    <3> QED BY <2>1, <2>3, <2>4, <3>1
  <2>6. \A id \in OrderIds : PendingAmount(id) <= pendingTotal
    <3> DEFINE f == [id \in OrderIds |-> PendingAmount(id)]
    <3>1. \A id \in OrderIds : f[id] \in Nat
      BY <2>1 DEF PendingAmount, Ledger, LedgerType, Order
    <3>2. pendingTotal = SumFunctionOnSet(f, OrderIds)
      BY <2>1 DEF Ledger, TotalsAgree
    <3>3. \A id \in OrderIds : f[id] = PendingAmount(id)
      OBVIOUS
    <3> HIDE DEF f
    <3> QED BY <3>1, <3>2, <3>3, SetsFinite, SumMember
  <2>7. \A a \in Licensees : owed[a] \in Nat /\ owed[a] <= owedTotal
    <3>1. \A a \in Licensees : owed[a] \in Nat
      BY <2>1 DEF Ledger, LedgerType
    <3>2. owedTotal = SumFunctionOnSet(owed, Licensees) /\ IsFiniteSet(Licensees)
      BY <2>1, LicenceAssumption DEF Ledger, TotalsAgree
    <3> QED BY <3>1, <3>2, SumMember
  <2>8. Available = usdc[Receiver] - owedTotal \/ (Available = 0 /\ usdc[Receiver] <= owedTotal)
    BY <2>1 DEF Available
  <2>9. Available >= pendingTotal
    BY <2>1, <2>5, <2>8
  <2>10. ASSUME NEW id \in OrderIds, orders[id].status = "Pending"
         PROVE  Available >= orders[id].amount
    <3>1. orders[id].amount <= pendingTotal /\ orders[id].amount \in Nat
      BY <2>1, <2>6, <2>10 DEF PendingAmount, Ledger, LedgerType, Order
    <3> QED BY <2>1, <2>8, <2>9, <3>1
  <2>11. ASSUME NEW a \in Licensees PROVE owed[a] <= usdc[Receiver]
    BY <2>1, <2>5, <2>7
  <2> QED BY <2>10, <2>11
<1> QED BY <1>1, SpecBooks, PTL

-----------------------------------------------------------------------------
(* Credits are spared                                                      *)

LEMMA ProcessCancelsNothing ==
  ASSUME Ledger, NEW m \in Message, NEW st \in {"Pending", "Licensed", "Rejected"},
         orders' = [orders EXCEPT ![m.orderId] = OrderOf(m, st)]
  PROVE  \A id \in OrderIds : ~ Cancels(id)
<1>1. m.orderId \in OrderIds /\ OrderOf(m, st).status = st
  BY OrderOfType DEF Status
<1>2. \A id \in OrderIds : orders'[id] = IF id = m.orderId THEN OrderOf(m, st) ELSE orders[id]
  BY <1>1, LedgerParts
<1> QED BY <1>1, <1>2 DEF Cancels

LEMMA CreditsSparedStep ==
  ASSUME Books, [Next]_vars,
         licensesBought' > licensesBought \/ \E id \in OrderIds : Cancels(id)
  PROVE  usdc'[Receiver] >= owedTotal'
<1>1. Ledger /\ Traced /\ licensesBought \in Nat
  BY LedgerParts DEF Books
<1>2. ASSUME UNCHANGED <<orders, licensesBought>> PROVE FALSE
  BY <1>1, <1>2 DEF Cancels
<1>3. ASSUME NEW m \in sent, Deliver(m) \/ RetryFailedMessage(m)
      PROVE  usdc'[Receiver] >= owedTotal'
  <2>1. ProcessMessage(m) /\ IsNew(m) /\ m \in Message
    BY <1>1, <1>3, UnprocessedIsNew DEF Deliver, RetryFailedMessage, Traced
  <2>2. PICK st \in {"Pending", "Licensed", "Rejected"} :
          orders' = [orders EXCEPT ![m.orderId] = OrderOf(m, st)]
    BY <1>1, <2>1, ProcessMoves
  <2>3. ~ \E id \in OrderIds : Cancels(id)
    BY <1>1, <2>1, <2>2, ProcessCancelsNothing
  <2> QED BY <1>1, <2>1, <2>3, ProcessMoves
<1>4. CASE \E id \in OrderIds : ExecutePending(id) \/ CancelPending(id)
  BY <1>4, ExecuteBooks, CancelBooks
<1>5. CASE \/ \E s \in Senders, a \in Licensees, p \in PolicyIds, x \in Amounts, f \in MaxFees :
                BuyLicence(s, a, p, x, f)
           \/ \E m \in sent : \E d \in 0 .. m.maxFee : Mint(m, d)
           \/ \E m \in sent : DeliverFails(m) \/ ResolveFailedMessage(m)
           \/ Sweep \/ \E a \in Licensees : WithdrawOwed(a)
  BY <1>2, <1>5 DEF BuyLicence, Mint, DeliverFails, ResolveFailedMessage, Sweep, WithdrawOwed
<1>6. CASE \/ \E s \in Senders, on \in BOOLEAN : AllowSender(s, on)
           \/ MintPolicy
           \/ \E a \in Blockable : Blocklist(a)
           \/ UNCHANGED vars
  BY <1>2, <1>6, SurroundingsBooks
<1> QED BY <1>3, <1>4, <1>5, <1>6 DEF Next

(* No licence and no cancellation is ever paid from a credit.              *)
THEOREM SpecCreditsSpared == Spec => CreditsSpared
<1>1. Books /\ [Next]_vars =>
        [licensesBought' > licensesBought \/ (\E id \in OrderIds : Cancels(id))
           => usdc'[Receiver] >= owedTotal']_vars
  BY CreditsSparedStep
<1> QED BY <1>1, SpecBooks, PTL DEF Spec, CreditsSpared

-----------------------------------------------------------------------------
(* The desk implements LicenceDesk                                         *)

(* What the mapping makes of a message and of the receiver's records.      *)
DeskOrder(m) == [id |-> m.orderId, buyer |-> m.licensee, policy |-> m.policyId,
                 amount |-> m.amount]
Placed == {DeskOrder(m) : m \in sent}
Ended == {id \in OrderIds : orders[id].status \in {"Licensed", "Cancelled", "Rejected"}}
Returned == [a \in Licensees |-> usdc[a]]

LEMMA EndedMoves ==
  ASSUME orders \in [OrderIds -> Order], NEW id \in OrderIds, NEW o,
         orders' = [orders EXCEPT ![id] = o]
  PROVE  /\ o.status \in {"Licensed", "Cancelled", "Rejected"} => Ended' = Ended \cup {id}
         /\ o.status = "Pending" /\ orders[id].status = "None" => Ended' = Ended
         /\ orders[id].status \in {"None", "Pending"} => id \notin Ended
<1>1. \A i \in OrderIds : orders'[i] = IF i = id THEN o ELSE orders[i]
  OBVIOUS
<1> QED BY <1>1 DEF Ended

LEMMA ReturnedSame ==
  ASSUME \A a \in Licensees : usdc'[a] = usdc[a]
  PROVE  Returned' = Returned
BY DEF Returned

(* The moves of USDC as the desk sees them.                                *)
LEMMA FeeMoves ==
  ASSUME Ledger, NEW fee \in Nat, Moves(Receiver, Protocol, fee)
  PROVE  usdc'[Protocol] = usdc[Protocol] + fee /\ Returned' = Returned
<1>1. /\ usdc'[Protocol] = usdc[Protocol] + fee
      /\ \A h \in Holders : h # Receiver /\ h # Protocol => usdc'[h] = usdc[h]
  BY LedgerParts, UsdcMoves, HoldersDistinct
<1>2. \A a \in Licensees : usdc'[a] = usdc[a]
  BY <1>1, HoldersDistinct
<1> QED BY <1>1, <1>2, ReturnedSame

LEMMA PayoutMoves ==
  ASSUME Ledger, NEW a \in Licensees, NEW x \in Nat, Moves(Receiver, a, x)
  PROVE  usdc'[Protocol] = usdc[Protocol] /\ Returned' = [Returned EXCEPT ![a] = @ + x]
<1>1. /\ usdc'[a] = usdc[a] + x
      /\ \A h \in Holders : h # Receiver /\ h # a => usdc'[h] = usdc[h]
  BY LedgerParts, UsdcMoves, HoldersDistinct
<1>2. usdc'[Protocol] = usdc[Protocol]
  BY <1>1, HoldersDistinct
<1>3. \A b \in Licensees : usdc'[b] = IF b = a THEN usdc[a] + x ELSE usdc[b]
  BY <1>1, HoldersDistinct
<1> QED BY <1>2, <1>3 DEF Returned

(* Steps of the receiver that the desk does not see.                       *)
LEMMA DeskStutters ==
  ASSUME Placed' = Placed, Ended' = Ended, usdc'[Protocol] = usdc[Protocol],
         owed' = owed, Returned' = Returned
  PROVE  UNCHANGED Desk!deskVars
BY DEF Desk!deskVars, Placed, DeskOrder, Ended, Returned

(* _buy ends an order as a licence.                                        *)
LEMMA BuyIsLicense ==
  ASSUME Ledger, NEW m \in sent, m \in Message, orders[m.orderId].status \in {"None", "Pending"},
         sent' = sent, m.amount >= Fee[m.policyId], Buy(m.orderId, OrderOf(m, "Pending"))
  PROVE  Desk!Next
<1> DEFINE id == m.orderId
           fee == Fee[m.policyId]
<1>1. /\ id \in OrderIds /\ m.amount \in Nat /\ m.policyId \in PolicyIds
      /\ m.licensee \in Licensees
  BY OrderOfType DEF Status
<1>2. fee \in Nat
  BY <1>1, FeeType
<1>3. /\ orders' = [orders EXCEPT ![id] = OrderOf(m, "Licensed")]
      /\ Moves(Receiver, Protocol, fee)
      /\ owed' = [owed EXCEPT ![m.licensee] = @ + (m.amount - fee)]
  <2> DEFINE o == OrderOf(m, "Pending")
  <2>1. o.licensee = m.licensee /\ o.amount = m.amount /\ o.policyId = m.policyId
    BY DEF OrderOf
  <2>2. [o EXCEPT !.status = "Licensed"] = OrderOf(m, "Licensed")
    BY DEF OrderOf
  <2> HIDE DEF o
  <2>3. /\ orders' = [orders EXCEPT ![id] = [o EXCEPT !.status = "Licensed"]]
        /\ Moves(Receiver, Protocol, Fee[o.policyId])
        /\ Credit(o.licensee, o.amount - Fee[o.policyId])
    BY DEF Buy, o
  <2>4. Moves(Receiver, Protocol, fee)
    BY <2>1, <2>3
  <2>5. owed' = [owed EXCEPT ![m.licensee] = @ + (m.amount - fee)]
    BY <2>1, <2>3 DEF Credit
  <2> QED BY <2>2, <2>3, <2>4, <2>5
<1>4. OrderOf(m, "Licensed").status = "Licensed"
  BY DEF OrderOf
<1>5. Ended' = Ended \cup {id} /\ id \notin Ended
  BY <1>1, <1>3, <1>4, LedgerParts, EndedMoves
<1>6. usdc'[Protocol] = usdc[Protocol] + fee /\ Returned' = Returned
  BY <1>2, <1>3, FeeMoves
<1>7. DeskOrder(m) \in Placed /\ Placed' = Placed
  BY DEF Placed
<1>8. /\ DeskOrder(m).id = id /\ DeskOrder(m).buyer = m.licensee
      /\ DeskOrder(m).policy = m.policyId /\ DeskOrder(m).amount = m.amount
  BY DEF DeskOrder
<1>9. Desk!License(DeskOrder(m))
  BY <1>3, <1>5, <1>6, <1>7, <1>8
  DEF Desk!License, Desk!Ends, Placed, DeskOrder, Ended, Returned
<1> QED BY <1>7, <1>9 DEF Desk!Next, Placed, DeskOrder

LEMMA ProcessIsDesk ==
  ASSUME Ledger, NEW m \in sent, m \in Message, IsNew(m), ProcessMessage(m), sent' = sent
  PROVE  [Desk!Next]_Desk!deskVars
<1>1. m.orderId \in OrderIds
  BY OrderOfType DEF Status
<1>2. CASE BuysAtOnce(m) /\ Buy(m.orderId, OrderOf(m, "Pending"))
  BY <1>2, BuyIsLicense DEF BuysAtOnce, Buyable, IsNew
<1>3. CASE /\ orders' = [orders EXCEPT ![m.orderId] = OrderOf(m, "Pending")]
           /\ UNCHANGED <<usdc, owed>>
  <2>1. OrderOf(m, "Pending").status = "Pending"
    BY DEF OrderOf
  <2>2. Ended' = Ended
    BY <1>1, <1>3, <2>1, LedgerParts, EndedMoves DEF IsNew
  <2>3. Placed' = Placed /\ Returned' = Returned
    BY <1>3 DEF Placed, Returned
  <2> QED BY <1>3, <2>2, <2>3, DeskStutters
<1>4. CASE /\ orders' = [orders EXCEPT ![m.orderId] = OrderOf(m, "Rejected")]
           /\ Credit(m.licensee, m.amount) /\ usdc' = usdc
  <2>1. OrderOf(m, "Rejected").status = "Rejected"
    BY DEF OrderOf
  <2>2. Ended' = Ended \cup {m.orderId} /\ m.orderId \notin Ended
    BY <1>1, <1>4, <2>1, LedgerParts, EndedMoves DEF IsNew
  <2>3. DeskOrder(m) \in Placed /\ Placed' = Placed /\ Returned' = Returned
    BY <1>4 DEF Placed, Returned
  <2>4. /\ DeskOrder(m).id = m.orderId /\ DeskOrder(m).buyer = m.licensee
        /\ DeskOrder(m).amount = m.amount
    BY DEF DeskOrder
  <2>5. owed' = [owed EXCEPT ![m.licensee] = @ + m.amount]
    BY <1>4 DEF Credit
  <2>6. Desk!Refuse(DeskOrder(m))
    BY <1>4, <2>2, <2>3, <2>4, <2>5
    DEF Desk!Refuse, Desk!Ends, Placed, DeskOrder, Ended, Returned
  <2> QED BY <2>3, <2>6 DEF Desk!Next, Placed, DeskOrder
<1> QED BY <1>2, <1>3, <1>4 DEF ProcessMessage

LEMMA PlaceIsDesk ==
  ASSUME Books, NEW s \in Senders, NEW a \in Licensees, NEW p \in PolicyIds,
         NEW x \in Amounts, NEW fee \in MaxFees, BuyLicence(s, a, p, x, fee)
  PROVE  Desk!Next
<1>1. Traced /\ Ledger
  BY DEF Books
<1>2. PICK n \in 0 .. MaxOrders - 1 : n = orderCount[s]
  BY LicenceAssumption, <1>1 DEF BuyLicence, Traced
<1> DEFINE m == [messageId |-> <<s, n>>, sender |-> s, orderId |-> <<s, a, n>>,
                 licensee |-> a, policyId |-> p, amount |-> x, maxFee |-> fee]
<1>3. /\ sent' = sent \cup {m} /\ UNCHANGED <<usdc, orders, owed>>
  BY <1>2 DEF BuyLicence, NextOrderId
<1>4. <<s, a, n>> \in OrderIds
  BY <1>2 DEF OrderIds
<1>5. DeskOrder(m) = [id |-> <<s, a, n>>, buyer |-> a, policy |-> p, amount |-> x]
  BY DEF DeskOrder
<1> HIDE DEF m
<1>6. Placed' = Placed \cup {DeskOrder(m)}
  BY <1>3 DEF Placed, DeskOrder
<1>7. ASSUME NEW k \in sent PROVE DeskOrder(k).id # <<s, a, n>>
  <2>1. /\ DeskOrder(k).id = k.orderId /\ Used(k.messageId)
        /\ k.messageId = <<k.orderId[1], k.orderId[3]>>
    BY <1>1 DEF DeskOrder, Traced
  <2>2. k.orderId = <<s, a, n>> => k.messageId = <<s, n>>
    BY <2>1
  <2>3. orderCount[s] \in Nat
    BY <1>1 DEF Traced
  <2>4. ~ Used(<<s, n>>)
    BY <1>2, <2>3 DEF Used
  <2> QED BY <2>1, <2>2, <2>4
<1>8. \A o \in Placed : o.id # <<s, a, n>>
  BY <1>7 DEF Placed
<1>9. Ended' = Ended /\ Returned' = Returned /\ usdc'[Protocol] = usdc[Protocol]
  BY <1>3 DEF Ended, Returned
<1>10. Desk!Place(<<s, a, n>>, a, p, x)
  BY <1>3, <1>5, <1>6, <1>8, <1>9 DEF Desk!Place, Placed, DeskOrder, Ended, Returned
<1> QED BY <1>4, <1>10 DEF Desk!Next

LEMMA CancelIsDesk ==
  ASSUME Books, NEW id \in OrderIds, CancelPending(id)
  PROVE  Desk!Next
<1>1. Ledger /\ Traced
  BY DEF Books
<1>2. PICK m \in sent : m.orderId = id /\ orders[id] = OrderOf(m, "Pending")
  BY <1>1 DEF CancelPending, Traced
<1>3. m \in Message
  BY <1>1 DEF Traced
<1>4. m.licensee \in Licensees /\ m.amount \in Nat
  BY <1>3, OrderOfType DEF Status
<1>5. orders[id].licensee = m.licensee /\ orders[id].amount = m.amount
      /\ orders[id].status = "Pending"
  BY <1>2 DEF OrderOf
<1>6. /\ orders' = [orders EXCEPT ![id].status = "Cancelled"]
      /\ Moves(Receiver, m.licensee, m.amount)
      /\ owed' = owed /\ sent' = sent
  BY <1>5 DEF CancelPending, sendVars
<1>7. orders' = [orders EXCEPT ![id] = [orders[id] EXCEPT !.status = "Cancelled"]]
  BY <1>1, <1>6, LedgerParts
<1>8. [orders[id] EXCEPT !.status = "Cancelled"].status = "Cancelled"
  BY <1>2 DEF OrderOf
<1>9. Ended' = Ended \cup {id} /\ id \notin Ended
  BY <1>1, <1>5, <1>7, <1>8, LedgerParts, EndedMoves
<1>10. usdc'[Protocol] = usdc[Protocol] /\ Returned' = [Returned EXCEPT ![m.licensee] = @ + m.amount]
  BY <1>1, <1>4, <1>6, PayoutMoves
<1>11. DeskOrder(m) \in Placed /\ Placed' = Placed
  BY <1>6 DEF Placed
<1>12. /\ DeskOrder(m).id = id /\ DeskOrder(m).buyer = m.licensee
       /\ DeskOrder(m).amount = m.amount
  BY <1>2 DEF DeskOrder
<1>13. Desk!Cancel(DeskOrder(m))
  BY <1>6, <1>9, <1>10, <1>11, <1>12
  DEF Desk!Cancel, Desk!Ends, Placed, DeskOrder, Ended, Returned
<1> QED BY <1>11, <1>13 DEF Desk!Next, Placed, DeskOrder

LEMMA ExecuteIsDesk ==
  ASSUME Books, NEW id \in OrderIds, ExecutePending(id)
  PROVE  Desk!Next
<1>1. Ledger /\ Traced
  BY DEF Books
<1>2. PICK m \in sent : m.orderId = id /\ orders[id] = OrderOf(m, "Pending")
  BY <1>1 DEF ExecutePending, Traced
<1>3. m \in Message
  BY <1>1 DEF Traced
<1>4. orders[id].policyId = m.policyId /\ orders[id].amount = m.amount
      /\ orders[id].status = "Pending"
  BY <1>2 DEF OrderOf
<1>5. m.amount >= Fee[m.policyId] /\ Buy(m.orderId, OrderOf(m, "Pending")) /\ sent' = sent
  BY <1>2, <1>4 DEF ExecutePending, Buyable, sendVars
<1> QED BY <1>1, <1>2, <1>3, <1>4, <1>5, BuyIsLicense

LEMMA WithdrawIsDesk ==
  ASSUME Books, NEW a \in Licensees, WithdrawOwed(a)
  PROVE  Desk!Next
<1>1. Ledger /\ owed[a] \in Nat
  BY LedgerParts DEF Books
<1>2. /\ owed[a] # 0 /\ owed' = [owed EXCEPT ![a] = 0] /\ Moves(Receiver, a, owed[a])
      /\ UNCHANGED <<sent, orders>>
  BY DEF WithdrawOwed, sendVars
<1>3. usdc'[Protocol] = usdc[Protocol] /\ Returned' = [Returned EXCEPT ![a] = @ + owed[a]]
  BY <1>1, <1>2, PayoutMoves
<1>4. Placed' = Placed /\ Ended' = Ended
  BY <1>2 DEF Placed, DeskOrder, Ended
<1>5. Desk!Collect(a)
  BY <1>2, <1>3, <1>4 DEF Desk!Collect, Placed, DeskOrder, Ended, Returned
<1> QED BY <1>5 DEF Desk!Next

(* Dollars minted or swept are neither the policy's nor a buyer's.         *)
LEMMA BridgeStutters ==
  ASSUME Books, Sweep \/ \E m \in sent : \E d \in 0 .. m.maxFee : Mint(m, d)
  PROVE  UNCHANGED Desk!deskVars
<1>1. Ledger /\ Traced
  BY DEF Books
<1>2. UNCHANGED <<sent, orders, owed>>
  BY DEF Sweep, Mint, sendVars
<1>3. \A h \in Holders : h # Receiver /\ h # Owner => usdc'[h] = usdc[h]
  BY <1>1, LedgerParts, HoldersDistinct DEF Sweep, Mint, Moves
<1>4. usdc'[Protocol] = usdc[Protocol] /\ \A a \in Licensees : usdc'[a] = usdc[a]
  BY <1>3, HoldersDistinct
<1>5. Placed' = Placed /\ Ended' = Ended /\ Returned' = Returned
  BY <1>2, <1>4, ReturnedSame DEF Placed, DeskOrder, Ended
<1> QED BY <1>2, <1>4, <1>5, DeskStutters

LEMMA QuietStutters ==
  ASSUME UNCHANGED <<sent, orders, owed, usdc>>
  PROVE  UNCHANGED Desk!deskVars
BY DEF Desk!deskVars

LEMMA DeskStep == Books /\ [Next]_vars => [Desk!Next]_Desk!deskVars
<1> SUFFICES ASSUME Books, [Next]_vars PROVE [Desk!Next]_Desk!deskVars
  OBVIOUS
<1>1. CASE \E s \in Senders, a \in Licensees, p \in PolicyIds, x \in Amounts, f \in MaxFees :
             BuyLicence(s, a, p, x, f)
  BY <1>1, PlaceIsDesk
<1>2. CASE Sweep \/ \E m \in sent : \E d \in 0 .. m.maxFee : Mint(m, d)
  BY <1>2, BridgeStutters
<1>3. ASSUME NEW m \in sent, Deliver(m) \/ RetryFailedMessage(m)
      PROVE  [Desk!Next]_Desk!deskVars
  <2>1. Ledger /\ Traced /\ m \in Message
    BY DEF Books, Traced
  <2>2. ProcessMessage(m) /\ IsNew(m) /\ sent' = sent
    BY <1>3, <2>1, UnprocessedIsNew DEF Deliver, RetryFailedMessage, sendVars
  <2> QED BY <2>1, <2>2, ProcessIsDesk
<1>4. CASE \E m \in sent : DeliverFails(m) \/ ResolveFailedMessage(m)
  <2>1. UNCHANGED <<sent, orders, owed, usdc>>
    BY <1>4 DEF DeliverFails, ResolveFailedMessage, sendVars
  <2> QED BY <2>1, QuietStutters
<1>5. CASE \E id \in OrderIds : ExecutePending(id) \/ CancelPending(id)
  BY <1>5, ExecuteIsDesk, CancelIsDesk
<1>6. CASE \E a \in Licensees : WithdrawOwed(a)
  BY <1>6, WithdrawIsDesk
<1>7. CASE \/ \E s \in Senders, on \in BOOLEAN : AllowSender(s, on)
           \/ MintPolicy
           \/ \E a \in Blockable : Blocklist(a)
           \/ UNCHANGED vars
  <2>1. UNCHANGED <<sent, orders, owed, usdc>>
    BY <1>7, SurroundingsBooks
  <2> QED BY <2>1, QuietStutters
<1> QED BY <1>1, <1>2, <1>3, <1>4, <1>5, <1>6, <1>7 DEF Next

LEMMA DeskInit == Init => Desk!Init
BY HoldersDistinct DEF Init, NoOrder, Desk!Init

(* Between two networks, with retries, cancellations and every power of    *)
(* the owner, an order ends at most once, and its dollars go once to the   *)
(* policy or back to its buyer.                                            *)
THEOREM SpecImplementsLicenceDesk == Spec => ImplementsLicenceDesk
BY DeskInit, DeskStep, SpecBooks, PTL DEF Spec, ImplementsLicenceDesk, Desk!Spec
=============================================================================
