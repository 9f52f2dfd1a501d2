----------------------------- MODULE CcipLicence -----------------------------
(***************************************************************************)
(* Corpus licences bought from another chain (contracts/src/ccip).         *)
(* ThenarCcipSender burns the buyer's dollars with CCTP and sends the      *)
(* instruction with CCIP; ThenarCcipReceiver on Arc meets them in either   *)
(* order and buys the licence, or holds the dollars for the buyer.         *)
(*                                                                         *)
(* A transaction is one action.  CCTP and CCIP are external: each hands    *)
(* over what was sent, once, at any time and in any order.  So are USDC on *)
(* Arc, with Circle's blocklist, and ThenarProtocol, of which the receiver *)
(* sees the number of policies, their fees, and a call that takes the fee. *)
(***************************************************************************)
EXTENDS Integers, FiniteSets, Functions

CONSTANTS
  Senders,            \* (source chain, ThenarCcipSender) pairs
  Licensees,          \* buyers, at the same address on both chains
  Receiver, Protocol, Owner,
  Fee                 \* licenceFee of each policy ThenarProtocol may mint

CONSTANTS             \* what callers pass in, and the bounds of an instance
  Amounts, MaxFees, MaxOrders, MaxPolicies,
  OwnerPowers,        \* what the owner does: "allow", "resolve", "sweep"
  Blockable           \* the addresses Circle may list

PolicyIds == 0 .. MaxPolicies - 1
OrderIds == Senders \X Licensees \X (0 .. MaxOrders - 1)
MessageIds == Senders \X (0 .. MaxOrders - 1)
Holders == Licensees \cup {Receiver, Protocol, Owner}

ASSUME LicenceAssumption ==
  /\ IsFiniteSet(Senders) /\ IsFiniteSet(Licensees)
  /\ Receiver # Protocol /\ Receiver # Owner /\ Protocol # Owner
  /\ {Receiver, Protocol, Owner} \cap Licensees = {}
  /\ MaxPolicies \in Nat \ {0} /\ Fee \in [PolicyIds -> Nat]
  /\ Amounts \subseteq Nat \ {0} /\ MaxFees \subseteq Nat /\ MaxOrders \in Nat
  /\ Blockable \subseteq Holders

VARIABLES
  orderCount,         \* ThenarCcipSender.orders
  sent,               \* every LicenceOrdered so far: a burn and a message each
  minted,             \* CCTP nonces used on Arc (external)
  dust,               \* dollars CCTP minted above the amounts ordered (external)
  executed,           \* CCIP messages the off-ramp executed (external)
  policyCount,        \* ThenarProtocol.policyCount (external)
  usdc, blocked,      \* USDC on Arc (external)
  allowed,            \* allowedSenders
  orders,             \* _orders
  failed,             \* _failed: ids of the messages in status Failed
  owed, owedTotal, pendingTotal, licensesBought

sendVars == <<orderCount, sent>>
bridgeVars == <<minted, dust, executed>>
aroundVars == <<policyCount, blocked>>
vars == <<sendVars, bridgeVars, aroundVars, usdc, allowed, orders, failed,
          owed, owedTotal, pendingTotal, licensesBought>>

Message == [messageId : MessageIds, sender : Senders, orderId : OrderIds,
            licensee : Licensees, policyId : PolicyIds, amount : Amounts, maxFee : MaxFees]

Status == {"None", "Pending", "Licensed", "Cancelled", "Rejected"}

Order == [licensee : Licensees \cup {Receiver}, status : Status, amount : Nat,
          policyId : PolicyIds]

(* An order nobody placed; the zero address is written as the receiver's.  *)
NoOrder == [licensee |-> Receiver, status |-> "None", amount |-> 0, policyId |-> 0]

Init ==
  /\ orderCount = [s \in Senders |-> 0]
  /\ sent = {} /\ minted = {} /\ dust = 0 /\ executed = {}
  /\ policyCount = 0
  /\ usdc = [h \in Holders |-> 0]
  /\ blocked = {}
  /\ allowed = Senders
  /\ orders = [o \in OrderIds |-> NoOrder]
  /\ failed = {}
  /\ owed = [a \in Licensees |-> 0]
  /\ owedTotal = 0 /\ pendingTotal = 0 /\ licensesBought = 0

-----------------------------------------------------------------------------
(* The source chain                                                        *)

NextOrderId_Recycled(s, licensee) == <<s, licensee, 0>>
NextOrderId(s, licensee) == <<s, licensee, orderCount[s]>>

(* buyLicence: one burn and one message, or neither.                       *)
BuyLicence(s, licensee, policyId, amount, maxFee) ==
  /\ orderCount[s] < MaxOrders
  /\ orderCount' = [orderCount EXCEPT ![s] = @ + 1]
  /\ sent' = sent \cup {[messageId |-> <<s, orderCount[s]>>, sender |-> s,
                         orderId |-> NextOrderId(s, licensee), licensee |-> licensee,
                         policyId |-> policyId, amount |-> amount, maxFee |-> maxFee]}
  /\ UNCHANGED <<bridgeVars, aroundVars, usdc, allowed, orders, failed, owed, owedTotal,
                 pendingTotal, licensesBought>>

-----------------------------------------------------------------------------
(* Money on Arc                                                            *)

Moves_Unchecked(from, to, amount) ==
  /\ {from, to} \cap blocked = {}
  /\ usdc' = [usdc EXCEPT ![from] = @ - amount, ![to] = @ + amount]

Moves(from, to, amount) ==
  /\ {from, to} \cap blocked = {}
  /\ usdc[from] >= amount
  /\ usdc' = [usdc EXCEPT ![from] = @ - amount, ![to] = @ + amount]

(* CCTP mints what was burned less a fee of its own, at most maxFee.       *)
Mint(m, surplus) ==
  /\ m.messageId \notin minted
  /\ surplus <= m.maxFee
  /\ Receiver \notin blocked
  /\ minted' = minted \cup {m.messageId}
  /\ dust' = dust + surplus
  /\ usdc' = [usdc EXCEPT ![Receiver] = @ + m.amount + surplus]
  /\ UNCHANGED <<sendVars, executed, aroundVars, allowed, orders, failed, owed, owedTotal,
                 pendingTotal, licensesBought>>

Available_WholeBalance == usdc[Receiver]
Available_LessPending == IF usdc[Receiver] > owedTotal + pendingTotal
                         THEN usdc[Receiver] - owedTotal - pendingTotal ELSE 0
Available == IF usdc[Receiver] > owedTotal THEN usdc[Receiver] - owedTotal ELSE 0

Credit(licensee, amount) ==
  /\ owed' = [owed EXCEPT ![licensee] = @ + amount]
  /\ owedTotal' = owedTotal + amount

-----------------------------------------------------------------------------
(* Instructions                                                            *)

Buyable(policyId, amount) == policyId < policyCount /\ amount >= Fee[policyId]

OrderOf(m, status) == [licensee |-> m.licensee, status |-> status, amount |-> m.amount,
                       policyId |-> m.policyId]

(* _buy.  licensePolicyFor takes the fee or reverts, and the caller with it. *)
Buy_ChangeKept(id, o) ==
  /\ orders' = [orders EXCEPT ![id] = [o EXCEPT !.status = "Licensed"]]
  /\ licensesBought' = licensesBought + 1
  /\ Moves(Receiver, Protocol, Fee[o.policyId])
  /\ UNCHANGED <<owed, owedTotal>>

Buy(id, o) ==
  /\ orders' = [orders EXCEPT ![id] = [o EXCEPT !.status = "Licensed"]]
  /\ licensesBought' = licensesBought + 1
  /\ Moves(Receiver, Protocol, Fee[o.policyId])
  /\ Credit(o.licensee, o.amount - Fee[o.policyId])

IsNew(m) == orders[m.orderId].status = "None"

BuysAtOnce(m) == IsNew(m) /\ Buyable(m.policyId, m.amount) /\ Available >= m.amount

(* processMessage: the order is bought, kept waiting for its dollars, or   *)
(* refused with its dollars credited; a known order id is left as it is.   *)
ProcessMessage(m) ==
  \/ /\ BuysAtOnce(m)
     /\ Buy(m.orderId, OrderOf(m, "Pending"))
     /\ UNCHANGED pendingTotal
  \/ /\ IsNew(m) /\ Buyable(m.policyId, m.amount) /\ Available < m.amount
     /\ orders' = [orders EXCEPT ![m.orderId] = OrderOf(m, "Pending")]
     /\ pendingTotal' = pendingTotal + m.amount
     /\ UNCHANGED <<usdc, owed, owedTotal, licensesBought>>
  \/ /\ ~ (IsNew(m) /\ Buyable(m.policyId, m.amount))
     /\ orders' = IF IsNew(m) THEN [orders EXCEPT ![m.orderId] = OrderOf(m, "Rejected")]
                  ELSE orders
     /\ Credit(m.licensee, m.amount)
     /\ UNCHANGED <<usdc, pendingTotal, licensesBought>>

(* ccipReceive.  From a sender that is not allowed it reverts, and CCIP    *)
(* keeps the message for another attempt.                                  *)
Deliver(m) ==
  /\ m.messageId \notin executed
  /\ m.sender \in allowed
  /\ executed' = executed \cup {m.messageId}
  /\ ProcessMessage(m)
  /\ UNCHANGED <<sendVars, minted, dust, aroundVars, allowed, failed>>

(* ccipReceive when processMessage reverts.  Only the purchase can: USDC   *)
(* refuses it, or the gas the sender set is short of the policy's fan-out. *)
DeliverFails(m) ==
  /\ m.messageId \notin executed
  /\ m.sender \in allowed
  /\ BuysAtOnce(m)
  /\ executed' = executed \cup {m.messageId}
  /\ failed' = failed \cup {m.messageId}
  /\ UNCHANGED <<sendVars, minted, dust, aroundVars, usdc, allowed, orders, owed, owedTotal,
                 pendingTotal, licensesBought>>

RetryFailedMessage_StaysFailed(m) ==
  /\ m.messageId \in failed
  /\ m.sender \in allowed
  /\ ProcessMessage(m)
  /\ UNCHANGED <<sendVars, bridgeVars, aroundVars, allowed, failed>>

RetryFailedMessage(m) ==
  /\ m.messageId \in failed
  /\ m.sender \in allowed
  /\ failed' = failed \ {m.messageId}
  /\ ProcessMessage(m)
  /\ UNCHANGED <<sendVars, bridgeVars, aroundVars, allowed>>

-----------------------------------------------------------------------------
(* Follow-ups                                                              *)

ExecutePending(id) ==
  LET o == orders[id]
  IN  /\ o.status = "Pending"
      /\ Buyable(o.policyId, o.amount)
      /\ Available >= o.amount
      /\ Buy(id, o)
      /\ pendingTotal' = pendingTotal - o.amount
      /\ UNCHANGED <<sendVars, bridgeVars, aroundVars, allowed, failed>>

(* Called by the licensee.                                                 *)
CancelPending(id) ==
  LET o == orders[id]
  IN  /\ o.status = "Pending"
      /\ Available >= o.amount
      /\ orders' = [orders EXCEPT ![id].status = "Cancelled"]
      /\ pendingTotal' = pendingTotal - o.amount
      /\ Moves(Receiver, o.licensee, o.amount)
      /\ UNCHANGED <<sendVars, bridgeVars, aroundVars, allowed, failed, owed, owedTotal,
                     licensesBought>>

WithdrawOwed(a) ==
  /\ owed[a] # 0
  /\ owed' = [owed EXCEPT ![a] = 0]
  /\ owedTotal' = owedTotal - owed[a]
  /\ Moves(Receiver, a, owed[a])
  /\ UNCHANGED <<sendVars, bridgeVars, aroundVars, allowed, orders, failed, pendingTotal,
                 licensesBought>>

-----------------------------------------------------------------------------
(* The owner                                                               *)

AllowSender(s, on) ==
  /\ "allow" \in OwnerPowers
  /\ allowed' = IF on THEN allowed \cup {s} ELSE allowed \ {s}
  /\ UNCHANGED <<sendVars, bridgeVars, aroundVars, usdc, orders, failed, owed, owedTotal,
                 pendingTotal, licensesBought>>

(* resolveFailedMessage tries the message and goes on if it reverts: USDC   *)
(* refuses, or a call of processMessage ran short of the gas the owner gave *)
(* (the check against a 63rd of it is about processMessage alone). So the   *)
(* owner may drop a message that could still be processed.                  *)
ResolveFailedMessage(m) ==
  /\ "resolve" \in OwnerPowers
  /\ m.messageId \in failed
  /\ failed' = failed \ {m.messageId}
  /\ UNCHANGED <<sendVars, bridgeVars, aroundVars, usdc, allowed, orders, owed, owedTotal,
                 pendingTotal, licensesBought>>

Sweep ==
  /\ "sweep" \in OwnerPowers
  /\ usdc[Receiver] > pendingTotal + owedTotal
  /\ Moves(Receiver, Owner, usdc[Receiver] - (pendingTotal + owedTotal))
  /\ UNCHANGED <<sendVars, bridgeVars, aroundVars, allowed, orders, failed, owed, owedTotal,
                 pendingTotal, licensesBought>>

-----------------------------------------------------------------------------
(* Around the receiver                                                     *)

MintPolicy ==
  /\ policyCount < MaxPolicies
  /\ policyCount' = policyCount + 1
  /\ UNCHANGED <<sendVars, bridgeVars, blocked, usdc, allowed, orders, failed, owed, owedTotal,
                 pendingTotal, licensesBought>>

Blocklist(a) ==
  /\ blocked' = IF a \in blocked THEN blocked \ {a} ELSE blocked \cup {a}
  /\ UNCHANGED <<sendVars, bridgeVars, policyCount, usdc, allowed, orders, failed, owed,
                 owedTotal, pendingTotal, licensesBought>>

Next ==
  \/ \E s \in Senders, a \in Licensees, p \in PolicyIds, x \in Amounts, f \in MaxFees :
        BuyLicence(s, a, p, x, f)
  \/ \E m \in sent : \E d \in 0 .. m.maxFee : Mint(m, d)
  \/ \E m \in sent : Deliver(m)
  \/ \E m \in sent : DeliverFails(m)
  \/ \E m \in sent : RetryFailedMessage(m)
  \/ \E id \in OrderIds : ExecutePending(id)
  \/ \E id \in OrderIds : CancelPending(id)
  \/ \E a \in Licensees : WithdrawOwed(a)
  \/ \E s \in Senders, on \in BOOLEAN : AllowSender(s, on)
  \/ \E m \in sent : ResolveFailedMessage(m)
  \/ Sweep
  \/ MintPolicy
  \/ \E a \in Blockable : Blocklist(a)

Spec == Init /\ [][Next]_vars

-----------------------------------------------------------------------------
(* Properties                                                              *)

TypeOK ==
  /\ orderCount \in [Senders -> Nat]
  /\ sent \subseteq Message
  /\ minted \subseteq MessageIds /\ executed \subseteq MessageIds /\ failed \subseteq executed
  /\ dust \in Nat
  /\ policyCount \in Nat
  /\ usdc \in [Holders -> Nat]
  /\ blocked \subseteq Holders /\ allowed \subseteq Senders
  /\ orders \in [OrderIds -> Order]
  /\ owed \in [Licensees -> Nat]
  /\ owedTotal \in Nat /\ pendingTotal \in Nat /\ licensesBought \in Nat

PendingAmount(id) == IF orders[id].status = "Pending" THEN orders[id].amount ELSE 0

(* The two totals every decision about money is taken from are the sums of  *)
(* what they total, whichever handler changed an order last.                *)
TotalsAgree ==
  /\ pendingTotal = SumFunctionOnSet([id \in OrderIds |-> PendingAmount(id)], OrderIds)
  /\ owedTotal = SumFunctionOnSet(owed, Licensees)

Cancels(id) == orders[id].status = "Pending" /\ orders'[id].status = "Cancelled"

AmountOf(ms) == SumFunctionOnSet([m \in ms |-> m.amount], ms)

(* Dollars and instructions travel apart, and yet balance: what is here,    *)
(* was swept or is still to be minted is what pending orders, credits and   *)
(* instructions without an order yet stand for, and the dust of CCTP.       *)
DollarsMatchOrders ==
  usdc[Receiver] + usdc[Owner] + AmountOf({m \in sent : m.messageId \notin minted})
    = pendingTotal + owedTotal + dust + AmountOf({m \in sent : IsNew(m)})

(* Once every burn was minted, and unless the owner swept dollars of buyers, *)
(* each order that waits can be executed or cancelled and each credit be    *)
(* collected at once, whatever else waits or was retried: nobody has to wait *)
(* for another's dollars to arrive.                                         *)
ArrivedIsPayable ==
  (\A m \in sent : m.messageId \in minted) /\ usdc[Owner] <= dust =>
    /\ \A id \in OrderIds : orders[id].status = "Pending" => Available >= orders[id].amount
    /\ \A a \in Licensees : owed[a] <= usdc[Receiver]

(* Licences and cancellations are paid from what is not owed to others: they *)
(* never leave less than every credit in the receiver.                       *)
CreditsSpared ==
  [][licensesBought' > licensesBought \/ (\E id \in OrderIds : Cancels(id))
       => usdc'[Receiver] >= owedTotal']_vars

(* An order leaves the two networks once and then ends once: however often  *)
(* messages are retried, it is never both a licence and dollars, its ending *)
(* is final, and its dollars are spent or given back once.                  *)
Desk == INSTANCE LicenceDesk WITH
  Buyers <- Licensees, Policies <- PolicyIds, Sums <- Amounts,
  placed <- {[id |-> m.orderId, buyer |-> m.licensee, policy |-> m.policyId,
              amount |-> m.amount] : m \in sent},
  ended <- {id \in OrderIds : orders[id].status \in {"Licensed", "Cancelled", "Rejected"}},
  income <- usdc[Protocol],
  credit <- owed,
  returned <- [a \in Licensees |-> usdc[a]]

ImplementsLicenceDesk == Desk!Spec

(* CCTP's relayers, CCIP's off-ramp and scripts/keeper.mjs, whose pass tries *)
(* executePending on every pending order, each take a step that stays open.  *)
Fairness ==
  /\ \A s \in Senders, n \in 0 .. MaxOrders - 1 :
       /\ WF_vars(\E m \in sent : m.messageId = <<s, n>> /\ Mint(m, 0))
       /\ WF_vars(\E m \in sent : m.messageId = <<s, n>> /\ Deliver(m))
  /\ \A id \in OrderIds : WF_vars(ExecutePending(id))

FairSpec == Spec /\ Fairness

Settled(m) == orders[m.orderId].status \in {"Licensed", "Cancelled", "Rejected"}

(* Once Circle's list stays empty, an order whose instruction and dollars   *)
(* come in whatever order, among other orders that share the balance, ends, *)
(* or its message is kept as failed for anyone to retry.                    *)
EveryOrderEnds ==
  \A s \in Senders, n \in 0 .. MaxOrders - 1 :
    <>[](blocked = {}) =>
      ((\E m \in sent : m.messageId = <<s, n>>)
         ~> (\E m \in sent : m.messageId = <<s, n>> /\ (Settled(m) \/ <<s, n>> \in failed)))

(* A credit booked before its dollars arrived can be collected in the end.  *)
CreditsBecomePayable ==
  \A a \in Licensees : <>[](blocked = {}) => (owed[a] # 0 ~> owed[a] <= usdc[Receiver])

(* contracts/src/ccip/ThenarCcipReceiver.sol:143 says of sweep: "Never      *)
(* reaches buyers' money": what it ever took is at most CCTP's dust.        *)
SweepTakesOnlyDust == usdc[Owner] <= dust
=============================================================================
