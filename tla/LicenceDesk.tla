----------------------------- MODULE LicenceDesk -----------------------------
(***************************************************************************)
(* What a licence order from another chain promises its buyer, without the *)
(* two networks and the shared balance that stand between: an order ends   *)
(* at most once, as a licence or as dollars, and its dollars go once, to   *)
(* the policy or back to the buyer who sent them.                          *)
(***************************************************************************)
EXTENDS Naturals

CONSTANTS OrderIds, Buyers, Policies, Sums, Fee

VARIABLES
  placed,     \* the orders placed: [id, buyer, policy, amount]
  ended,      \* ids of orders that ended, as a licence or as dollars
  income,     \* fees the licences brought
  credit,     \* dollars a buyer may collect
  returned    \* dollars a buyer was handed back

deskVars == <<placed, ended, income, credit, returned>>

Init ==
  /\ placed = {} /\ ended = {} /\ income = 0
  /\ credit = [b \in Buyers |-> 0]
  /\ returned = [b \in Buyers |-> 0]

(* Every order has an id of its own.                                       *)
Place(id, b, p, x) ==
  /\ \A o \in placed : o.id # id
  /\ placed' = placed \cup {[id |-> id, buyer |-> b, policy |-> p, amount |-> x]}
  /\ UNCHANGED <<ended, income, credit, returned>>

Ends(o) == o.id \notin ended /\ ended' = ended \cup {o.id} /\ UNCHANGED placed

(* The fee goes to the policy, what was overpaid back to the buyer.        *)
License(o) ==
  /\ Ends(o)
  /\ o.amount >= Fee[o.policy]
  /\ income' = income + Fee[o.policy]
  /\ credit' = [credit EXCEPT ![o.buyer] = @ + (o.amount - Fee[o.policy])]
  /\ UNCHANGED returned

Refuse(o) ==
  /\ Ends(o)
  /\ credit' = [credit EXCEPT ![o.buyer] = @ + o.amount]
  /\ UNCHANGED <<income, returned>>

Cancel(o) ==
  /\ Ends(o)
  /\ returned' = [returned EXCEPT ![o.buyer] = @ + o.amount]
  /\ UNCHANGED <<income, credit>>

Collect(b) ==
  /\ credit[b] # 0
  /\ returned' = [returned EXCEPT ![b] = @ + credit[b]]
  /\ credit' = [credit EXCEPT ![b] = 0]
  /\ UNCHANGED <<placed, ended, income>>

Next ==
  \/ \E id \in OrderIds, b \in Buyers, p \in Policies, x \in Sums : Place(id, b, p, x)
  \/ \E o \in placed : License(o) \/ Refuse(o) \/ Cancel(o)
  \/ \E b \in Buyers : Collect(b)

Spec == Init /\ [][Next]_deskVars
=============================================================================
