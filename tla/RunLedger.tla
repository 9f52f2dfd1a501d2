------------------------------ MODULE RunLedger ------------------------------
(***************************************************************************)
(* What the routes promise of a run when nobody thinks of their steps: it  *)
(* is offered a payment if no run like it was settled, paid once, settled, *)
(* and its shares are issued once.                                         *)
(***************************************************************************)
EXTENDS Naturals, FiniteSets

CONSTANTS Runs, Operators, By, Near, Slots

VARIABLES
  members,    \* operators admitted to the share register
  offered,    \* runs with a signature out
  paid,       \* runs the contract paid
  settled,    \* runs the store calls paid
  shares      \* how often each run's shares were issued

ledgerVars == <<members, offered, paid, settled, shares>>

Init ==
  /\ members = {} /\ offered = {} /\ paid = {} /\ settled = {}
  /\ shares = [r \in Runs |-> 0]

Join(o) ==
  /\ members' = members \cup {o}
  /\ UNCHANGED <<offered, paid, settled, shares>>

Offer(r) ==
  /\ By[r] \in members
  /\ (Near[r] \ {r}) \cap settled = {}
  /\ offered' = offered \cup {r}
  /\ UNCHANGED <<members, paid, settled, shares>>

Pay(r) ==
  /\ r \in offered \ paid
  /\ Cardinality(paid) < Slots
  /\ paid' = paid \cup {r}
  /\ UNCHANGED <<members, offered, settled, shares>>

Settle(r) ==
  /\ r \in paid
  /\ settled' = settled \cup {r}
  /\ UNCHANGED <<members, offered, paid, shares>>

Issue(r) ==
  /\ r \in settled /\ By[r] \in members
  /\ shares[r] = 0
  /\ shares' = [shares EXCEPT ![r] = 1]
  /\ UNCHANGED <<members, offered, paid, settled>>

Next ==
  \/ \E o \in Operators : Join(o)
  \/ \E r \in Runs : Offer(r) \/ Pay(r) \/ Settle(r) \/ Issue(r)

Spec == Init /\ [][Next]_ledgerVars
=============================================================================
