----------------------------- MODULE BountyBook -----------------------------
(***************************************************************************)
(* What ThenarProtocol promises a sponsor and an operator, with none of    *)
(* its machinery: a task has a pot and a number of places; an accepted run *)
(* takes one place, is paid from that pot, and is written once in a book   *)
(* that is never rewritten; a closed task is empty and stays so.           *)
(***************************************************************************)
EXTENDS Integers

CONSTANTS TaskIds, Accounts, Hashes,
          PlaceCounts,   \* how many runs a task may be posted for
          MaxPot

VARIABLES
  pot,       \* what is left to pay runs of each task
  places,    \* how many runs each task was posted for; 0: not posted
  taken,     \* how many it has accepted
  open,      \* the tasks that are neither closed nor sold as a policy
  book       \* the accepted runs: <<hash, task, operator, paid>>

vars == <<pot, places, taken, open, book>>

Init ==
  /\ pot = [t \in TaskIds |-> 0]
  /\ places = [t \in TaskIds |-> 0]
  /\ taken = [t \in TaskIds |-> 0]
  /\ open = {}
  /\ book = {}

Post(t, n, amount) ==
  /\ places[t] = 0 /\ n > 0 /\ amount > 0
  /\ places' = [places EXCEPT ![t] = n]
  /\ pot' = [pot EXCEPT ![t] = amount]
  /\ open' = open \cup {t}
  /\ UNCHANGED <<taken, book>>

Fund(t, amount) ==
  /\ t \in open /\ amount > 0
  /\ pot' = [pot EXCEPT ![t] = @ + amount]
  /\ UNCHANGED <<places, taken, open, book>>

Accept(t, who, h, paid) ==
  /\ t \in open
  /\ taken[t] < places[t]
  /\ paid <= pot[t]
  /\ \A entry \in book : entry[1] # h
  /\ pot' = [pot EXCEPT ![t] = @ - paid]
  /\ taken' = [taken EXCEPT ![t] = @ + 1]
  /\ book' = book \cup {<<h, t, who, paid>>}
  /\ UNCHANGED <<places, open>>

(* The pot goes back to the sponsor.                                       *)
Close(t) ==
  /\ places[t] > 0
  /\ pot' = [pot EXCEPT ![t] = 0]
  /\ open' = open \ {t}
  /\ UNCHANGED <<places, taken, book>>

(* A task that took every run it was posted for becomes a policy.          *)
Sell(t) ==
  /\ places[t] > 0 /\ taken[t] = places[t]
  /\ open' = open \ {t}
  /\ UNCHANGED <<pot, places, taken, book>>

Next ==
  \E t \in TaskIds :
    \/ \E n \in PlaceCounts, amount \in 0 .. MaxPot : Post(t, n, amount)
    \/ \E amount \in 0 .. MaxPot : Fund(t, amount)
    \/ \E who \in Accounts, h \in Hashes, paid \in 0 .. MaxPot : Accept(t, who, h, paid)
    \/ Close(t)
    \/ Sell(t)

Spec == Init /\ [][Next]_vars
=============================================================================
