------------------------------ MODULE TaskOnArc ------------------------------
(***************************************************************************)
(* A task as the server's routes see it on Arc, whatever the contract does *)
(* inside: it has a number of slots, takes runs for a time that ends for   *)
(* good, and what it recorded it never forgets, each run once over all     *)
(* tasks.  ThenarProtocol keeps this, and RunSettlement supposes no more.  *)
(***************************************************************************)
EXTENDS Naturals, FiniteSets

CONSTANTS TaskIds, Hashes,
          SlotCounts   \* for how many runs a task may be posted

VARIABLES
  slots,      \* how many runs each task was posted for; 0: not posted
  takes,      \* the tasks that take runs
  recorded    \* the runs recorded on each task

vars == <<slots, takes, recorded>>

(* Whoever looks, looks at some time, and there may be tasks by then.      *)
Init ==
  /\ slots \in [TaskIds -> Nat]
  /\ takes \in SUBSET TaskIds
  /\ recorded \in [TaskIds -> SUBSET Hashes]
  /\ \A t \in TaskIds : Cardinality(recorded[t]) <= slots[t]

(* A deadline may have passed when the task is posted.                     *)
Post(t, n) ==
  /\ slots[t] = 0 /\ n > 0
  /\ slots' = [slots EXCEPT ![t] = n]
  /\ takes' \in {takes, takes \cup {t}}
  /\ UNCHANGED recorded

Record(t, h) ==
  /\ t \in takes
  /\ Cardinality(recorded[t]) < slots[t]
  /\ \A u \in TaskIds : h \notin recorded[u]
  /\ recorded' = [recorded EXCEPT ![t] = @ \cup {h}]
  /\ UNCHANGED <<slots, takes>>

(* Closed, minted as a policy or past their deadlines.                     *)
End(ts) ==
  /\ takes' = takes \ ts
  /\ UNCHANGED <<slots, recorded>>

Next ==
  \/ \E t \in TaskIds, n \in SlotCounts : Post(t, n)
  \/ \E t \in TaskIds, h \in Hashes : Record(t, h)
  \/ \E ts \in SUBSET takes : End(ts)

Spec == Init /\ [][Next]_vars
=============================================================================
