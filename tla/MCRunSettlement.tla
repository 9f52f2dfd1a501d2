---------------------------- MODULE MCRunSettlement ----------------------------
(* Values for the runs on RunSettlement.                                   *)
EXTENDS RunSettlement, TLC

CONSTANTS ann, bob, run1, run2, run3, p, q

TwoRuns == {run1, run2}
TwoAndACopy == {run1, run2, run3}

(* run1 and run2 follow one route, driven by two operators.                *)
MCBy == [r \in Runs |-> IF r = run1 THEN ann ELSE bob]
MCNear == [r \in Runs |-> IF r = run3 THEN {run3} ELSE {run1, run2}]

NoneLegacy == [r \in Runs |-> NoTx]
PaidLegacy == [r \in Runs |-> IF r = run3 THEN run3 ELSE NoTx]
OwnLegacy == [r \in Runs |-> IF r = run1 THEN run1 ELSE Reverted]
MixedLegacy == [r \in Runs |-> IF r = run3 THEN Reverted ELSE r]

RequestSymmetry == Permutations(Requests)
=============================================================================
