------------------------------ MODULE MCServices ------------------------------
(***************************************************************************)
(* Values for the run on the parts around the contracts. They share no     *)
(* state, so the run takes one of them at a time: `part` says which, and   *)
(* the others stay where they begin. TLC explores their sum, not their     *)
(* product.                                                                *)
(***************************************************************************)
EXTENDS SnapshotStore, CorpusSale, CorpusAudit, ArmRelay, StationRun

CONSTANTS
  run1,            \* the statement that inserts a run
  pay1, pay2,
  pull1, pull3,
  first, second,
  ep1,
  mug,
  Parts

VARIABLE part

(* The store: run1 adds its row once however often it is inserted, any      *)
(* other write counts one more. An earlier deployment's image wants an      *)
(* upgrade. Four writes are the most there is room for.                     *)
MCImages == [rows : SUBSET {run1}, hits : 0..4, upgraded : BOOLEAN]
MCRows == MCImages \cup {NoRows}
MCRun(s, image) ==
  IF s = run1 THEN [image EXCEPT !.rows = {run1}]
  ELSE [image EXCEPT !.hits = IF @ < 4 THEN @ + 1 ELSE @]
MCSelect(s, image) == image
MCMigrate(image) == [image EXCEPT !.upgraded = TRUE]
MCSize(image) == Cardinality(image.rows) + image.hits
MCEmptyImage == [rows |-> {}, hits |-> 0, upgraded |-> FALSE]
MCOldImage == [rows |-> {run1}, hits |-> 0, upgraded |-> FALSE]

(* pull1 and pull2 are served by one process, pull3 by another.            *)
MCInstance == [p \in Pulls |-> IF p = pull3 THEN second ELSE first]

(* ep1 has the higher score.                                                *)
MCRank == [e \in Episodes |-> IF e = ep1 THEN 1 ELSE 2]

(* Of what a part may begin with, the parts that stand still take one.     *)
Init ==
  /\ part \in Parts
  /\ StoreInit /\ SaleInit /\ AuditInit /\ ArmInit /\ StationInit
  /\ leader.port => part = "arm" /\ relay.mayArm
  /\ relay.mayArm => part = "arm"
  /\ rig.headset => part = "station" /\ rig.admission = "member"
  /\ rig.admission # "member" => part = "station"
  /\ page.scene = mug

(* With a headset or the passkey step, what two runs and two submissions   *)
(* show of a tab is shown by the plain operator: one of each, and fresh, is *)
(* enough for every other step.                                            *)
OneRun ==
  ~Plain => made' <= 1 /\ ~stale' /\ \A k \in Sends \ {1} : send'[k] = NoSend

(* The payments differ in nothing, so pull1 brings pay1 and pull3 pay2;     *)
(* pull2 may meet either of them on its payment.                           *)
OwnPayments == pull'[pull1].pay # pay2 /\ pull'[pull3].pay # pay1

Next ==
  /\ UNCHANGED part
  /\ \/ /\ part = "store" /\ StoreNext
        /\ UNCHANGED <<saleVars, auditVars, armVars, stationVars>>
     \/ /\ part = "sale" /\ SaleNext /\ OwnPayments
        /\ UNCHANGED <<storeVars, auditVars, armVars, stationVars>>
     \/ /\ part = "audit" /\ AuditNext
        /\ UNCHANGED <<storeVars, saleVars, armVars, stationVars>>
     \/ /\ part = "arm" /\ ArmNext
        /\ UNCHANGED <<storeVars, saleVars, auditVars, stationVars>>
     \/ /\ part = "station" /\ StationNext /\ OneRun
        /\ UNCHANGED <<storeVars, saleVars, auditVars, armVars>>

vars == <<part, storeVars, saleVars, auditVars, armVars, stationVars>>

Spec == Init /\ [][Next]_vars

(* AuditFairness, but a pass need not start where another part moves.      *)
StartsPass == part = "audit" /\ FetchServed(Steady)

FairSpec == Spec /\ SaleFairness /\ ArmFairness /\ PassFairness /\ WF_auditVars(StartsPass)
=============================================================================
