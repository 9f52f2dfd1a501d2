------------------------- MODULE RunSettlementProofs -------------------------
(***************************************************************************)
(* Theorems about RunSettlement: for any number of runs, operators and     *)
(* requests, and whatever fails, rows and log follow the chain; and what   *)
(* the routes keep when they are called one at a time.                     *)
(***************************************************************************)
EXTENDS RunSettlement, FiniteSetTheorems, TLAPS

-----------------------------------------------------------------------------
(* What a handler's step does to the desk                                  *)

DeskType == desk \in [Requests -> Work]

LEMMA GoesDoes ==
  ASSUME DeskType, NEW q \in Requests, NEW s \in Stages, Goes(q, s)
  PROVE  /\ DeskType'
         /\ desk'[q] = [at |-> s, run |-> desk[q].run, nonce |-> desk[q].nonce]
         /\ desk'[q].at = s /\ desk'[q].run = desk[q].run
         /\ \A p \in Requests : p # q => desk'[p] = desk[p]
  BY DEF DeskType, Goes, Work

LEMMA TakesDoes ==
  ASSUME DeskType, NEW q \in Requests, NEW r \in Runs, NEW s \in Stages, Takes(q, r, s)
  PROVE  /\ DeskType'
         /\ desk'[q] = [at |-> s, run |-> r, nonce |-> 0]
         /\ desk'[q].at = s /\ desk'[q].run = r
         /\ \A p \in Requests : p # q => desk'[p] = desk[p]
  BY DEF DeskType, Takes, Work

LEMMA LeavesDoes ==
  ASSUME DeskType, NEW q \in Requests, Leaves(q)
  PROVE  /\ DeskType'
         /\ desk'[q] = Idle /\ desk'[q].at = "idle"
         /\ \A p \in Requests : p # q => desk'[p] = desk[p]
  BY DEF DeskType, Leaves, Work, Idle, Stages

LEMMA CountDoes ==
  ASSUME DeskType, nonce \in Nat, NEW q \in Requests, CountNonce(q)
  PROVE  /\ DeskType'
         /\ desk'[q] = [at |-> "send", run |-> desk[q].run, nonce |-> nonce]
         /\ desk'[q].at = "send" /\ desk'[q].run = desk[q].run
         /\ \A p \in Requests : p # q => desk'[p] = desk[p]
  BY DEF DeskType, CountNonce, Work, Stages

(* A handler at work has a run, one that settles a paid and stored run, and *)
(* one that issues an admitted driver.                                      *)
Settles == {"mark", "look", "count", "send", "receipt"}
Issues == {"count", "send", "receipt"}

Works(w) ==
  /\ w.at # "idle" => w.run \in Runs
  /\ w.at \in Settles => w.run \in paid /\ Stored(w.run)
  /\ w.at \in Issues => By[w.run] \in listed

Busy == \A q \in Requests : Works(desk[q])

(* A row's transaction is its own run's or the one an older version left,   *)
(* and so is every transaction reconcile has listed.                        *)
Named(r, tx) == Stored(r) /\ tx \in {r, Legacy[r]}

Rows ==
  /\ \A r \in Runs : txOf[r] # NoTx => Named(r, txOf[r])
  /\ \A r \in Runs, tx \in Txs : <<r, tx>> \in sweep => Named(r, tx)

(* LedgerFollowsChain but for one row a run, which is part of the types.    *)
SettledFollows ==
  \A r \in settled : Stored(r) /\ txOf[r] \in paid /\ txOf[r] \in {r, Legacy[r]}

IInv == TypeOK /\ Busy /\ Rows /\ SettledFollows /\ LogFollowsIssues

-----------------------------------------------------------------------------
(* What never goes back                                                    *)

Kept ==
  /\ listed \subseteq listed' /\ paid \subseteq paid'
  /\ \A r \in Runs : Stored(r) => Stored(r)'

LEMMA StoreRunAppends ==
  ASSUME TypeOK, NEW q \in Requests, desk[q].run \in Runs, StoreRun(q)
  PROVE  /\ filed' \in Seq(Runs)
         /\ \A i, j \in DOMAIN filed' : filed'[i] = filed'[j] => i = j
         /\ \A r \in Runs : Stored(r)' <=> Stored(r) \/ r = desk[q].run
<1> PICK d \in Runs : d = desk[q].run
  OBVIOUS
<1> filed \in Seq(Runs) /\ \A i, j \in DOMAIN filed : filed[i] = filed[j] => i = j
  BY DEF TypeOK
<1>1. CASE Stored(d)
  <2>1. filed' = filed
    BY <1>1 DEF StoreRun
  <2> QED BY <1>1, <2>1 DEF Stored
<1>2. CASE ~ Stored(d)
  <2>1. PICK f \in Seq(Runs) : f = filed
    OBVIOUS
  <2>2. PICK g : g = Append(f, d)
    OBVIOUS
  <2> g \in Seq(Runs)
    BY <2>2
  <2>3. filed' = g
    BY <1>2, <2>1, <2>2 DEF StoreRun
  <2>4. /\ Len(f) \in Nat /\ DOMAIN f = 1 .. Len(f)
        /\ Len(g) = Len(f) + 1 /\ DOMAIN g = 1 .. Len(f) + 1
        /\ g[Len(f) + 1] = d
        /\ \A i \in 1 .. Len(f) : g[i] = f[i]
    BY <2>2
  <2>5. \A i \in DOMAIN f : f[i] # d
    BY <1>2, <2>1 DEF Stored
  <2>6. \A i, j \in DOMAIN f : f[i] = f[j] => i = j
    BY <2>1
  <2>7. \A i, j \in DOMAIN g : g[i] = g[j] => i = j
    BY ONLY <2>4, <2>5, <2>6
  <2>8. \A r \in Runs : (\E i \in DOMAIN g : g[i] = r) <=> (\E i \in DOMAIN f : f[i] = r) \/ r = d
    BY ONLY <2>4
  <2> QED BY <2>1, <2>3, <2>7, <2>8 DEF Stored
<1> QED BY <1>1, <1>2

LEMMA StoredStays == filed' = filed => \A r \in Runs : Stored(r)' <=> Stored(r)
  BY DEF Stored

LEMMA KeptStep ==
  ASSUME TypeOK, Busy, [Next]_vars
  PROVE  Kept
<1> USE DEF chainVars, storeVars
<1>1. ASSUME NEW q \in Requests, StoreRun(q) PROVE Kept
  <2>1. desk[q].run \in Runs
    BY <1>1 DEF StoreRun, Busy, Works, At
  <2> QED BY <1>1, <2>1, StoreRunAppends DEF Kept, StoreRun
<1>2. CASE \E r \in Runs : SubmitRun(r)
  BY <1>2, StoredStays DEF SubmitRun, Kept
<1>3. CASE \E q \in Requests, o \in Operators : Admit(q, o)
  BY <1>3, StoredStays DEF Admit, Kept
<1>4. CASE UNCHANGED <<listed, paid, filed>>
  BY <1>4, StoredStays DEF Kept
<1> QED
  BY <1>1, <1>2, <1>3, <1>4 DEF Next, vars, TaskEnds, Verify, Sign, Answer, Submitted, MarkSettled,
     LookForIssue, CountNonce, SendIssue, LogIssue, Fail, Reconcile, ReconcileRow, ReconcileStops

LEMMA WorksOn ==
  ASSUME Kept, NEW w, Works(w)
  PROVE  Works(w)'
  BY DEF Kept, Works, Issues, Settles
(* A step of one handler keeps the others as they were.                    *)
LEMMA OneWorks ==
  ASSUME Busy, Kept, NEW q \in Requests, Works(desk[q])',
         \A p \in Requests : p # q => desk'[p] = desk[p]
  PROVE  Busy'
<1> SUFFICES ASSUME NEW p \in Requests PROVE Works(desk[p])'
  BY DEF Busy
<1>1. CASE p = q
  BY <1>1
<1>2. CASE p # q
  <2>1. PICK w : w = desk[p]
    OBVIOUS
  <2>2. Works(w)
    BY <2>1 DEF Busy
  <2>3. Works(w)'
    BY <2>2, WorksOn
  <2>4. desk'[p] = w
    BY <1>2, <2>1
  <2> QED BY <2>3, <2>4
<1> QED BY <1>1, <1>2

LEMMA NoneWorks ==
  ASSUME Busy, Kept, desk' = desk
  PROVE  Busy'
<1> SUFFICES ASSUME NEW p \in Requests PROVE Works(desk[p])'
  BY DEF Busy
<1>1. PICK w : w = desk[p]
  OBVIOUS
<1>2. Works(w)
  BY <1>1 DEF Busy
<1>3. Works(w)'
  BY <1>2, WorksOn
<1>4. desk'[p] = w
  BY <1>1
<1> QED BY <1>3, <1>4

LEMMA IdleWorks == Works(Idle)'
  BY DEF Works, Idle, Settles, Issues

LEMMA BusyStep ==
  ASSUME TypeOK, Busy, [Next]_vars
  PROVE  Busy'
<1> USE DEF chainVars, storeVars
<1>0. Kept /\ DeskType /\ nonce \in Nat
  BY KeptStep DEF TypeOK, DeskType
<1>1. CASE desk' = desk
  BY <1>0, <1>1, NoneWorks
<1>2. ASSUME NEW q \in Requests, Leaves(q) PROVE Busy'
  <2>1. desk'[q] = Idle /\ \A p \in Requests : p # q => desk'[p] = desk[p]
    BY <1>0, <1>2, LeavesDoes
  <2>2. Works(desk[q])'
    BY <2>1, IdleWorks
  <2> QED BY <1>0, <2>1, <2>2, OneWorks
<1>3. ASSUME NEW q \in Requests, NEW r \in Runs, NEW s \in Stages, Takes(q, r, s),
             s \notin Settles \/ (s = "mark" /\ r \in paid /\ Stored(r))
      PROVE  Busy'
  <2>1. /\ desk'[q] = [at |-> s, run |-> r, nonce |-> 0]
        /\ \A p \in Requests : p # q => desk'[p] = desk[p]
    BY <1>0, <1>3, TakesDoes
  <2>2. Works(desk[q])'
    BY <1>0, <1>3, <2>1 DEF Works, Settles, Issues, Kept
  <2> QED BY <1>0, <2>1, <2>2, OneWorks
<1>4. ASSUME NEW q \in Requests, NEW s \in Stages, Goes(q, s), ~ At(q, "idle"),
             s \in Settles => desk[q].at \in Settles,
             s \in Issues => desk[q].at \in Issues \/ By[desk[q].run] \in listed
      PROVE  Busy'
  <2>1. PICK w : w = desk[q]
    OBVIOUS
  <2>2. /\ desk'[q] = [at |-> s, run |-> w.run, nonce |-> w.nonce]
        /\ \A p \in Requests : p # q => desk'[p] = desk[p]
    BY <1>0, <1>4, <2>1, GoesDoes
  <2>3. Works(w) /\ w.at # "idle"
    BY <1>4, <2>1 DEF Busy, At
  <2>4. Works(w)'
    BY <1>0, <2>3, WorksOn
  <2>5. listed \subseteq listed'
    BY <1>0 DEF Kept
  <2>6. Works(desk[q])'
    BY <1>4, <2>1, <2>2, <2>3, <2>4, <2>5 DEF Works, Settles, Issues
  <2> QED BY <1>0, <2>2, <2>6, OneWorks
<1>5. ASSUME NEW q \in Requests, CountNonce(q) PROVE Busy'
  <2>1. PICK w : w = desk[q]
    OBVIOUS
  <2>2. /\ desk'[q] = [at |-> "send", run |-> w.run, nonce |-> nonce]
        /\ \A p \in Requests : p # q => desk'[p] = desk[p]
    BY <1>0, <1>5, <2>1, CountDoes
  <2>3. Works(w) /\ w.at = "count"
    BY <1>5, <2>1 DEF Busy, At, CountNonce
  <2>4. Works(w)'
    BY <1>0, <2>3, WorksOn
  <2>5. Works(desk[q])'
    BY <2>2, <2>3, <2>4 DEF Works, Settles, Issues
  <2> QED BY <1>0, <2>2, <2>5, OneWorks
<1>6. ASSUME NEW q \in Requests, NEW r \in Runs, Verify(q, r) PROVE Busy'
  BY <1>3, <1>6 DEF Verify, Stages, Settles
<1>7. ASSUME NEW q \in Requests, NEW r \in Runs, Submitted(q, r) PROVE Busy'
  BY <1>3, <1>7 DEF Submitted, Stages
<1>8. ASSUME NEW q \in Requests, Sign(q) PROVE Busy'
  <2>1. CASE Goes(q, "store")
    BY <1>4, <1>8, <2>1 DEF Sign, Stages, Settles, Issues, At
  <2> QED BY <1>2, <1>8, <2>1 DEF Sign
<1>9. ASSUME NEW q \in Requests, StoreRun(q) PROVE Busy'
  BY <1>4, <1>9 DEF StoreRun, Stages, Settles, Issues, At
<1>10. ASSUME NEW q \in Requests, MarkSettled(q) PROVE Busy'
  BY <1>4, <1>10 DEF MarkSettled, Stages, Settles, Issues, At
<1>11. ASSUME NEW q \in Requests, LookForIssue(q) PROVE Busy'
  <2>1. CASE By[desk[q].run] \in listed /\ Goes(q, "count")
    BY <1>4, <1>11, <2>1 DEF LookForIssue, Stages, Settles, Issues, At
  <2> QED BY <1>2, <1>11, <2>1 DEF LookForIssue
<1>12. ASSUME NEW q \in Requests, SendIssue(q) PROVE Busy'
  <2>1. CASE Goes(q, "receipt")
    BY <1>4, <1>12, <2>1 DEF SendIssue, Stages, Settles, Issues, At
  <2> QED BY <1>2, <1>12, <2>1 DEF SendIssue
<1>13. ASSUME NEW q \in Requests, Answer(q) \/ LogIssue(q) \/ Fail(q) PROVE Busy'
  BY <1>2, <1>13 DEF Answer, LogIssue, Fail
<1> QED
  BY <1>1, <1>5, <1>6, <1>7, <1>8, <1>9, <1>10, <1>11, <1>12, <1>13
     DEF Next, vars, TaskEnds, SubmitRun, Admit, Reconcile, ReconcileRow, ReconcileStops
-----------------------------------------------------------------------------
(* The store's rows                                                        *)

LEMMA NamedOn ==
  ASSUME Kept, NEW r \in Runs, NEW tx, Named(r, tx)
  PROVE  Named(r, tx)'
  BY DEF Kept, Named

LEMMA MarkFacts ==
  ASSUME Busy, NEW q \in Requests, MarkSettled(q)
  PROVE  \E r \in Runs : /\ r = desk[q].run /\ r \in paid /\ Stored(r)
                         /\ settled' = settled \cup {r}
                         /\ txOf' = [txOf EXCEPT ![r] = r]
  BY DEF Busy, MarkSettled, At, Works, Settles

LEMMA RowsStep ==
  ASSUME TypeOK, Busy, Rows, [Next]_vars
  PROVE  Rows'
<1> USE DEF chainVars, storeVars
<1>0. Kept /\ txOf \in [Runs -> Txs]
  BY KeptStep DEF TypeOK
<1>1. CASE UNCHANGED <<txOf, sweep>>
  <2>1. ASSUME NEW r \in Runs, txOf'[r] # NoTx PROVE Named(r, txOf[r])'
    <3>1. PICK tx : tx = txOf[r]
      OBVIOUS
    <3>2. Named(r, tx)
      BY <1>1, <2>1, <3>1 DEF Rows
    <3>3. Named(r, tx)'
      BY <1>0, <3>2, NamedOn
    <3> QED BY <1>1, <3>1, <3>3 DEF Named
  <2>2. ASSUME NEW r \in Runs, NEW tx \in Txs, <<r, tx>> \in sweep' PROVE Named(r, tx)'
    BY <1>0, <1>1, <2>2, NamedOn DEF Rows
  <2> QED BY <2>1, <2>2 DEF Rows
<1>2. ASSUME NEW q \in Requests, MarkSettled(q) PROVE Rows'
  <2>1. PICK d \in Runs : /\ d \in paid /\ Stored(d)
                         /\ txOf' = [txOf EXCEPT ![d] = d]
    BY <1>2, MarkFacts
  <2>2. filed' = filed /\ sweep' = sweep
    BY <1>2 DEF MarkSettled
  <2>3. \A r \in Runs : Stored(r)' <=> Stored(r)
    BY <2>2, StoredStays
  <2>4. ASSUME NEW r \in Runs, txOf'[r] # NoTx PROVE Named(r, txOf[r])'
    <3>1. CASE r = d
      BY <1>0, <2>1, <2>3, <3>1 DEF Named
    <3>2. CASE r # d
      <4>1. txOf'[r] = txOf[r]
        BY <1>0, <2>1, <3>2
      <4> QED BY <2>3, <2>4, <4>1 DEF Named, Rows
    <3> QED BY <3>1, <3>2
  <2> QED BY <2>2, <2>3, <2>4 DEF Rows, Named
<1>3. CASE Reconcile
  <2>1. filed' = filed /\ txOf' = txOf /\ sweep' = {<<r, txOf[r]>> : r \in Unsettled}
    BY <1>3 DEF Reconcile
  <2>2. \A r \in Runs : Stored(r)' <=> Stored(r)
    BY <2>1, StoredStays
  <2>3. ASSUME NEW r \in Runs, NEW tx \in Txs, <<r, tx>> \in sweep' PROVE Named(r, tx)'
    <3>1. PICK s \in Unsettled : <<r, tx>> = <<s, txOf[s]>>
      BY <2>1, <2>3
    <3>2. s = r /\ tx = txOf[r] /\ txOf[r] # NoTx
      BY <3>1 DEF Unsettled
    <3> QED BY <2>2, <3>2 DEF Rows, Named
  <2> QED BY <2>1, <2>2, <2>3 DEF Rows, Named
<1>4. ASSUME NEW d \in Runs, NEW t \in Txs, ReconcileRow(d, t) PROVE Rows'
  <2>1. /\ filed' = filed /\ <<d, t>> \in sweep /\ sweep' \subseteq sweep
        /\ \/ txOf' = [txOf EXCEPT ![d] = t]
           \/ txOf' = [txOf EXCEPT ![d] = NoTx]
    BY <1>4 DEF ReconcileRow, ClearTx
  <2>2. \A r \in Runs : Stored(r)' <=> Stored(r)
    BY <2>1, StoredStays
  <2>3. Named(d, t)
    BY <2>1 DEF Rows
  <2>4. ASSUME NEW r \in Runs, txOf'[r] # NoTx PROVE Named(r, txOf[r])'
    <3>1. CASE r = d
      <4>1. txOf'[r] = t
        BY <1>0, <2>1, <2>4, <3>1
      <4> QED BY <2>2, <2>3, <3>1, <4>1 DEF Named
    <3>2. CASE r # d
      <4>1. txOf'[r] = txOf[r]
        BY <1>0, <2>1, <3>2
      <4> QED BY <2>2, <2>4, <4>1 DEF Named, Rows
    <3> QED BY <3>1, <3>2
  <2> QED BY <2>1, <2>2, <2>4 DEF Rows, Named
<1>5. CASE ReconcileStops
  BY <1>0, <1>5, StoredStays DEF ReconcileStops, Rows, Named
<1> QED
  BY <1>1, <1>2, <1>3, <1>4, <1>5 DEF Next, vars, TaskEnds, SubmitRun, Admit, Verify, Sign,
     StoreRun, Answer, Submitted, LookForIssue, CountNonce, SendIssue, LogIssue, Fail

LEMMA LedgerStep ==
  ASSUME TypeOK, Busy, Rows, SettledFollows, [Next]_vars
  PROVE  SettledFollows'
<1> USE DEF chainVars, storeVars
<1>0. Kept /\ txOf \in [Runs -> Txs] /\ settled \subseteq Runs
  BY KeptStep DEF TypeOK
<1>1. CASE UNCHANGED <<settled, txOf>>
  BY <1>0, <1>1 DEF SettledFollows, Kept
<1>2. ASSUME NEW q \in Requests, MarkSettled(q) PROVE SettledFollows'
  <2>1. PICK d \in Runs : /\ d \in paid /\ Stored(d)
                         /\ settled' = settled \cup {d}
                         /\ txOf' = [txOf EXCEPT ![d] = d]
    BY <1>2, MarkFacts
  <2>2. ASSUME NEW r \in settled'
        PROVE  Stored(r)' /\ txOf'[r] \in paid' /\ txOf'[r] \in {r, Legacy[r]}
    <3>1. CASE r = d
      BY <1>0, <2>1, <3>1 DEF Kept
    <3>2. CASE r # d
      <4>1. r \in settled /\ txOf'[r] = txOf[r]
        BY <1>0, <2>1, <2>2, <3>2
      <4> QED BY <1>0, <4>1 DEF SettledFollows, Kept
    <3> QED BY <3>1, <3>2
  <2> QED BY <2>2 DEF SettledFollows
<1>3. ASSUME NEW d \in Runs, NEW t \in Txs, ReconcileRow(d, t) PROVE SettledFollows'
  <2>1. <<d, t>> \in sweep
    BY <1>3 DEF ReconcileRow
  <2>2. Named(d, t)
    BY <2>1 DEF Rows
  <2>3. \/ /\ t \in paid
           /\ settled' = settled \cup {d}
           /\ txOf' = [txOf EXCEPT ![d] = t]
        \/ /\ settled' = settled \ {d}
           /\ txOf' = [txOf EXCEPT ![d] = NoTx]
    BY <1>3 DEF ReconcileRow, ClearTx, Confirms
  <2>4. ASSUME NEW r \in settled'
        PROVE  Stored(r)' /\ txOf'[r] \in paid' /\ txOf'[r] \in {r, Legacy[r]}
    <3>1. CASE r = d
      <4>1. t \in paid /\ txOf'[r] = t
        BY <1>0, <2>3, <2>4, <3>1
      <4> QED BY <1>0, <2>2, <3>1, <4>1 DEF Kept, Named
    <3>2. CASE r # d
      <4>1. r \in settled /\ txOf'[r] = txOf[r]
        BY <1>0, <2>3, <2>4, <3>2
      <4> QED BY <1>0, <4>1 DEF SettledFollows, Kept
    <3> QED BY <3>1, <3>2
  <2> QED BY <2>4 DEF SettledFollows
<1> QED
  BY <1>1, <1>2, <1>3 DEF Next, vars, TaskEnds, SubmitRun, Admit, Verify, Sign, StoreRun, Answer,
     Submitted, LookForIssue, CountNonce, SendIssue, LogIssue, Fail, Reconcile, ReconcileStops
-----------------------------------------------------------------------------
(* Types                                                                   *)

LEMMA DeskStep ==
  ASSUME DeskType, nonce \in Nat, [Next]_vars
  PROVE  DeskType'
<1> USE DEF chainVars, storeVars
<1>1. CASE desk' = desk
  BY <1>1 DEF DeskType
<1>2. ASSUME NEW q \in Requests, NEW r \in Runs, Verify(q, r) \/ Submitted(q, r) PROVE DeskType'
  BY <1>2, TakesDoes DEF Verify, Submitted, Stages
<1>3. ASSUME NEW q \in Requests, Sign(q) \/ StoreRun(q) \/ MarkSettled(q) PROVE DeskType'
  BY <1>3, GoesDoes, LeavesDoes DEF Sign, StoreRun, MarkSettled, Stages
<1>4. ASSUME NEW q \in Requests, LookForIssue(q) \/ SendIssue(q) PROVE DeskType'
  BY <1>4, GoesDoes, LeavesDoes DEF LookForIssue, SendIssue, Stages
<1>5. ASSUME NEW q \in Requests, CountNonce(q) PROVE DeskType'
  BY <1>5, CountDoes
<1>6. ASSUME NEW q \in Requests, Answer(q) \/ LogIssue(q) \/ Fail(q) PROVE DeskType'
  BY <1>6, LeavesDoes DEF Answer, LogIssue, Fail
<1> QED
  BY <1>1, <1>2, <1>3, <1>4, <1>5, <1>6
     DEF Next, vars, TaskEnds, SubmitRun, Admit, Reconcile, ReconcileRow, ReconcileStops

LEMMA TypeOKStep ==
  ASSUME TypeOK, Busy, [Next]_vars
  PROVE  TypeOK'
<1> USE DEF chainVars, storeVars
<1>0. DeskType'
  BY DeskStep DEF TypeOK, DeskType
<1>1. CASE UNCHANGED <<task, listed, paid, nonce, shares, storeVars, signed, sweep>>
  BY <1>0, <1>1 DEF TypeOK, DeskType
<1>2. ASSUME TaskEnds PROVE TypeOK'
  BY <1>2 DEF TypeOK, TaskEnds
<1>3. ASSUME NEW r \in Runs, SubmitRun(r) PROVE TypeOK'
  BY <1>3 DEF TypeOK, SubmitRun
<1>4. ASSUME NEW q \in Requests, NEW o \in Operators, Admit(q, o) PROVE TypeOK'
  BY <1>4 DEF TypeOK, Admit
<1>5. ASSUME NEW q \in Requests, StoreRun(q) PROVE TypeOK'
  <2>1. desk[q].run \in Runs
    BY <1>5 DEF StoreRun, Busy, Works, At
  <2>2. filed' \in Seq(Runs) /\ \A i, j \in DOMAIN filed' : filed'[i] = filed'[j] => i = j
    BY <1>5, <2>1, StoreRunAppends
  <2> QED BY <1>0, <1>5, <2>2 DEF TypeOK, DeskType, StoreRun
<1>6. ASSUME NEW q \in Requests, Answer(q) PROVE TypeOK'
  BY <1>0, <1>6 DEF TypeOK, DeskType, Answer, Busy, Works, At
<1>7. ASSUME NEW q \in Requests, MarkSettled(q) PROVE TypeOK'
  <2>1. PICK d \in Runs : settled' = settled \cup {d} /\ txOf' = [txOf EXCEPT ![d] = d]
    BY <1>7, MarkFacts
  <2> QED BY <1>0, <1>7, <2>1 DEF TypeOK, DeskType, MarkSettled, Txs
<1>8. ASSUME NEW q \in Requests, SendIssue(q) PROVE TypeOK'
  BY <1>0, <1>8 DEF TypeOK, DeskType, SendIssue
<1>9. ASSUME NEW q \in Requests, LogIssue(q) PROVE TypeOK'
  <2>0. PICK d \in Runs : d = desk[q].run
    BY <1>9 DEF Busy, Works, LogIssue, At
  <2>1. logged \in [Runs -> Nat] /\ logged' = [logged EXCEPT ![d] = logged[d] + 1]
    BY <1>9, <2>0 DEF TypeOK, LogIssue
  <2>1a. logged[d] + 1 \in Nat
    BY <2>1
  <2>1b. logged' \in [Runs -> Nat]
    BY <2>1, <2>1a
  <2> QED BY <1>0, <1>9, <2>1b DEF TypeOK, DeskType, LogIssue
<1>10. CASE Reconcile
  <2>1. ASSUME NEW w \in sweep' PROVE w \in Runs \X Txs
    BY <1>10, <2>1 DEF Reconcile, Unsettled, TypeOK
  <2> QED BY <1>0, <1>10, <2>1 DEF TypeOK, DeskType, Reconcile
<1>11. ASSUME NEW r \in Runs, NEW tx \in Txs, ReconcileRow(r, tx) PROVE TypeOK'
  BY <1>11 DEF TypeOK, ReconcileRow, ClearTx, Txs
<1>12. CASE ReconcileStops
  BY <1>0, <1>12 DEF TypeOK, DeskType, ReconcileStops
<1> QED
  BY <1>1, <1>2, <1>3, <1>4, <1>5, <1>6, <1>7, <1>8, <1>9, <1>10, <1>11, <1>12
     DEF Next, vars, Verify, Sign, Submitted, LookForIssue, CountNonce, Fail

-----------------------------------------------------------------------------
(* The log and the issues                                                  *)

LEMMA AwaitedFinite ==
  ASSUME NEW r \in Runs
  PROVE  IsFiniteSet(Awaited(r)) /\ Cardinality(Awaited(r)) \in Nat
<1>1. Awaited(r) \subseteq Requests
  BY DEF Awaited
<1>2. IsFiniteSet(Awaited(r))
  BY <1>1, SettlementAssumption, FS_Subset DEF SettlementAssumption
<1> QED BY <1>2, FS_CardinalityType

(* Who waits for a receipt changes only for the handler that moved.        *)
LEMMA AwaitedMoves ==
  ASSUME NEW q \in Requests, NEW r \in Runs,
         \A p \in Requests : p # q => desk'[p] = desk[p]
  PROVE  /\ q \in Awaited(r) <=> At(q, "receipt") /\ desk[q].run = r
         /\ q \in Awaited(r)' <=> At(q, "receipt")' /\ desk'[q].run = r
         /\ \A p : p # q => (p \in Awaited(r)' <=> p \in Awaited(r))
  BY DEF Awaited, At

LEMMA AwaitedCounts ==
  ASSUME NEW q \in Requests, NEW r \in Runs,
         \A p \in Requests : p # q => desk'[p] = desk[p]
  PROVE  /\ (q \in Awaited(r) <=> q \in Awaited(r)')
               => Cardinality(Awaited(r)') = Cardinality(Awaited(r))
         /\ q \notin Awaited(r) /\ q \in Awaited(r)'
               => Cardinality(Awaited(r)') = Cardinality(Awaited(r)) + 1
         /\ q \in Awaited(r) /\ q \notin Awaited(r)'
               => Cardinality(Awaited(r)') = Cardinality(Awaited(r)) - 1
<1>1. \A p : p # q => (p \in Awaited(r)' <=> p \in Awaited(r))
  BY AwaitedMoves
<1>2. IsFiniteSet(Awaited(r)) /\ Cardinality(Awaited(r)) \in Nat
  BY AwaitedFinite
<1>3. CASE q \in Awaited(r) <=> q \in Awaited(r)'
  <2>1. Awaited(r)' = Awaited(r)
    BY <1>1, <1>3
  <2> QED BY <1>3, <2>1
<1>4. CASE q \notin Awaited(r) /\ q \in Awaited(r)'
  <2>1. Awaited(r)' = Awaited(r) \cup {q}
    BY <1>1, <1>4
  <2>2. Cardinality(Awaited(r) \cup {q}) = Cardinality(Awaited(r)) + 1
    BY <1>2, <1>4, FS_AddElement
  <2> QED BY <1>4, <2>1, <2>2
<1>5. CASE q \in Awaited(r) /\ q \notin Awaited(r)'
  <2>1. Awaited(r)' = Awaited(r) \ {q}
    BY <1>1, <1>5
  <2>2. Cardinality(Awaited(r) \ {q}) = Cardinality(Awaited(r)) - 1
    BY <1>2, <1>5, FS_RemoveElement
  <2> QED BY <1>5, <2>1, <2>2
<1> QED BY <1>3, <1>4, <1>5
Follows(r) ==
  /\ shares[r] > 0 => r \in paid /\ Stored(r) /\ By[r] \in listed
  /\ logged[r] + Cardinality(Awaited(r)) <= shares[r]
  /\ ~ Faults => logged[r] + Cardinality(Awaited(r)) = shares[r]

(* A step that issues and logs nothing for r leaves r's log following.     *)
LEMMA FollowsOn ==
  ASSUME TypeOK, Kept, NEW r \in Runs, Follows(r),
         shares'[r] = shares[r], logged'[r] = logged[r],
         Cardinality(Awaited(r)') = Cardinality(Awaited(r))
  PROVE  Follows(r)'
  BY DEF Follows, Kept

LEMMA LogStep ==
  ASSUME TypeOK, Busy, LogFollowsIssues, [Next]_vars
  PROVE  LogFollowsIssues'
<1> USE DEF chainVars, storeVars
<1>0. /\ Kept /\ DeskType
      /\ shares \in [Runs -> Nat] /\ logged \in [Runs -> Nat] /\ nonce \in Nat
  BY KeptStep DEF TypeOK, DeskType
<1> SUFFICES ASSUME NEW r \in Runs PROVE Follows(r)'
  BY DEF LogFollowsIssues, Follows
<1>00. Follows(r)
  BY DEF LogFollowsIssues, Follows
<1>c. Cardinality(Awaited(r)) \in Nat
  BY AwaitedFinite
<1>1. CASE UNCHANGED <<shares, logged, desk>>
  <2>1. Awaited(r)' = Awaited(r)
    BY <1>1 DEF Awaited, At
  <2> QED BY <1>0, <1>00, <1>1, <2>1, FollowsOn
<1>2. ASSUME NEW q \in Requests, shares' = shares, logged' = logged,
             ~ At(q, "receipt"), desk'[q].at # "receipt",
             \A p \in Requests : p # q => desk'[p] = desk[p]
      PROVE  Follows(r)'
  <2>1. Cardinality(Awaited(r)') = Cardinality(Awaited(r))
    BY <1>2, AwaitedMoves, AwaitedCounts DEF At
  <2> QED BY <1>0, <1>00, <1>2, <2>1, FollowsOn
<1>3. ASSUME NEW q \in Requests, NEW s \in Runs, Verify(q, s) \/ Submitted(q, s) PROVE Follows(r)'
  <2>1. CASE Takes(q, s, "sign")
    <3>1. desk'[q].at = "sign" /\ \A p \in Requests : p # q => desk'[p] = desk[p]
      BY <1>0, <2>1, TakesDoes DEF Stages
    <3> QED BY <1>2, <1>3, <3>1 DEF Verify, Submitted, Free, At
  <2>2. CASE Takes(q, s, "mark")
    <3>1. desk'[q].at = "mark" /\ \A p \in Requests : p # q => desk'[p] = desk[p]
      BY <1>0, <2>2, TakesDoes DEF Stages
    <3> QED BY <1>2, <1>3, <3>1 DEF Verify, Submitted, Free, At
  <2> QED BY <1>3, <2>1, <2>2 DEF Verify, Submitted
<1>4. ASSUME NEW q \in Requests, Sign(q) \/ StoreRun(q) \/ MarkSettled(q) \/ LookForIssue(q)
      PROVE  Follows(r)'
  <2>1. \/ Leaves(q)
        \/ \E s \in Stages : s # "receipt" /\ Goes(q, s)
    BY <1>4 DEF Sign, StoreRun, MarkSettled, LookForIssue, Stages
  <2>1a. ASSUME NEW s \in Stages, s # "receipt", Goes(q, s)
         PROVE  desk'[q].at # "receipt" /\ \A p \in Requests : p # q => desk'[p] = desk[p]
    <3>1. desk'[q].at = s /\ \A p \in Requests : p # q => desk'[p] = desk[p]
      BY <1>0, <2>1a, GoesDoes
    <3> QED BY <2>1a, <3>1
  <2>1b. ASSUME Leaves(q)
         PROVE  desk'[q].at # "receipt" /\ \A p \in Requests : p # q => desk'[p] = desk[p]
    BY <1>0, <2>1b, LeavesDoes DEF Idle
  <2>2. desk'[q].at # "receipt" /\ \A p \in Requests : p # q => desk'[p] = desk[p]
    BY <2>1, <2>1a, <2>1b
  <2> QED BY <1>2, <1>4, <2>2 DEF Sign, StoreRun, MarkSettled, LookForIssue, At
<1>5. ASSUME NEW q \in Requests, CountNonce(q) PROVE Follows(r)'
  <2>1. desk'[q].at # "receipt" /\ \A p \in Requests : p # q => desk'[p] = desk[p]
    BY <1>0, <1>5, CountDoes
  <2> QED BY <1>2, <1>5, <2>1 DEF CountNonce, At
<1>6. ASSUME NEW q \in Requests, Answer(q) PROVE Follows(r)'
  <2>1. desk'[q].at # "receipt" /\ \A p \in Requests : p # q => desk'[p] = desk[p]
    BY <1>0, <1>6, LeavesDoes DEF Answer, Idle
  <2> QED BY <1>2, <1>6, <2>1 DEF Answer, At
<1>7. ASSUME NEW q \in Requests, SendIssue(q) PROVE Follows(r)'
  <2>1. PICK d \in Runs : /\ d = desk[q].run
                         /\ d \in paid /\ Stored(d) /\ By[d] \in listed
    BY <1>7 DEF Busy, Works, SendIssue, At, Settles, Issues
  <2>2. CASE Leaves(q)
    <3>1. desk'[q].at # "receipt" /\ \A p \in Requests : p # q => desk'[p] = desk[p]
      BY <1>0, <2>2, LeavesDoes DEF Idle
    <3>2. desk[q].nonce # nonce
      BY <1>0, <1>7, <3>1, GoesDoes DEF SendIssue, Stages
    <3> QED BY <1>2, <1>7, <3>1, <3>2 DEF SendIssue, At
  <2>3. CASE Goes(q, "receipt") /\ shares' = [shares EXCEPT ![d] = @ + 1]
    <3>1. /\ desk'[q].at = "receipt" /\ desk'[q].run = d
          /\ \A p \in Requests : p # q => desk'[p] = desk[p]
      BY <1>0, <2>1, <2>3, GoesDoes DEF Stages
    <3>2. logged' = logged /\ ~ At(q, "receipt")
      BY <1>7 DEF SendIssue, At
    <3>3. CASE r = d
      <4>1. Cardinality(Awaited(r)') = Cardinality(Awaited(r)) + 1
        BY <3>1, <3>2, <3>3, AwaitedMoves, AwaitedCounts DEF At
      <4>2. shares'[r] = shares[r] + 1
        BY <1>0, <2>3, <3>3
      <4>3. r \in paid' /\ Stored(r)' /\ By[r] \in listed'
        BY <1>0, <2>1, <3>3 DEF Kept
      <4> QED BY <1>0, <1>00, <1>c, <3>2, <4>1, <4>2, <4>3 DEF Follows
    <3>4. CASE r # d
      <4>1. Cardinality(Awaited(r)') = Cardinality(Awaited(r))
        BY <3>1, <3>2, <3>4, AwaitedMoves, AwaitedCounts DEF At
      <4>2. shares'[r] = shares[r]
        BY <1>0, <2>3, <3>4
      <4> QED BY <1>0, <1>00, <3>2, <4>1, <4>2, FollowsOn
    <3> QED BY <3>3, <3>4
  <2> QED BY <1>7, <2>1, <2>2, <2>3 DEF SendIssue
<1>8. ASSUME NEW q \in Requests, LogIssue(q) PROVE Follows(r)'
  <2>1. PICK d \in Runs : d = desk[q].run
    BY <1>8 DEF Busy, Works, LogIssue, At
  <2>2. desk'[q].at # "receipt" /\ \A p \in Requests : p # q => desk'[p] = desk[p]
    BY <1>0, <1>8, LeavesDoes DEF LogIssue, Idle
  <2>3. /\ At(q, "receipt") /\ shares' = shares
        /\ logged' = [logged EXCEPT ![d] = @ + 1]
    BY <1>8, <2>1 DEF LogIssue
  <2>4. CASE r = d
    <3>1. Cardinality(Awaited(r)') = Cardinality(Awaited(r)) - 1
      BY <2>1, <2>2, <2>3, <2>4, AwaitedMoves, AwaitedCounts DEF At
    <3>2. logged'[r] = logged[r] + 1
      BY <1>0, <2>3, <2>4
    <3>3. shares'[r] = shares[r]
      BY <2>3
    <3>4. shares[r] > 0 => r \in paid' /\ Stored(r)' /\ By[r] \in listed'
      BY <1>0, <1>00 DEF Kept, Follows
    <3> QED BY <1>0, <1>00, <1>c, <3>1, <3>2, <3>3, <3>4 DEF Follows
  <2>5. CASE r # d
    <3>1. Cardinality(Awaited(r)') = Cardinality(Awaited(r))
      BY <2>1, <2>2, <2>3, <2>5, AwaitedMoves, AwaitedCounts DEF At
    <3>2. logged'[r] = logged[r]
      BY <1>0, <2>3, <2>5
    <3> QED BY <1>0, <1>00, <2>3, <3>1, <3>2, FollowsOn
  <2> QED BY <2>4, <2>5
<1>9. ASSUME NEW q \in Requests, Fail(q) PROVE Follows(r)'
  <2>1. desk'[q].at # "receipt" /\ \A p \in Requests : p # q => desk'[p] = desk[p]
    BY <1>0, <1>9, LeavesDoes DEF Fail, Idle
  <2>2. Faults /\ shares' = shares /\ logged' = logged
    BY <1>9 DEF Fail
  <2>3. \/ Cardinality(Awaited(r)') = Cardinality(Awaited(r))
        \/ Cardinality(Awaited(r)') = Cardinality(Awaited(r)) - 1
    BY <2>1, AwaitedMoves, AwaitedCounts DEF At
  <2>4. shares[r] > 0 => r \in paid' /\ Stored(r)' /\ By[r] \in listed'
    BY <1>0, <1>00 DEF Kept, Follows
  <2> QED BY <1>0, <1>00, <1>c, <2>2, <2>3, <2>4 DEF Follows
<1> QED
  BY <1>1, <1>3, <1>4, <1>5, <1>6, <1>7, <1>8, <1>9
     DEF Next, vars, TaskEnds, SubmitRun, Admit, Reconcile, ReconcileRow, ReconcileStops

-----------------------------------------------------------------------------
(* The invariant                                                           *)

(* An order of a finite set without repetition lists all of it.            *)
LEMMA OrdersList ==
  ASSUME NEW S, IsFiniteSet(S), NEW f \in Orders(S)
  PROVE  /\ f \in Seq(S)
         /\ \A i, j \in DOMAIN f : f[i] = f[j] => i = j
         /\ \A r \in S : \E i \in DOMAIN f : f[i] = r
<1>1. Cardinality(S) \in Nat
  BY FS_CardinalityType
<1>2. PICK n \in Nat : n = Cardinality(S)
  BY <1>1
<1>3. f \in [1 .. n -> S] /\ \A i, j \in DOMAIN f : f[i] = f[j] => i = j
  BY <1>2 DEF Orders
<1>4. f \in Injection(1 .. n, S)
  BY <1>3 DEF Injection, IsInjective
<1>5. Cardinality(1 .. n) = n
  BY FS_Interval
<1>6. f \in Surjection(1 .. n, S)
  BY <1>2, <1>4, <1>5, FS_Injection
<1> QED BY <1>3, <1>6 DEF Surjection

LEMMA InitIInv == Init => IInv
<1> SUFFICES ASSUME Init PROVE IInv
  OBVIOUS
<1> USE SettlementAssumption DEF SettlementAssumption
<1>1. OldRows \subseteq Runs /\ IsFiniteSet(OldRows)
  BY FS_Subset DEF OldRows
<1>2. filed \in Orders(OldRows)
  BY DEF Init
<1>3. /\ filed \in Seq(OldRows)
      /\ \A i, j \in DOMAIN filed : filed[i] = filed[j] => i = j
      /\ \A r \in OldRows : Stored(r)
  BY <1>1, <1>2, OrdersList DEF Stored
<1>4. filed \in Seq(Runs)
  BY <1>1, <1>3
<1>5. OldPaid \subseteq Runs
  BY DEF OldPaid
<1>6. desk \in [Requests -> Work] /\ \A q \in Requests : desk[q].at = "idle"
  BY DEF Init, Idle, Work, Stages
<1>7. TypeOK
  BY <1>3, <1>4, <1>5, <1>6 DEF Init, TypeOK
<1>8. Busy
  BY <1>6 DEF Busy, Works, Settles, Issues
<1>9. Rows
  BY <1>3 DEF Init, Rows, Named, OldRows
<1>10. SettledFollows
  BY DEF Init, SettledFollows
<1>11. LogFollowsIssues
  <2> SUFFICES ASSUME NEW r \in Runs
               PROVE  shares[r] = 0 /\ logged[r] + Cardinality(Awaited(r)) = 0
    BY DEF LogFollowsIssues
  <2>1. Awaited(r) = {}
    BY <1>6 DEF Awaited, At
  <2>2. Cardinality(Awaited(r)) = 0
    BY <2>1, FS_EmptySet
  <2> QED BY <2>2 DEF Init
<1> QED BY <1>7, <1>8, <1>9, <1>10, <1>11 DEF IInv

(* The invariant holds throughout.                                         *)
LEMMA IInvHolds == Spec => []IInv
<1>1. IInv /\ [Next]_vars => IInv'
  BY TypeOKStep, BusyStep, RowsStep, LedgerStep, LogStep DEF IInv
<1> QED BY <1>1, InitIInv, PTL DEF Spec

(* State is well typed, and a run is filed once, however many requests      *)
(* verify it at the same time (insertTrajectory's conflict clause).         *)
THEOREM SpecTypeOK == Spec => []TypeOK
<1>1. IInv => TypeOK
  BY DEF IInv
<1> QED BY <1>1, IInvHolds, PTL

(* No order of verifying, reporting and reconciling files a run twice, or   *)
(* leaves a row called paid for a transaction the contract paid nobody in.  *)
THEOREM SpecLedgerFollowsChain == Spec => []LedgerFollowsChain
<1>1. IInv => LedgerFollowsChain
  BY DEF IInv, TypeOK, SettledFollows, LedgerFollowsChain
<1> QED BY <1>1, IInvHolds, PTL

(* Shares go to admitted drivers of paid runs only, and the log never       *)
(* claims an issue the chain did not make.                                  *)
THEOREM SpecLogFollowsIssues == Spec => []LogFollowsIssues
<1>1. IInv => LogFollowsIssues
  BY DEF IInv
<1> QED BY <1>1, IInvHolds, PTL

-----------------------------------------------------------------------------
(* Rows of this version: settled once they have a transaction, so reconcile *)
(* never lists them, whatever an older version's rows go through beside     *)
(* them.                                                                    *)

NewRows ==
  \A r \in Runs : Legacy[r] = NoTx =>
    /\ txOf[r] # NoTx => r \in settled
    /\ \A tx \in Txs : <<r, tx>> \notin sweep

LEMMA NewRowsInit == Init => NewRows
  BY DEF Init, NewRows

LEMMA NewRowsStep ==
  ASSUME TypeOK, Busy, NewRows, [Next]_vars
  PROVE  NewRows' /\ \A r \in settled : Legacy[r] = NoTx => r \in settled'
<1> USE DEF chainVars, storeVars
<1>0. settled \subseteq Runs /\ txOf \in [Runs -> Txs]
  BY DEF TypeOK
<1>1. CASE UNCHANGED <<settled, txOf, sweep>>
  BY <1>1 DEF NewRows
<1>2. ASSUME NEW q \in Requests, MarkSettled(q)
      PROVE  NewRows' /\ \A r \in settled : Legacy[r] = NoTx => r \in settled'
  <2>1. PICK d \in Runs : settled' = settled \cup {d} /\ txOf' = [txOf EXCEPT ![d] = d]
    BY <1>2, MarkFacts
  <2>2. sweep' = sweep
    BY <1>2 DEF MarkSettled
  <2> QED BY <1>0, <2>1, <2>2 DEF NewRows
<1>3. ASSUME Reconcile
      PROVE  NewRows' /\ \A r \in settled : Legacy[r] = NoTx => r \in settled'
  <2>1. settled' = settled /\ txOf' = txOf /\ sweep' = {<<r, txOf[r]>> : r \in Unsettled}
    BY <1>3 DEF Reconcile
  <2>2. \A r \in Unsettled : r \in Runs /\ r \notin settled /\ txOf[r] # NoTx
    BY DEF Unsettled
  <2>3. ASSUME NEW r \in Runs, Legacy[r] = NoTx, NEW tx \in Txs PROVE <<r, tx>> \notin sweep'
    BY <2>1, <2>2, <2>3 DEF NewRows
  <2> QED BY <2>1, <2>3 DEF NewRows
<1>4. ASSUME NEW d \in Runs, NEW t \in Txs, ReconcileRow(d, t)
      PROVE  NewRows' /\ \A r \in settled : Legacy[r] = NoTx => r \in settled'
  <2>1. /\ <<d, t>> \in sweep /\ sweep' \subseteq sweep
        /\ settled \ {d} \subseteq settled'
        /\ \/ txOf' = [txOf EXCEPT ![d] = t]
           \/ txOf' = [txOf EXCEPT ![d] = NoTx]
    BY <1>4 DEF ReconcileRow, ClearTx
  <2>2. Legacy[d] # NoTx
    BY <2>1 DEF NewRows
  <2>3. \A r \in Runs : r # d => txOf'[r] = txOf[r]
    BY <1>0, <2>1
  <2> QED BY <1>0, <2>1, <2>2, <2>3 DEF NewRows
<1>5. ASSUME ReconcileStops
      PROVE  NewRows' /\ \A r \in settled : Legacy[r] = NoTx => r \in settled'
  BY <1>5 DEF ReconcileStops, NewRows
<1> QED
  BY <1>1, <1>2, <1>3, <1>4, <1>5 DEF Next, vars, TaskEnds, SubmitRun, Admit, Verify, Sign,
     StoreRun, Answer, Submitted, LookForIssue, CountNonce, SendIssue, LogIssue, Fail

LEMMA NewRowsHold == Spec => []NewRows
<1>1. IInv /\ NewRows /\ [Next]_vars => NewRows'
  BY NewRowsStep DEF IInv
<1> QED BY <1>1, NewRowsInit, IInvHolds, PTL DEF Spec

(* A row this version wrote and called paid is never taken back, however    *)
(* reports, sweeps and their failures interleave; an older version's can be. *)
THEOREM SpecSettledStays == Spec => SettledStays
<1>1. IInv /\ NewRows /\ [Next]_vars => \A r \in settled : Legacy[r] = NoTx => r \in settled'
  BY NewRowsStep DEF IInv
<1> QED BY <1>1, IInvHolds, NewRowsHold, PTL DEF Spec, SettledStays

(* While no more runs are settled than a verification compares with, it     *)
(* compares with every one.                                                 *)
LEMMA ComparedWithAll ==
  ASSUME Cardinality(settled) <= Compared, TypeOK, SettledFollows
  PROVE  Latest = settled
<1> SUFFICES ASSUME NEW r \in settled
             PROVE  Cardinality({s \in settled : Place(s) > Place(r)}) < Compared
  BY DEF Latest
<1> DEFINE Later == {s \in settled : Place(s) > Place(r)}
<1>1. IsFiniteSet(Runs) /\ settled \subseteq Runs /\ filed \in Seq(Runs)
  BY SettlementAssumption DEF SettlementAssumption, TypeOK
<1>2. Place(r) \in DOMAIN filed
  BY DEF SettledFollows, Stored, Place
<1>3. Place(r) \in Int
  BY <1>1, <1>2
<1>4. r \notin Later
  BY <1>3
<1>5. Later \subseteq settled \ {r} /\ IsFiniteSet(settled)
  BY <1>1, <1>4, FS_Subset
<1>6. /\ IsFiniteSet(settled \ {r})
      /\ Cardinality(settled \ {r}) = Cardinality(settled) - 1
  BY <1>5, FS_RemoveElement
<1>7. IsFiniteSet(Later) /\ Cardinality(Later) <= Cardinality(settled \ {r})
  BY <1>5, <1>6, FS_Subset
<1>8. Cardinality(settled) \in Nat /\ Cardinality(Later) \in Nat /\ Compared \in Nat
  BY <1>5, <1>7, FS_CardinalityType, SettlementAssumption DEF SettlementAssumption
<1> HIDE DEF Later
<1>9. Cardinality(Later) < Compared
  BY <1>6, <1>7, <1>8
<1> QED BY <1>9 DEF Later

Verifying == {"sign", "store", "answer"}

LEMMA BarredStep ==
  ASSUME Cardinality(settled) <= Compared, IInv, NewRows, [Next]_vars,
         NEW r \in Runs, Barred(r)
  PROVE  Barred(r)'
<1> USE DEF chainVars, storeVars
<1>0. /\ DeskType /\ Busy /\ nonce \in Nat
      /\ \A c \in settled : Legacy[c] = NoTx => c \in settled'
      /\ Latest = settled
  BY NewRowsStep, ComparedWithAll DEF IInv, TypeOK, DeskType
<1>00. /\ \E c \in (Near[r] \ {r}) \cap settled : Legacy[c] = NoTx
       /\ r \notin signed
       /\ \A q \in Requests : desk[q].run = r => desk[q].at \notin Verifying
  BY DEF Barred, Verifying
<1> SUFFICES /\ r \notin signed'
             /\ \A q \in Requests : desk'[q].run = r => desk'[q].at \notin Verifying
  BY <1>0, <1>00 DEF Barred, Verifying
<1> DEFINE Out(q) == desk'[q].run = r => desk'[q].at \notin Verifying
<1>1. CASE signed' = signed /\ desk' = desk
  BY <1>00, <1>1
<1>2. ASSUME NEW q \in Requests, signed' = signed,
             desk'[q].run = r => desk'[q].at \notin Verifying,
             \A p \in Requests : p # q => desk'[p] = desk[p]
      PROVE  r \notin signed' /\ \A p \in Requests : Out(p)
  BY <1>00, <1>2
<1>3. ASSUME NEW q \in Requests, signed' = signed, Leaves(q)
      PROVE  r \notin signed' /\ \A p \in Requests : Out(p)
  BY <1>0, <1>2, <1>3, LeavesDoes DEF Verifying
<1>4. ASSUME NEW q \in Requests, NEW s \in Stages, signed' = signed, Goes(q, s),
             desk[q].at \in Verifying \/ s \notin Verifying
      PROVE  r \notin signed' /\ \A p \in Requests : Out(p)
  <2>1. /\ desk'[q].at = s /\ desk'[q].run = desk[q].run
        /\ \A p \in Requests : p # q => desk'[p] = desk[p]
    BY <1>0, <1>4, GoesDoes
  <2>2. desk'[q].run = r => desk'[q].at \notin Verifying
    BY <1>00, <1>4, <2>1
  <2> QED BY <1>2, <1>4, <2>1, <2>2
<1>5. ASSUME NEW q \in Requests, NEW s \in Runs, Verify(q, s)
      PROVE  r \notin signed' /\ \A p \in Requests : Out(p)
  <2>1. s # r
    BY <1>0, <1>00, <1>5 DEF Verify, Copies
  <2>2. desk'[q].run = s /\ \A p \in Requests : p # q => desk'[p] = desk[p]
    BY <1>0, <1>5, TakesDoes DEF Verify, Stages
  <2> QED BY <1>2, <1>5, <2>1, <2>2 DEF Verify
<1>6. ASSUME NEW q \in Requests, NEW s \in Runs, Submitted(q, s)
      PROVE  r \notin signed' /\ \A p \in Requests : Out(p)
  <2>1. desk'[q].at = "mark" /\ \A p \in Requests : p # q => desk'[p] = desk[p]
    BY <1>0, <1>6, TakesDoes DEF Submitted, Stages
  <2> QED BY <1>2, <1>6, <2>1 DEF Submitted, Verifying
<1>7. ASSUME NEW q \in Requests, Sign(q) \/ StoreRun(q) \/ MarkSettled(q) \/ LookForIssue(q)
      PROVE  r \notin signed' /\ \A p \in Requests : Out(p)
  BY <1>3, <1>4, <1>7 DEF Sign, StoreRun, MarkSettled, LookForIssue, Stages, Verifying, At
<1>8. ASSUME NEW q \in Requests, CountNonce(q)
      PROVE  r \notin signed' /\ \A p \in Requests : Out(p)
  BY <1>0, <1>2, <1>8, CountDoes DEF CountNonce, Verifying
<1>9. ASSUME NEW q \in Requests, SendIssue(q) \/ LogIssue(q) \/ Fail(q)
      PROVE  r \notin signed' /\ \A p \in Requests : Out(p)
  BY <1>3, <1>4, <1>9 DEF SendIssue, LogIssue, Fail, Stages, Verifying
<1>10. ASSUME NEW q \in Requests, Answer(q)
       PROVE  r \notin signed' /\ \A p \in Requests : Out(p)
  <2>1. r \notin signed'
    BY <1>00, <1>10 DEF Answer, At, Verifying
  <2>2. desk'[q].at = "idle" /\ \A p \in Requests : p # q => desk'[p] = desk[p]
    BY <1>0, <1>10, LeavesDoes DEF Answer
  <2> QED BY <1>00, <2>1, <2>2 DEF Verifying
<1> QED
  BY <1>1, <1>5, <1>6, <1>7, <1>8, <1>9, <1>10
     DEF Next, vars, TaskEnds, SubmitRun, Admit, Reconcile, ReconcileRow, ReconcileStops

(* A copy nobody had verified when its original was settled is not signed as  *)
(* long as no more runs are settled than a verification compares with,        *)
(* whatever races whatever: verification, storage, reports and sweeps may     *)
(* interleave and fail freely, with an older version's rows or without.       *)
THEOREM SpecCopiesStayBarred == Spec => CopiesStayBarred
<1>1. IInv /\ NewRows /\ [Next]_vars =>
        [Cardinality(settled) <= Compared => \A r \in Runs : Barred(r) => Barred(r)']_vars
  BY BarredStep
<1> QED BY <1>1, IInvHolds, NewRowsHold, PTL DEF Spec, CopiesStayBarred

-----------------------------------------------------------------------------
(* One request at a time, on a store without an older version's rows, of   *)
(* which every row is compared                                             *)

NewStore == \A r \in Runs : Legacy[r] = NoTx
ComparesAll == Cardinality(Runs) <= Compared

(* Then reconcile finds nothing to do, and no row is ever unsettled.       *)
Fresh == sweep = {} /\ \A r \in Runs : txOf[r] # NoTx => r \in settled

LEMMA FreshRows ==
  ASSUME NewStore, TypeOK, NewRows
  PROVE  Fresh
<1>1. sweep = {}
  <2> SUFFICES ASSUME NEW w \in sweep PROVE FALSE
    OBVIOUS
  <2>1. PICK r \in Runs, tx \in Txs : w = <<r, tx>>
    BY DEF TypeOK
  <2> QED BY <2>1 DEF NewStore, NewRows
<1> QED BY <1>1 DEF NewStore, NewRows, Fresh

LEMMA FreshHolds ==
  ASSUME NewStore
  PROVE  Spec => []Fresh
<1>1. IInv /\ NewRows => Fresh
  BY FreshRows DEF IInv
<1> QED BY <1>1, IInvHolds, NewRowsHold, PTL

OneRequest == \A p, q \in Requests : p = q

(* What a handler has found still holds when it acts on it, as nobody else *)
(* has acted since.                                                        *)
Holds(w) ==
  /\ w.at \in Verifying => By[w.run] \in listed /\ (Near[w.run] \ {w.run}) \cap settled = {}
  /\ w.at \in Issues \cup {"look"} => w.run \in settled
  /\ w.at \in {"count", "send"} => logged[w.run] = 0

Calm == \A q \in Requests : Holds(desk[q])

LEMMA CalmStep ==
  ASSUME OneRequest, NewStore, ComparesAll, IInv, Fresh, Calm, [Next]_vars
  PROVE  Calm'
<1> USE DEF chainVars, storeVars
<1>0. /\ DeskType /\ Busy /\ nonce \in Nat /\ TypeOK
      /\ Kept /\ settled \subseteq settled' /\ Latest = settled
  <2>1. NewRows /\ settled \subseteq Runs /\ IsFiniteSet(Runs)
    BY SettlementAssumption DEF Fresh, NewRows, IInv, TypeOK, SettlementAssumption
  <2>2. settled \subseteq settled'
    BY <2>1, NewRowsStep DEF IInv, NewStore
  <2>3. Cardinality(settled) <= Compared
    <3>1. /\ IsFiniteSet(settled) /\ Cardinality(settled) <= Cardinality(Runs)
          /\ Cardinality(settled) \in Nat /\ Cardinality(Runs) \in Nat /\ Compared \in Nat
      BY <2>1, FS_Subset, FS_CardinalityType, SettlementAssumption DEF SettlementAssumption
    <3> QED BY <3>1 DEF ComparesAll
  <2> QED BY <2>2, <2>3, KeptStep, ComparedWithAll DEF IInv, TypeOK, DeskType
<1>a. ASSUME NEW q \in Requests, Holds(desk[q])' PROVE Calm'
  BY <1>a DEF OneRequest, Calm
<1>1. CASE UNCHANGED <<settled, logged, desk>>
  BY <1>0, <1>1 DEF Calm, Holds, Kept
<1>2. ASSUME NEW q \in Requests, Leaves(q) PROVE Calm'
  <2>1. desk'[q].at = "idle"
    BY <1>0, <1>2, LeavesDoes
  <2>2. Holds(desk[q])'
    BY <2>1 DEF Holds, Verifying, Issues
  <2> QED BY <1>a, <2>2
<1>3. ASSUME NEW q \in Requests, NEW r \in Runs, Verify(q, r) PROVE Calm'
  <2>1. desk'[q].at = "sign" /\ desk'[q].run = r
    BY <1>0, <1>3, TakesDoes DEF Verify, Stages
  <2>2. /\ By[r] \in listed' /\ settled' = settled
        /\ (Near[r] \ {r}) \cap settled = {}
    BY <1>0, <1>3 DEF Verify, Copies
  <2>3. Holds(desk[q])'
    BY <2>1, <2>2 DEF Holds, Issues
  <2> QED BY <1>a, <2>3
<1>4. ASSUME NEW q \in Requests, NEW r \in Runs, Submitted(q, r) PROVE Calm'
  <2>1. desk'[q].at = "mark"
    BY <1>0, <1>4, TakesDoes DEF Submitted, Stages
  <2>2. Holds(desk[q])'
    BY <2>1 DEF Holds, Issues, Verifying
  <2> QED BY <1>a, <2>2
<1>5. ASSUME NEW q \in Requests, Sign(q) \/ StoreRun(q),
             NEW s \in Verifying, Goes(q, s)
      PROVE  Calm'
  <2>1. desk'[q].at = s /\ desk'[q].run = desk[q].run
    BY <1>0, <1>5, GoesDoes DEF Verifying, Stages
  <2>2. desk[q].at \in Verifying /\ settled' = settled /\ listed' = listed
    BY <1>5 DEF Sign, StoreRun, At, Verifying
  <2>3. /\ By[desk[q].run] \in listed
        /\ (Near[desk[q].run] \ {desk[q].run}) \cap settled = {}
    BY <2>2 DEF Calm, Holds
  <2>4. Holds(desk[q])'
    BY <1>5, <2>1, <2>2, <2>3 DEF Holds, Verifying, Issues
  <2> QED BY <1>a, <2>4
<1>6. ASSUME NEW q \in Requests, MarkSettled(q) PROVE Calm'
  <2>1. desk'[q].at = "look" /\ desk'[q].run = desk[q].run
    BY <1>0, <1>6, GoesDoes DEF MarkSettled, Stages
  <2>2. desk[q].run \in settled'
    BY <1>6 DEF MarkSettled
  <2>3. Holds(desk[q])'
    BY <2>1, <2>2 DEF Holds, Verifying, Issues
  <2> QED BY <1>a, <2>3
<1>7. ASSUME NEW q \in Requests, LookForIssue(q), Goes(q, "count") PROVE Calm'
  <2>1. desk'[q].at = "count" /\ desk'[q].run = desk[q].run
    BY <1>0, <1>7, GoesDoes DEF Stages
  <2>2. desk[q].at = "look" /\ settled' = settled /\ logged' = logged
    BY <1>7 DEF LookForIssue, At
  <2>3. desk[q].run \in settled
    BY <2>2 DEF Calm, Holds
  <2>4. logged[desk[q].run] = 0
    <3>1. CASE Leaves(q)
      BY <1>0, <2>1, <3>1, LeavesDoes
    <3> QED BY <1>7, <3>1 DEF LookForIssue
  <2>5. Holds(desk[q])'
    BY <2>1, <2>2, <2>3, <2>4 DEF Holds, Verifying
  <2> QED BY <1>a, <2>5
<1>8. ASSUME NEW q \in Requests, CountNonce(q) PROVE Calm'
  <2>1. desk'[q].at = "send" /\ desk'[q].run = desk[q].run
    BY <1>0, <1>8, CountDoes
  <2>2. desk[q].at = "count" /\ settled' = settled /\ logged' = logged
    BY <1>8 DEF CountNonce, At
  <2>3. desk[q].run \in settled /\ logged[desk[q].run] = 0
    BY <2>2 DEF Calm, Holds, Issues
  <2>4. Holds(desk[q])'
    BY <2>1, <2>2, <2>3 DEF Holds, Verifying
  <2> QED BY <1>a, <2>4
<1>9. ASSUME NEW q \in Requests, SendIssue(q), Goes(q, "receipt") PROVE Calm'
  <2>1. desk'[q].at = "receipt" /\ desk'[q].run = desk[q].run
    BY <1>0, <1>9, GoesDoes DEF Stages
  <2>2. desk[q].at = "send" /\ settled' = settled
    BY <1>9 DEF SendIssue, At
  <2>3. desk[q].run \in settled
    BY <2>2 DEF Calm, Holds, Issues
  <2>4. Holds(desk[q])'
    BY <2>1, <2>2, <2>3 DEF Holds, Verifying
  <2> QED BY <1>a, <2>4
<1>10. ASSUME NEW q \in Requests, Sign(q) \/ StoreRun(q) PROVE Calm'
  BY <1>2, <1>5, <1>10 DEF Sign, StoreRun, Verifying
<1>11. ASSUME NEW q \in Requests, LookForIssue(q) \/ SendIssue(q) PROVE Calm'
  BY <1>2, <1>7, <1>9, <1>11 DEF LookForIssue, SendIssue
<1>12. ASSUME NEW q \in Requests, Answer(q) \/ LogIssue(q) \/ Fail(q) PROVE Calm'
  BY <1>2, <1>12 DEF Answer, LogIssue, Fail
<1>13. ASSUME NEW r \in Runs, NEW tx \in Txs PROVE ~ ReconcileRow(r, tx)
  BY DEF Fresh, ReconcileRow
<1> QED
  BY <1>1, <1>3, <1>4, <1>6, <1>8, <1>10, <1>11, <1>12, <1>13
     DEF Next, vars, TaskEnds, SubmitRun, Admit, Reconcile, ReconcileStops

LEMMA CalmHolds ==
  ASSUME OneRequest, NewStore, ComparesAll
  PROVE  Spec => []Calm
<1>1. Init => Calm
  BY DEF Init, Calm, Holds, Idle, Verifying, Issues
<1>2. IInv /\ Fresh /\ Calm /\ [Next]_vars => Calm'
  BY CalmStep
<1> QED BY <1>1, <1>2, IInvHolds, FreshHolds, PTL DEF Spec

(* Without failures, a run about to be issued has no shares yet.           *)
LEMMA SendsFirst ==
  ASSUME OneRequest, ~ Faults, IInv, Calm, NEW q \in Requests, At(q, "send"),
         NEW r \in Runs, r = desk[q].run
  PROVE  shares[r] = 0
<1>1. logged[r] = 0
  BY DEF Calm, Holds, At
<1>2. Awaited(r) = {}
  BY DEF OneRequest, Awaited, At
<1>3. Cardinality(Awaited(r)) = 0
  BY <1>2, FS_EmptySet
<1>4. logged[r] + Cardinality(Awaited(r)) = shares[r]
  BY DEF IInv, LogFollowsIssues
<1> QED BY <1>1, <1>3, <1>4

LEMMA InitLedger ==
  ASSUME NewStore, Init
  PROVE  Ledger!Init
  BY DEF NewStore, OldRows, OldPaid, Init, Ledger!Init

LEMMA StepLedger ==
  ASSUME OneRequest, ~ Faults, IInv, Fresh, Calm, [Next]_vars
  PROVE  [Ledger!Next]_(Ledger!ledgerVars)
<1> USE DEF chainVars, storeVars
<1>0. Busy /\ TypeOK /\ DeskType
  BY DEF IInv, TypeOK, DeskType
<1>1. CASE UNCHANGED <<listed, signed, paid, settled, shares>>
  BY <1>1 DEF Ledger!ledgerVars
<1>2. ASSUME NEW q \in Requests, NEW o \in Operators, Admit(q, o) PROVE Ledger!Join(o)
  BY <1>2 DEF Admit, Ledger!Join
<1>3. ASSUME NEW r \in Runs, SubmitRun(r) PROVE Ledger!Pay(r)
  <2>1. r \in signed \ paid /\ Cardinality(paid) < Slots
    BY <1>3 DEF SubmitRun, Room
  <2>2. /\ paid' = paid \cup {r}
        /\ UNCHANGED <<listed, signed, settled, shares>>
    BY <1>3 DEF SubmitRun
  <2>3. Ledger!Cardinality(paid) = Cardinality(paid)
    BY Zenon DEF Ledger!Cardinality, Cardinality
  <2> QED BY <2>1, <2>2, <2>3 DEF Ledger!Pay
<1>4. ASSUME NEW q \in Requests, Answer(q) PROVE \E r \in Runs : Ledger!Offer(r)
  <2>1. PICK r \in Runs : r = desk[q].run
    BY <1>0, <1>4 DEF Busy, Works, Answer, At
  <2>2. By[r] \in listed /\ (Near[r] \ {r}) \cap settled = {}
    BY <1>4, <2>1 DEF Calm, Holds, Answer, At, Verifying
  <2>3. Ledger!Offer(r)
    BY <1>4, <2>1, <2>2 DEF Answer, Ledger!Offer
  <2> QED BY <2>3
<1>5. ASSUME NEW q \in Requests, MarkSettled(q) PROVE \E r \in Runs : Ledger!Settle(r)
  <2>1. PICK r \in Runs : r \in paid /\ settled' = settled \cup {r}
    BY <1>0, <1>5, MarkFacts
  <2>2. Ledger!Settle(r)
    BY <1>5, <2>1 DEF MarkSettled, Ledger!Settle
  <2> QED BY <2>2
<1>6. ASSUME NEW q \in Requests, SendIssue(q), shares' # shares
      PROVE  \E r \in Runs : Ledger!Issue(r)
  <2>1. PICK r \in Runs : r = desk[q].run /\ By[r] \in listed
    BY <1>0, <1>6 DEF Busy, Works, SendIssue, At, Issues
  <2>2. r \in settled
    BY <1>6, <2>1 DEF Calm, Holds, SendIssue, At, Issues
  <2>3. shares[r] = 0
    BY <1>6, <2>1, SendsFirst DEF SendIssue
  <2>4. shares' = [shares EXCEPT ![r] = 1]
    BY <1>0, <1>6, <2>1, <2>3 DEF SendIssue, TypeOK
  <2>5. Ledger!Issue(r)
    BY <1>6, <2>1, <2>2, <2>3, <2>4 DEF SendIssue, Ledger!Issue
  <2> QED BY <2>5
<1>7. ASSUME NEW r \in Runs, NEW tx \in Txs PROVE ~ ReconcileRow(r, tx)
  BY DEF Fresh, ReconcileRow
<1>8. ASSUME NEW q \in Requests, SendIssue(q), shares' = shares
      PROVE  UNCHANGED <<listed, signed, paid, settled, shares>>
  BY <1>8 DEF SendIssue
<1> QED
  BY <1>1, <1>2, <1>3, <1>4, <1>5, <1>6, <1>7, <1>8
     DEF Next, vars, TaskEnds, Verify, Sign, StoreRun, Submitted, LookForIssue, CountNonce,
         LogIssue, Fail, Reconcile, ReconcileStops, Ledger!Next

(* Called one after the other and without a failure, the routes keep the    *)
(* ledger's promises: no copy of a settled run is offered a payment, and     *)
(* every run is settled once it is paid and gets its shares at most once.    *)
THEOREM SpecImplementsRunLedger ==
  ASSUME OneRequest, ~ Faults, NewStore, ComparesAll
  PROVE  Spec => ImplementsRunLedger
<1>1. Init => Ledger!Init
  BY InitLedger
<1>2. IInv /\ Fresh /\ Calm /\ [Next]_vars => [Ledger!Next]_(Ledger!ledgerVars)
  BY StepLedger
<1> QED BY <1>1, <1>2, IInvHolds, FreshHolds, CalmHolds, PTL
        DEF Spec, ImplementsRunLedger, Ledger!Spec

-----------------------------------------------------------------------------
(* The chain as the routes see it                                          *)

(* The routes' chain is the one TaskOnArc describes and the contract        *)
(* implements: the paid runs grow by one run at a time, within the slots,   *)
(* while the task takes runs, and no step of a route changes them.          *)
THEOREM SpecImplementsTaskOnArc == Spec => ImplementsTaskOnArc
<1>1. Init => Seen!Init
  <2> SUFFICES ASSUME Init PROVE Seen!Init
    OBVIOUS
  <2>1. /\ task = "open" /\ paid = OldPaid /\ OldPaid \subseteq Runs
        /\ Slots \in Nat /\ Cardinality(OldPaid) <= Slots
    BY SettlementAssumption DEF Init, OldPaid
  <2>2. /\ [t \in {0} |-> Slots] \in [{0} -> Nat]
        /\ (IF task = "open" THEN {0} ELSE {}) \in SUBSET {0}
        /\ [t \in {0} |-> paid] \in [{0} -> SUBSET Runs]
        /\ \A t \in {0} : Cardinality([u \in {0} |-> paid][t]) <= [u \in {0} |-> Slots][t]
    BY <2>1
  <2> QED BY <2>2 DEF Seen!Init, Seen!Cardinality, Cardinality
<1>2. TypeOK /\ [Next]_vars => [Seen!Next]_(Seen!vars)
  <2> SUFFICES ASSUME TypeOK, [Next]_vars PROVE [Seen!Next]_(Seen!vars)
    OBVIOUS
  <2>1. ASSUME TaskEnds PROVE Seen!Next
    <3>1. task = "open" /\ task' = "shut" /\ paid' = paid
      BY <2>1 DEF TaskEnds
    <3>2. Seen!End({0})
      BY <3>1 DEF Seen!End
    <3> QED BY <3>1, <3>2 DEF Seen!Next
  <2>2. ASSUME NEW r \in Runs, SubmitRun(r) PROVE Seen!Next
    <3>1. /\ r \notin paid /\ Cardinality(paid) < Slots /\ task = "open"
          /\ paid' = paid \cup {r} /\ task' = task
      BY <2>2 DEF SubmitRun, Room
    <3> DEFINE slot == [t \in {0} |-> Slots]
               rec == [t \in {0} |-> paid]
               next == [t \in {0} |-> paid']
               takes == IF task = "open" THEN {0} ELSE {}
               takesNext == IF task' = "open" THEN {0} ELSE {}
    <3>2. /\ 0 \in takes /\ Cardinality(rec[0]) < slot[0]
          /\ \A u \in {0} : r \notin rec[u]
          /\ takesNext = takes
      BY <3>1
    <3>3. next = [rec EXCEPT ![0] = @ \cup {r}]
      <4>1. [rec EXCEPT ![0] = @ \cup {r}] = [t \in {0} |-> paid \cup {r}]
        OBVIOUS
      <4> QED BY <3>1, <4>1
    <3>4. Seen!Record(0, r)
      BY <3>2, <3>3 DEF Seen!Record, Seen!Cardinality, Cardinality
    <3> QED BY <3>4 DEF Seen!Next
  <2>3. ASSUME UNCHANGED <<task, paid>> PROVE UNCHANGED Seen!vars
    BY <2>3 DEF Seen!vars
  <2>4. \/ TaskEnds
        \/ \E r \in Runs : SubmitRun(r)
        \/ UNCHANGED <<task, paid>>
    BY DEF Next, vars, chainVars, storeVars, Admit, Verify, Sign, StoreRun, Answer, Submitted,
           MarkSettled, LookForIssue, CountNonce, SendIssue, LogIssue, Fail, Reconcile,
           ReconcileRow, ReconcileStops
  <2> QED BY <2>1, <2>2, <2>3, <2>4
<1>3. IInv => TypeOK
  BY DEF IInv
<1> QED BY <1>1, <1>2, <1>3, IInvHolds, PTL DEF Spec, ImplementsTaskOnArc, Seen!Spec

=============================================================================
