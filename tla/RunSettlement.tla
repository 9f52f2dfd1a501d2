---------------------------- MODULE RunSettlement ----------------------------
(***************************************************************************)
(* From a recording to its shares: /api/verify compares and stores a run   *)
(* and has /api/sign sign it, the browser submits it to ThenarProtocol,    *)
(* /api/submitted marks its row and issues its shares, and /api/reconcile  *)
(* holds old rows to the chain.  One task.                                 *)
(*                                                                         *)
(* A handler is a process: between two of its awaits anything may happen,  *)
(* so each statement on the store and each write to Arc is one action.     *)
(* Reads of what never changes back (admission, a receipt) are made with   *)
(* the step that uses them.  A run stands for its hash and, on Arc, for    *)
(* the transaction that recorded it.                                       *)
(***************************************************************************)
EXTENDS Integers, Sequences, FiniteSets

CONSTANTS
  Runs, Operators, Requests,
  By,             \* who drove a run
  Near,           \* the runs within DUPLICATE_MM of a run, itself among them
  Accepted,       \* runs whose score reaches the contract's floor
  Sponsored,      \* runs whose transaction is addressed to the operator's own account
  NoTx, Reverted, \* no transaction, and one that failed
  Legacy,         \* tx_hash of the rows an older version left unsettled
  Slots,          \* slotsTotal
  Compared,       \* limit of settledSamplesForTask
  Faults,         \* may RPC, store or process fail under a handler
  MaxNonce        \* bound on the issuer's transactions

Txs == Runs \cup {NoTx, Reverted}

(* Rows a database from before the settled column brings along, and the    *)
(* runs the chain had paid by then.                                        *)
OldRows == {r \in Runs : Legacy[r] # NoTx}
OldPaid == {Legacy[r] : r \in OldRows} \cap Runs

ASSUME SettlementAssumption ==
  /\ IsFiniteSet(Runs) /\ IsFiniteSet(Requests) /\ By \in [Runs -> Operators]
  /\ Near \in [Runs -> SUBSET Runs] /\ \A r \in Runs : r \in Near[r]
  /\ \A r, s \in Runs : s \in Near[r] <=> r \in Near[s]
  /\ Accepted \subseteq Runs /\ Sponsored \subseteq Runs
  /\ NoTx \notin Runs /\ Reverted \notin Runs /\ NoTx # Reverted
  /\ Legacy \in [Runs -> Txs] /\ Cardinality(OldPaid) <= Slots
  /\ Slots \in Nat /\ Compared \in Nat /\ Faults \in BOOLEAN /\ MaxNonce \in Nat

VARIABLES
  task,           \* whether it takes runs: "open" or "shut" (external)
  listed,         \* CorpusShares' control list (external)
  paid,           \* runs ThenarProtocol recorded and paid (external)
  nonce,          \* transactions of the issuer's key so far (external)
  shares,         \* how often CorpusShares issued a run's shares (external)
  filed,          \* trajectory: the runs stored, by created_at
  settled, txOf,  \* trajectory.settled, trajectory.tx_hash
  logged,         \* token_event: lines of kind issue for a run
  signed,         \* runs whose signature a client was sent
  desk,           \* handlers at work: where, on which run, with which nonce
  sweep           \* rows reconcile has listed and not looked at: <<run, tx_hash>>

chainVars == <<task, listed, paid, nonce, shares>>
storeVars == <<filed, settled, txOf, logged>>
vars == <<chainVars, storeVars, signed, desk, sweep>>

Stages == {"idle", "sign", "store", "answer", "mark", "look", "count", "send", "receipt"}
Work == [at : Stages, run : Runs \cup {NoTx}, nonce : Nat]
Idle == [at |-> "idle", run |-> NoTx, nonce |-> 0]

Stored(r) == \E i \in DOMAIN filed : filed[i] = r

Orders(S) == {f \in [1 .. Cardinality(S) -> S] : \A i, j \in DOMAIN f : f[i] = f[j] => i = j}

Init ==
  /\ task = "open" /\ listed = {} /\ paid = OldPaid
  /\ nonce = 0 /\ shares = [r \in Runs |-> 0]
  /\ filed \in Orders(OldRows)
  /\ settled = {} /\ txOf = Legacy
  /\ logged = [r \in Runs |-> 0]
  /\ signed = OldPaid
  /\ desk = [q \in Requests |-> Idle]
  /\ sweep = {}

At(q, stage) == desk[q].at = stage
Free(q) == At(q, "idle")

Goes(q, stage) == desk' = [desk EXCEPT ![q].at = stage]
Takes(q, r, stage) == desk' = [desk EXCEPT ![q] = [at |-> stage, run |-> r, nonce |-> 0]]
Leaves(q) == desk' = [desk EXCEPT ![q] = Idle]

Room == Cardinality(paid) < Slots

-----------------------------------------------------------------------------
(* The task on chain                                                       *)

(* Its deadline passes, or it is closed or minted as a policy.             *)
TaskEnds ==
  /\ task = "open"
  /\ task' = "shut"
  /\ UNCHANGED <<listed, paid, nonce, shares, storeVars, signed, desk, sweep>>

(* The operator submits the signed run and the contract records it.        *)
SubmitRun(r) ==
  /\ r \in signed \cap Accepted
  /\ r \notin paid /\ Room /\ task = "open"
  /\ paid' = paid \cup {r}
  /\ UNCHANGED <<task, listed, nonce, shares, storeVars, signed, desk, sweep>>

(* /api/operator: a passkey checked on Arc admits its address.             *)
Admit(q, o) ==
  /\ Free(q) /\ o \notin listed
  /\ nonce < MaxNonce
  /\ listed' = listed \cup {o}
  /\ nonce' = nonce + 1
  /\ UNCHANGED <<task, paid, shares, storeVars, signed, desk, sweep>>

-----------------------------------------------------------------------------
(* /api/verify and /api/sign                                               *)

Place(r) == CHOOSE i \in DOMAIN filed : filed[i] = r

(* settledSamplesForTask: the newest settled rows, up to its limit.        *)
Latest == {r \in settled : Cardinality({s \in settled : Place(s) > Place(r)}) < Compared}

Copies(r) == (Near[r] \ {r}) \cap Latest

Verify_Uncompared(q, r) ==
  /\ Free(q) /\ By[r] \in listed
  /\ Takes(q, r, "sign")
  /\ UNCHANGED <<chainVars, storeVars, signed, sweep>>

(* A run not refused as unadmitted or as a copy goes to the signer.        *)
Verify(q, r) ==
  /\ Free(q) /\ By[r] \in listed
  /\ Copies(r) = {}
  /\ Takes(q, r, "sign")
  /\ UNCHANGED <<chainVars, storeVars, signed, sweep>>

(* /api/sign refuses for a task that takes no more runs.                   *)
Sign(q) ==
  /\ At(q, "sign")
  /\ IF Room /\ task = "open" THEN Goes(q, "store") ELSE Leaves(q)
  /\ UNCHANGED <<chainVars, storeVars, signed, sweep>>

(* insertTrajectory: a hash on file keeps the row it has.                  *)
StoreRun(q) ==
  /\ At(q, "store")
  /\ filed' = IF Stored(desk[q].run) THEN filed ELSE Append(filed, desk[q].run)
  /\ Goes(q, "answer")
  /\ UNCHANGED <<chainVars, settled, txOf, logged, signed, sweep>>

Answer(q) ==
  /\ At(q, "answer")
  /\ signed' = signed \cup {desk[q].run}
  /\ Leaves(q)
  /\ UNCHANGED <<chainVars, storeVars, sweep>>

-----------------------------------------------------------------------------
(* /api/submitted                                                          *)

Submitted_Unread(q, r) ==
  /\ Free(q) /\ Stored(r)
  /\ Takes(q, r, "mark")
  /\ UNCHANGED <<chainVars, storeVars, signed, sweep>>

(* The receipt shows the contract recorded this run, and the run is stored. *)
Submitted(q, r) ==
  /\ Free(q) /\ r \in paid /\ Stored(r)
  /\ Takes(q, r, "mark")
  /\ UNCHANGED <<chainVars, storeVars, signed, sweep>>

MarkSettled(q) ==
  /\ At(q, "mark")
  /\ settled' = settled \cup {desk[q].run}
  /\ txOf' = [txOf EXCEPT ![desk[q].run] = desk[q].run]
  /\ Goes(q, "look")
  /\ UNCHANGED <<chainVars, filed, logged, signed, sweep>>

LookForIssue_Unread(q) ==
  /\ At(q, "look")
  /\ IF By[desk[q].run] \in listed THEN Goes(q, "count") ELSE Leaves(q)
  /\ UNCHANGED <<chainVars, storeVars, signed, sweep>>

(* issueRunShares: nothing to do for an unadmitted driver or a logged run. *)
LookForIssue(q) ==
  /\ At(q, "look")
  /\ IF By[desk[q].run] \in listed /\ logged[desk[q].run] = 0
     THEN Goes(q, "count") ELSE Leaves(q)
  /\ UNCHANGED <<chainVars, storeVars, signed, sweep>>

CountNonce_Next(q) ==
  /\ At(q, "count")
  /\ nonce < MaxNonce
  /\ desk' = [desk EXCEPT ![q].at = "send", ![q].nonce = nonce + 1]
  /\ UNCHANGED <<chainVars, storeVars, signed, sweep>>

(* issueShares: the wallet asks Arc for the key's next nonce,              *)
CountNonce(q) ==
  /\ At(q, "count")
  /\ nonce < MaxNonce
  /\ desk' = [desk EXCEPT ![q].at = "send", ![q].nonce = nonce]
  /\ UNCHANGED <<chainVars, storeVars, signed, sweep>>

SendIssue_Unchecked(q) ==
  /\ At(q, "send")
  /\ IF desk[q].nonce = nonce
     THEN nonce' = nonce + 1 /\ shares' = [shares EXCEPT ![desk[q].run] = @ + 1]
     ELSE UNCHANGED <<nonce, shares>>
  /\ Goes(q, "receipt")
  /\ UNCHANGED <<task, listed, paid, storeVars, signed, sweep>>

(* and sends; Arc takes a nonce once, and refuses it from anyone later.    *)
SendIssue(q) ==
  /\ At(q, "send")
  /\ \/ /\ desk[q].nonce = nonce
        /\ nonce' = nonce + 1
        /\ shares' = [shares EXCEPT ![desk[q].run] = @ + 1]
        /\ Goes(q, "receipt")
     \/ /\ desk[q].nonce # nonce
        /\ Leaves(q)
        /\ UNCHANGED <<nonce, shares>>
  /\ UNCHANGED <<task, listed, paid, storeVars, signed, sweep>>

LogIssue_WriteSwallowed(q) ==
  /\ At(q, "receipt")
  /\ Leaves(q)
  /\ UNCHANGED <<chainVars, storeVars, signed, sweep>>

(* settle: the receipt is there, and the issue gets its line.              *)
LogIssue(q) ==
  /\ At(q, "receipt")
  /\ logged' = [logged EXCEPT ![desk[q].run] = @ + 1]
  /\ Leaves(q)
  /\ UNCHANGED <<chainVars, filed, settled, txOf, signed, sweep>>

(* An RPC or store error, a receipt not seen in 30 s, a request cut off.   *)
Fail(q) ==
  /\ Faults /\ ~ Free(q)
  /\ Leaves(q)
  /\ UNCHANGED <<chainVars, storeVars, signed, sweep>>

-----------------------------------------------------------------------------
(* /api/reconcile                                                          *)

(* Mutant: rows without a transaction are listed too.                       *)
Unsettled_AnyTx == {r \in Runs : Stored(r) /\ r \notin settled}
Unsettled == {r \in Runs : Stored(r) /\ r \notin settled /\ txOf[r] # NoTx}

Reconcile ==
  /\ sweep = {}
  /\ sweep' = {<<r, txOf[r]>> : r \in Unsettled}
  /\ UNCHANGED <<chainVars, storeVars, signed, desk>>

Confirms_AnyReceipt(tx) == TRUE
Confirms(tx) == tx \in paid \ Sponsored

ClearTx(r) ==
  /\ settled' = settled \ {r}
  /\ txOf' = [txOf EXCEPT ![r] = NoTx]

(* A row is settled by the transaction it names, or loses it; it loses it  *)
(* too when the receipt could not be read.                                 *)
ReconcileRow(r, tx) ==
  /\ <<r, tx>> \in sweep
  /\ sweep' = sweep \ {<<r, tx>>}
  /\ \/ /\ Confirms(tx)
        /\ settled' = settled \cup {r}
        /\ txOf' = [txOf EXCEPT ![r] = tx]
     \/ ~ Confirms(tx) /\ ClearTx(r)
     \/ Faults /\ ClearTx(r)
  /\ UNCHANGED <<chainVars, filed, logged, signed, desk>>

ReconcileStops ==
  /\ Faults /\ sweep # {}
  /\ sweep' = {}
  /\ UNCHANGED <<chainVars, storeVars, signed, desk>>

Next ==
  \/ TaskEnds
  \/ \E r \in Runs : SubmitRun(r)
  \/ \E q \in Requests, o \in Operators : Admit(q, o)
  \/ \E q \in Requests, r \in Runs : Verify(q, r)
  \/ \E q \in Requests : Sign(q)
  \/ \E q \in Requests : StoreRun(q)
  \/ \E q \in Requests : Answer(q)
  \/ \E q \in Requests, r \in Runs : Submitted(q, r)
  \/ \E q \in Requests : MarkSettled(q)
  \/ \E q \in Requests : LookForIssue(q)
  \/ \E q \in Requests : CountNonce(q)
  \/ \E q \in Requests : SendIssue(q)
  \/ \E q \in Requests : LogIssue(q)
  \/ \E q \in Requests : Fail(q)
  \/ Reconcile
  \/ \E r \in Runs, tx \in Txs : ReconcileRow(r, tx)
  \/ ReconcileStops

Spec == Init /\ [][Next]_vars
-----------------------------------------------------------------------------
(* Properties                                                              *)

TypeOK ==
  /\ task \in {"open", "shut"}
  /\ listed \subseteq Operators /\ paid \subseteq Runs /\ signed \subseteq Runs
  /\ nonce \in Nat /\ shares \in [Runs -> Nat] /\ logged \in [Runs -> Nat]
  /\ filed \in Seq(Runs) /\ \A i, j \in DOMAIN filed : filed[i] = filed[j] => i = j
  /\ settled \subseteq Runs /\ txOf \in [Runs -> Txs]
  /\ desk \in [Requests -> Work]
  /\ sweep \subseteq Runs \X Txs

(* A run is filed once, and a row is called paid only for a transaction the *)
(* contract paid a run in, that run's own unless an older version left it   *)
(* another's, whichever of /api/submitted and /api/reconcile wrote last.    *)
LedgerFollowsChain ==
  /\ \A i, j \in DOMAIN filed : filed[i] = filed[j] => i = j
  /\ \A r \in settled : Stored(r) /\ txOf[r] \in paid /\ txOf[r] \in {r, Legacy[r]}

Awaited(r) == {q \in Requests : At(q, "receipt") /\ desk[q].run = r}

(* Shares exist only for runs the contract paid to an admitted driver, and  *)
(* no line of the log is without an issue of its own; nor, unless a handler *)
(* failed, an issue without its line or a handler about to write it.        *)
LogFollowsIssues ==
  \A r \in Runs :
    /\ shares[r] > 0 => r \in paid /\ Stored(r) /\ By[r] \in listed
    /\ logged[r] + Cardinality(Awaited(r)) <= shares[r]
    /\ ~ Faults => logged[r] + Cardinality(Awaited(r)) = shares[r]

(* Only a row an older version left can be settled and lose that again: a   *)
(* row written since that is called paid stays so, though reconcile decides *)
(* on what it listed before /api/submitted wrote.                           *)
SettledStays == [][\A r \in settled : Legacy[r] = NoTx => r \in settled']_vars

(* No signature is out or on its way for a run that copies a settled one.   *)
Barred(r) ==
  /\ \E c \in (Near[r] \ {r}) \cap settled : Legacy[c] = NoTx
  /\ r \notin signed
  /\ \A q \in Requests : desk[q].run = r => desk[q].at \notin {"sign", "store", "answer"}

(* A copy nobody had verified when its original was settled is not signed as *)
(* long as no more runs are settled than a verification compares with,       *)
(* however many requests verify, report and reconcile at the same time.      *)
CopiesStayBarred ==
  [][Cardinality(settled) <= Compared => \A r \in Runs : Barred(r) => Barred(r)']_vars

(* Called one after the other and without a failure, the routes are the     *)
(* ledger they mean to be: no copy of a settled run is offered, and shares   *)
(* are issued once for each.                                                *)
Ledger == INSTANCE RunLedger WITH members <- listed, offered <- signed

ImplementsRunLedger == Ledger!Spec

(* Of the contract the routes suppose only what TaskOnArc says of its task, *)
(* which ThenarProtocol implements: what is shown here holds on top of it.  *)
Seen == INSTANCE TaskOnArc WITH
  TaskIds <- {0}, Hashes <- Runs, SlotCounts <- {Slots},
  slots <- [t \in {0} |-> Slots],
  takes <- IF task = "open" THEN {0} ELSE {},
  recorded <- [t \in {0} |-> paid]

ImplementsTaskOnArc == Seen!Spec

(* The platform runs a request it has accepted to its end, and the schedule *)
(* of docs/HOSTED.md calls /api/reconcile again and again.                  *)
Serve(q) == Sign(q) \/ StoreRun(q) \/ Answer(q) \/ MarkSettled(q) \/ LookForIssue(q)
              \/ CountNonce(q) \/ SendIssue(q) \/ LogIssue(q)

Fairness ==
  /\ \A q \in Requests : WF_vars(Serve(q))
  /\ WF_vars(Reconcile)
  /\ \A r \in Runs, tx \in Txs : WF_vars(ReconcileRow(r, tx))

FairSpec == Spec /\ Fairness

(* A run reported to /api/submitted gets its shares, if requests come one   *)
(* after the other and nothing fails.                                       *)
ReportedIsIssued ==
  \A q \in Requests, r \in Runs :
    (At(q, "mark") /\ desk[q].run = r /\ By[r] \in listed) ~> shares[r] > 0

(* Reconciling ends, and rightly: of an older version's rows those that name *)
(* their own payment end settled for good, and no row keeps a transaction    *)
(* that failed, whatever is verified and reported meanwhile.                 *)
LegacyResolved ==
  \A r \in Runs :
    /\ Legacy[r] = r /\ r \notin Sponsored => <>[](r \in settled)
    /\ Legacy[r] = Reverted => <>[](txOf[r] # Reverted)

-----------------------------------------------------------------------------
(* What comments say, and the code does not keep                           *)

(* app/api/submitted/route.ts:103: "Once per run however many times this    *)
(* route is called".                                                        *)
SharesIssuedOnce == \A r \in Runs : shares[r] <= 1

(* lib/server/db.ts:229: "What must not happen twice is being *paid* twice". *)
NoCopyPaid == \A r, s \in paid : s \in Near[r] => s = r

(* lib/server/db.ts:100: "Drop a transaction that turned out not to have     *)
(* settled".                                                                *)
OnlyFailuresDropped ==
  [][\A r \in Runs : txOf[r] # NoTx /\ txOf'[r] = NoTx => txOf[r] \notin paid]_vars
=============================================================================
