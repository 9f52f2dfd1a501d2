------------------------------ MODULE CorpusSale ------------------------------
(***************************************************************************)
(* An agent's paid pull of a corpus (app/api/agent/corpus/route.ts): the   *)
(* payment settles, the sale is recorded, stated in SalesLog on Arc by the *)
(* issuer's key under withSignerLock, and audited; then the file is        *)
(* answered. Beside it the issuer's key issues shares without the lock.    *)
(* The routes run in one or more processes with the same key; the lock is  *)
(* a map in the memory of each. Pulls interleave at every await, any step  *)
(* may fail, whether or not it took effect, and a process may stop.        *)
(***************************************************************************)
EXTENDS Naturals, Sequences, SequencesExt, FiniteSets

CONSTANTS
  Payments,        \* EIP-3009 authorizations, each good for one transfer
  Pulls,           \* requests for the corpus, each served once
  Issues,          \* share issues and admissions by the issuer's key
  Instances,       \* server processes
  Instance,        \* Instance[p]: the process that serves pull p
  NoPayment,
  SaleFaults       \* whether steps fail and the process stops

VARIABLES
  paid,            \* payments settled on Arc
  sales,           \* rows of corpus_sale, by payment
  audits,          \* rows of corpus_sale_audit: payment -> the sequence noted, 0 with an error
  log,             \* SalesLog._sales, by payment
  sent,            \* who sent the issuer's transactions: the nonce is Len(sent)
  queue,           \* queue[s]: the promise chain of the issuer's key in s; its head runs
  pull,            \* pull[p]: one request
  issue            \* issue[i]: one write outside the lock

saleVars == <<paid, sales, audits, log, sent, queue, pull, issue>>

SaleAssumption ==
  /\ SaleFaults \in BOOLEAN
  /\ NoPayment \notin Payments
  /\ Pulls \cap Issues = {}
  /\ Instance \in [Pulls -> Instances]
ASSUME SaleFacts == SaleAssumption

Served == {"idle", "answered", "stopped"}

SaleInit ==
  /\ paid = {} /\ sales = {} /\ audits = <<>> /\ log = <<>> /\ sent = <<>>
  /\ queue = [s \in Instances |-> <<>>]
  /\ pull = [p \in Pulls |-> [at |-> "idle", pay |-> NoPayment, seq |-> 0, nonce |-> 0]]
  /\ issue = [i \in Issues |-> [at |-> "idle", nonce |-> 0]]

ledger == <<paid, sales, audits>>
chain == <<log, sent>>

Chain(p) == queue[Instance[p]]

Move(p, stage) == pull' = [pull EXCEPT ![p].at = stage]

\* Mutant: a payment that was used before is served again.
Settle_Reused(p, a) ==
  /\ pull[p].at = "idle"
  /\ paid' = paid \cup {a}
  /\ pull' = [pull EXCEPT ![p].at = "settled", ![p].pay = a]
  /\ UNCHANGED <<sales, audits, chain, queue, issue>>

\* The export succeeded, so x402 settles: a transfer the token takes once. A
\* payment already used is refused and nothing is sold.
Settle(p, a) ==
  /\ pull[p].at = "idle" /\ a \notin paid
  /\ paid' = paid \cup {a}
  /\ pull' = [pull EXCEPT ![p].at = "settled", ![p].pay = a]
  /\ UNCHANGED <<sales, audits, chain, queue, issue>>

RecordSale(p) ==
  /\ pull[p].at = "settled"
  /\ sales' = sales \cup {pull[p].pay}
  /\ Move(p, "recorded")
  /\ UNCHANGED <<paid, audits, chain, queue, issue>>

\* simulateContract answers the sequence number logSale would return now; then
\* the write joins the chain of the key in its process.
Simulate(p) ==
  /\ pull[p].at = "recorded"
  /\ IF pull[p].pay \in Range(log)
     THEN Move(p, "unlogged") /\ UNCHANGED queue
     ELSE /\ pull' = [pull EXCEPT ![p].at = "queued", ![p].seq = Len(log) + 1]
          /\ queue' = [queue EXCEPT ![Instance[p]] = Append(@, p)]
  /\ UNCHANGED <<ledger, chain, issue>>

\* Mutant: writes of the key do not wait for one another.
Holds_Unordered(p) == Chain(p) # <<>> /\ Contains(Chain(p), p)

Holds(p) == Chain(p) # <<>> /\ Head(Chain(p)) = p

\* writeContract asks for the key's next nonce, then sends.
TakeNonce(p) ==
  /\ pull[p].at = "queued" /\ Holds(p)
  /\ pull' = [pull EXCEPT ![p].at = "counted", ![p].nonce = Len(sent)]
  /\ UNCHANGED <<ledger, chain, queue, issue>>

\* The next write runs whether this one went through or not.
Release(p) == queue' = [queue EXCEPT ![Instance[p]] = Tail(@)]

\* The chain takes a transaction with its next nonce; logSale takes a sale once.
Lands(p) ==
  /\ pull[p].nonce = Len(sent)
  /\ sent' = Append(sent, p)
  /\ log' = IF pull[p].pay \in Range(log) THEN log ELSE Append(log, pull[p].pay)

LogSale(p) ==
  /\ pull[p].at = "counted"
  /\ Release(p)
  /\ \/ Lands(p) /\ Move(p, IF pull[p].pay \in Range(log) THEN "unlogged" ELSE "logged")
     \/ pull[p].nonce # Len(sent) /\ Move(p, "unlogged") /\ UNCHANGED chain
  /\ UNCHANGED <<ledger, issue>>

AuditRow(p, seq) ==
  audits' = IF pull[p].pay \in DOMAIN audits THEN audits
            ELSE [a \in DOMAIN audits \cup {pull[p].pay} |->
                    IF a = pull[p].pay THEN seq ELSE audits[a]]

\* recordAudit with the sequence, or with the reason there is none.
RecordAudit(p) ==
  /\ pull[p].at \in {"logged", "unlogged"}
  /\ AuditRow(p, IF pull[p].at = "logged" THEN pull[p].seq ELSE 0)
  /\ Move(p, "audited")
  /\ UNCHANGED <<paid, sales, chain, queue, issue>>

\* The file is answered.
Answer(p) ==
  /\ pull[p].at = "audited"
  /\ Move(p, "answered")
  /\ UNCHANGED <<ledger, chain, queue, issue>>

\* What throws inside the try is noted as a gap: the simulation, the receipt
\* that does not come in 30 s, the audit row, written or not.
CaughtFailure(p) ==
  /\ SaleFaults /\ pull[p].at \in {"recorded", "logged"}
  /\ UNCHANGED audits \/ (pull[p].at = "logged" /\ AuditRow(p, pull[p].seq))
  /\ Move(p, "unlogged")
  /\ UNCHANGED <<paid, sales, chain, queue, issue>>

\* Mutant: a write that throws leaves the chain rejected for those behind it.
WriteFails_Blocks(p) ==
  /\ SaleFaults /\ pull[p].at \in {"queued", "counted"} /\ Holds(p)
  /\ UNCHANGED chain \/ (pull[p].at = "counted" /\ Lands(p))
  /\ Move(p, "unlogged")
  /\ UNCHANGED <<ledger, queue, issue>>

\* writeContract throws inside the lock, before or after the chain has it.
WriteFails(p) ==
  /\ SaleFaults /\ pull[p].at \in {"queued", "counted"} /\ Holds(p)
  /\ UNCHANGED chain \/ (pull[p].at = "counted" /\ Lands(p))
  /\ Release(p) /\ Move(p, "unlogged")
  /\ UNCHANGED <<ledger, issue>>

\* What throws outside it ends the request: the sale row, the gap's own row,
\* each written or not.
UncaughtFailure(p) ==
  /\ SaleFaults
  /\ \/ /\ pull[p].at = "settled"
        /\ sales' \in {sales, sales \cup {pull[p].pay}} /\ UNCHANGED audits
     \/ /\ pull[p].at = "unlogged"
        /\ UNCHANGED audits \/ AuditRow(p, 0)
        /\ UNCHANGED sales
  /\ Move(p, "stopped")
  /\ UNCHANGED <<paid, chain, queue, issue>>

\* A process stops: every request in it, and its chain of promises.
ProcessStops(s) ==
  LET cut == {p \in Pulls : Instance[p] = s /\ pull[p].at \notin Served}
  IN  /\ SaleFaults /\ cut # {}
      /\ pull' = [p \in Pulls |-> IF p \in cut THEN [pull[p] EXCEPT !.at = "stopped"]
                                  ELSE pull[p]]
      /\ queue' = [queue EXCEPT ![s] = <<>>]
      /\ UNCHANGED <<ledger, chain, issue>>

\* issueShares and admitOperator: the same key, not under the lock.
CountIssue(i) ==
  /\ issue[i].at = "idle"
  /\ issue' = [issue EXCEPT ![i] = [at |-> "counted", nonce |-> Len(sent)]]
  /\ UNCHANGED <<ledger, chain, queue, pull>>

SendIssueTx(i) ==
  /\ issue[i].at = "counted"
  /\ sent' = IF issue[i].nonce = Len(sent) THEN Append(sent, i) ELSE sent
  /\ issue' = [issue EXCEPT ![i].at = "done"]
  /\ UNCHANGED <<ledger, log, queue, pull>>

PullStep(p) ==
  \/ RecordSale(p) \/ Simulate(p) \/ TakeNonce(p) \/ LogSale(p)
  \/ RecordAudit(p) \/ Answer(p)

SaleNext ==
  \/ \E p \in Pulls : \/ \E a \in Payments : Settle(p, a)
                      \/ PullStep(p)
                      \/ CaughtFailure(p) \/ WriteFails(p) \/ UncaughtFailure(p)
  \/ \E s \in Instances : ProcessStops(s)
  \/ \E i \in Issues : CountIssue(i) \/ SendIssueTx(i)

SaleSpec == SaleInit /\ [][SaleNext]_saleVars
-----------------------------------------------------------------------------
\* A buyer who got its file has a sale row and an audit row; an audit row that
\* notes a sequence is of a sale that is in SalesLog; and every line of
\* SalesLog is a recorded sale with a settled payment, once. So a sale missing
\* from the log is visibly missing (agent-sales.ts 42-43, route.ts 168-178).
SalesAccountedFor ==
  /\ \A p \in Pulls : pull[p].at = "answered" =>
       pull[p].pay \in sales /\ pull[p].pay \in DOMAIN audits
  /\ \A a \in DOMAIN audits : audits[a] # 0 => a \in Range(log)
  /\ Range(log) \subseteq sales /\ sales \subseteq paid
  /\ IsInjective(log)

\* Two sales of one process never meet on a nonce: a sale's write that finds
\* its nonce taken finds it taken by a write made outside the lock, or in
\* another process, whose chain is its own (arc.ts 85-93).
LockKeepsSalesApart ==
  \A p \in Pulls :
    pull[p].at = "counted" /\ pull[p].nonce < Len(sent) =>
      LET winner == sent[pull[p].nonce + 1]
      IN  winner \in Pulls => Instance[winner] # Instance[p]

\* The chain of the key in a process is the pulls of that process with a write
\* to make, each once: a pull that ended, however it ended, has left it, so
\* whoever waits comes to its head and whoever is at its head has a step to make
\* (arc.ts 85-93).
ChainNeverJams ==
  \A s \in Instances :
    /\ Range(queue[s]) =
         {p \in Pulls : Instance[p] = s /\ pull[p].at \in {"queued", "counted"}}
    /\ IsInjective(queue[s])

\* A pull keeps the promise of SaleBook, however pulls interleave, fail or stop:
\* a payment buys one file for the request that made it, a file leaves only with
\* its rows written, and neither rows nor SalesLog are ever rewritten (route.ts
\* 145-180).
Book == INSTANCE SaleBook WITH
  Requests <- Pulls,
  taken <- {<<p, pull[p].pay>> : p \in {q \in Pulls : pull[q].at # "idle"}},
  written <- sales,
  stated <- log,
  noted <- {<<a, audits[a] # 0>> : a \in DOMAIN audits},
  handed <- {<<p, pull[p].pay>> : p \in {q \in Pulls : pull[q].at = "answered"}}

ImplementsSaleBook == Book!Spec

\* Every pull that is paid for ends, with its file or an error: whenever one is
\* under way, a time comes when none is (there are finitely many). A write that
\* fails lets the next one run (arc.ts 90-91).
PullsEnd ==
  (\E p \in Pulls : pull[p].at \notin Served) ~> (\A p \in Pulls : pull[p].at \in Served)

\* The platform runs an accepted request to its end.
SaleFairness == \A p \in Pulls : WF_saleVars(PullStep(p))
=============================================================================
