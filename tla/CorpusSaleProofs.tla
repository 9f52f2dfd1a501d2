--------------------------- MODULE CorpusSaleProofs ---------------------------
(***************************************************************************)
(* An agent's paid pull of a corpus: the payment, the sale row, the line   *)
(* of SalesLog and the audit row agree wherever a step fails or a process  *)
(* stops, and the signer lock keeps the sales of a process apart, for any  *)
(* number of processes, pulls, payments and share issues.                  *)
(***************************************************************************)
EXTENDS CorpusSale, TLAPS

PullStages == {"idle", "settled", "recorded", "queued", "counted", "logged",
               "unlogged", "audited", "answered", "stopped"}

PullRecords == [at : PullStages, pay : Payments \cup {NoPayment}, seq : Nat, nonce : Nat]

IssueRecords == [at : {"idle", "counted", "done"}, nonce : Nat]

SaleTypeOK ==
  /\ log \in Seq(Payments) /\ sent \in Seq(Pulls \cup Issues)
  /\ queue \in [Instances -> Seq(Pulls)]
  /\ pull \in [Pulls -> PullRecords] /\ issue \in [Issues -> IssueRecords]

Recorded == {"recorded", "queued", "counted", "logged", "unlogged", "audited", "answered"}

\* What a pull at each stage has behind it.
PullsBehind ==
  \A p \in Pulls :
    /\ pull[p].at # "idle" => pull[p].pay \in paid \cap Payments
    /\ pull[p].at \in Recorded => pull[p].pay \in sales
    /\ pull[p].at = "logged" => pull[p].pay \in Range(log)
    /\ pull[p].at \in {"audited", "answered"} => pull[p].pay \in DOMAIN audits

\* A counted pull holds its chain, and its nonce was the next one when it asked.
CountedHolds ==
  \A p \in Pulls :
    pull[p].at = "counted" => Holds(p) /\ pull[p].nonce <= Len(sent)

\* Who may take the nonce that pull p has in hand.
Others(p) == Issues \cup {q \in Pulls : Instance[q] # Instance[p]}

NoncesLostToOthers ==
  \A p \in Pulls :
    pull[p].at = "counted" /\ pull[p].nonce < Len(sent) => sent[pull[p].nonce + 1] \in Others(p)

\* What the rows and the log say, whatever the pulls are doing.
RecordsAgree ==
  /\ \A a \in DOMAIN audits : audits[a] # 0 => a \in Range(log)
  /\ Range(log) \subseteq sales /\ sales \subseteq paid
  /\ IsInjective(log)

SaleInv ==
  /\ SaleTypeOK /\ PullsBehind /\ CountedHolds /\ NoncesLostToOthers /\ RecordsAgree

-----------------------------------------------------------------------------
LEMMA LogGrows ==
  ASSUME NEW S, NEW s \in Seq(S), NEW x \in S
  PROVE  /\ Append(s, x) \in Seq(S) /\ Range(Append(s, x)) = Range(s) \cup {x}
         /\ IsInjective(s) /\ x \notin Range(s) => IsInjective(Append(s, x))
  <1>1. /\ Append(s, x) \in Seq(S) /\ Len(s) \in Nat
        /\ DOMAIN s = 1..Len(s) /\ DOMAIN Append(s, x) = 1..(Len(s) + 1)
        /\ \A n \in 1..Len(s) : Append(s, x)[n] = s[n]
        /\ Append(s, x)[Len(s) + 1] = x
    OBVIOUS
  <1>2. \A n \in 1..(Len(s) + 1) : n \in 1..Len(s) \/ n = Len(s) + 1
    BY <1>1
  <1>3. Range(Append(s, x)) = Range(s) \cup {x}
    BY <1>1, <1>2 DEF Range
  <1>4. ASSUME IsInjective(s), x \notin Range(s) PROVE IsInjective(Append(s, x))
    BY <1>1, <1>2, <1>4 DEF Range, IsInjective
  <1> QED
    BY <1>1, <1>3, <1>4

\* What stands at a place that was the next one, or was taken by one of T.
LEMMA NextIsNew ==
  ASSUME NEW S, NEW T, NEW s \in Seq(S), NEW x \in T, NEW k \in Nat,
         k <= Len(s), k < Len(s) => s[k + 1] \in T
  PROVE  Append(s, x)[k + 1] \in T
  <1>1. Len(s) \in Nat
    OBVIOUS
  <1>2. CASE k = Len(s)
    BY <1>2
  <1>3. CASE k < Len(s)
    <2>1. k + 1 \in 1..Len(s)
      BY ONLY <1>1, <1>3, k \in Nat
    <2>2. Append(s, x)[k + 1] = s[k + 1]
      BY <2>1
    <2> QED
      BY <1>3, <2>2
  <1> QED
    BY ONLY <1>1, <1>2, <1>3, k \in Nat, k <= Len(s)

\* Two pulls of one process do not hold its chain at once.
LEMMA OneHolder ==
  ASSUME NEW p \in Pulls, NEW q \in Pulls, Holds(p), Holds(q), p # q
  PROVE  Instance[p] # Instance[q]
  BY DEF Holds, Chain

\* What every step of one pull may rely on.
LEMMA PullsKnown ==
  ASSUME SaleInv, NEW p \in Pulls
  PROVE  /\ pull[p] \in PullRecords /\ Instance[p] \in Instances
         /\ log \in Seq(Payments) /\ sent \in Seq(Pulls \cup Issues)
         /\ queue \in [Instances -> Seq(Pulls)] /\ Chain(p) \in Seq(Pulls)
         /\ Len(log) \in Nat /\ Len(sent) \in Nat
         /\ \A a \in DOMAIN audits : audits[a] # 0 => a \in Range(log)
         /\ IsInjective(log) /\ Range(log) \subseteq sales /\ sales \subseteq paid
         /\ pull[p].at # "idle" => pull[p].pay \in paid \cap Payments
         /\ pull[p].at \in Recorded => pull[p].pay \in sales
         /\ pull[p].at = "logged" => pull[p].pay \in Range(log)
         /\ pull[p].at \in {"audited", "answered"} => pull[p].pay \in DOMAIN audits
         /\ pull[p].at = "counted" => Holds(p)
  <1>1. Instance[p] \in Instances
    BY SaleFacts DEF SaleAssumption
  <1> QED
    BY <1>1 DEF SaleInv, SaleTypeOK, PullsBehind, RecordsAgree, CountedHolds, Chain

\* What one pull may do to the chain of its process: wait at its end, leave its head.
ChainStep(p) ==
  \/ UNCHANGED queue
  \/ queue' = [queue EXCEPT ![Instance[p]] = Append(@, p)]
  \/ Holds(p) /\ Release(p)

LEMMA AppendKeepsHead ==
  ASSUME NEW S, NEW s \in Seq(S), NEW x \in S
  PROVE  Append(s, x) # <<>> /\ (s # <<>> => Head(Append(s, x)) = Head(s))
  <1>1. Append(s, x) \in Seq(S) /\ Len(Append(s, x)) = Len(s) + 1 /\ Len(s) \in Nat
    OBVIOUS
  <1>2. s # <<>> => Append(s, x)[1] = s[1] /\ Head(s) = s[1]
    OBVIOUS
  <1> QED
    BY <1>1, <1>2

\* The others that hold a chain keep it.
LEMMA HoldersStay ==
  ASSUME SaleInv, NEW p \in Pulls, NEW q \in Pulls, q # p, Holds(q), ChainStep(p)
  PROVE  Holds(q)'
  <1>1. /\ Instance[p] \in Instances /\ Instance[q] \in Instances
        /\ queue \in [Instances -> Seq(Pulls)] /\ Chain(q) \in Seq(Pulls)
    BY PullsKnown
  <1>2. CASE queue' = [queue EXCEPT ![Instance[p]] = Append(@, p)]
    <2>1. Chain(q)' = Chain(q) \/ Chain(q)' = Append(Chain(q), p)
      BY <1>1, <1>2 DEF Chain
    <2>2. Append(Chain(q), p) # <<>> /\ (Chain(q) # <<>> => Head(Append(Chain(q), p)) = Head(Chain(q)))
      BY ONLY <1>1, AppendKeepsHead, p \in Pulls
    <2> QED
      BY <2>1, <2>2 DEF Holds
  <1>3. CASE Holds(p) /\ Release(p)
    <2>1. Chain(q)' = Chain(q)
      BY <1>1, <1>3, OneHolder DEF Release, Chain
    <2> QED
      BY <2>1 DEF Holds
  <1> QED
    BY <1>2, <1>3 DEF ChainStep, Holds, Chain

LEMMA ChainStepType ==
  ASSUME SaleInv, NEW p \in Pulls, ChainStep(p)
  PROVE  queue' \in [Instances -> Seq(Pulls)]
  <1>1. Instance[p] \in Instances /\ queue \in [Instances -> Seq(Pulls)] /\ Chain(p) \in Seq(Pulls)
    BY PullsKnown
  <1>2. Append(Chain(p), p) \in Seq(Pulls) /\ (Chain(p) # <<>> => Tail(Chain(p)) \in Seq(Pulls))
    BY <1>1
  <1> QED
    BY <1>1, <1>2 DEF ChainStep, Holds, Release, Chain

\* A nonce in hand is still free, or lost to an other, when an other sends.
LEMMA NoncesStay ==
  ASSUME SaleInv, NEW q \in Pulls, pull[q].at = "counted", NEW w \in Others(q),
         sent' = sent \/ sent' = Append(sent, w)
  PROVE  /\ pull[q].nonce <= Len(sent')
         /\ pull[q].nonce < Len(sent') => sent'[pull[q].nonce + 1] \in Others(q)
  <1>1. /\ sent \in Seq(Pulls \cup Issues) /\ Len(sent) \in Nat /\ pull[q].nonce \in Nat
        /\ pull[q].nonce <= Len(sent)
        /\ pull[q].nonce < Len(sent) => sent[pull[q].nonce + 1] \in Others(q)
    BY PullsKnown DEF SaleInv, CountedHolds, NoncesLostToOthers, PullRecords
  <1>2. CASE sent' = Append(sent, w)
    <2>1. Append(sent, w)[pull[q].nonce + 1] \in Others(q)
      <3> HIDE DEF Others
      <3> QED BY ONLY <1>1, NextIsNew, w \in Others(q)
    <2>2. w \in Pulls \cup Issues
      BY DEF Others
    <2>3. Len(sent') = Len(sent) + 1
      BY <1>1, <1>2, <2>2
    <2> QED
      BY <1>1, <1>2, <2>1, <2>3
  <1> QED
    BY <1>1, <1>2

\* A step of one pull, which ends elsewhere than with a nonce in hand.
LEMMA OnePullMoves ==
  ASSUME SaleInv, NEW p \in Pulls, NEW made \in PullRecords,
         pull' = [pull EXCEPT ![p] = made], made.at \notin {"idle", "counted"},
         made.pay \in paid' \cap Payments,
         made.at \in Recorded => made.pay \in sales',
         made.at = "logged" => made.pay \in Range(log'),
         made.at \in {"audited", "answered"} => made.pay \in DOMAIN audits',
         paid \subseteq paid', sales \subseteq sales', sales' \subseteq paid',
         log' \in Seq(Payments), IsInjective(log'),
         Range(log) \subseteq Range(log'), Range(log') \subseteq sales',
         DOMAIN audits \subseteq DOMAIN audits',
         \A a \in DOMAIN audits' : audits'[a] # 0 => a \in Range(log'),
         sent' = sent \/ (Holds(p) /\ sent' = Append(sent, p)),
         ChainStep(p), UNCHANGED issue
  PROVE  SaleInv'
  <1>1. /\ pull' \in [Pulls -> PullRecords] /\ pull'[p] = made
        /\ \A q \in Pulls \ {p} : pull'[q] = pull[q]
    BY DEF SaleInv, SaleTypeOK
  <1>2. SaleTypeOK'
    <2>1. sent' \in Seq(Pulls \cup Issues)
      <3>1. sent \in Seq(Pulls \cup Issues) /\ p \in Pulls \cup Issues
        BY PullsKnown
      <3> QED
        BY <3>1
    <2> QED
      BY <1>1, <2>1, ChainStepType DEF SaleInv, SaleTypeOK
  <1>3. PullsBehind'
    <2> SUFFICES ASSUME NEW q \in Pulls
        PROVE  /\ pull'[q].at # "idle" => pull'[q].pay \in paid' \cap Payments
               /\ pull'[q].at \in Recorded => pull'[q].pay \in sales'
               /\ pull'[q].at = "logged" => pull'[q].pay \in Range(log')
               /\ pull'[q].at \in {"audited", "answered"} => pull'[q].pay \in DOMAIN audits'
      BY Zenon DEF PullsBehind
    <2>1. CASE q = p
      BY <1>1, <2>1
    <2>2. CASE q # p
      BY <1>1, <2>2, PullsKnown
    <2> QED
      BY <2>1, <2>2
  <1>4. CountedHolds' /\ NoncesLostToOthers'
    <2> SUFFICES ASSUME NEW q \in Pulls, pull'[q].at = "counted"
        PROVE  /\ Holds(q)' /\ pull'[q].nonce <= Len(sent')
               /\ pull'[q].nonce < Len(sent') => sent'[pull'[q].nonce + 1] \in Others(q)
      BY DEF CountedHolds, NoncesLostToOthers, Others
    <2>1. q # p /\ pull'[q] = pull[q] /\ pull[q].at = "counted" /\ Holds(q)
      BY <1>1, PullsKnown
    <2>2. Holds(q)'
      BY <2>1, HoldersStay
    <2>3. CASE sent' = sent
      BY <2>1, <2>2, <2>3 DEF SaleInv, CountedHolds, NoncesLostToOthers
    <2>4. CASE Holds(p) /\ sent' = Append(sent, p)
      <3>1. p \in Others(q)
        BY <2>1, <2>4, OneHolder DEF Others
      <3> QED
        BY <2>1, <2>2, <2>4, <3>1, NoncesStay
    <2> QED
      BY <2>1, <2>2, <2>3, <2>4
  <1>5. RecordsAgree'
    BY DEF RecordsAgree
  <1> QED
    BY <1>2, <1>3, <1>4, <1>5 DEF SaleInv

LEMMA InitSaleInv == SaleInit => SaleInv
  <1> SUFFICES ASSUME SaleInit PROVE SaleInv
    OBVIOUS
  <1>1. SaleTypeOK
    BY DEF SaleInit, SaleTypeOK, PullRecords, PullStages, IssueRecords
  <1>2. \A p \in Pulls : pull[p].at = "idle"
    BY DEF SaleInit
  <1>3. log = <<>> /\ Range(log) = {} /\ IsInjective(log) /\ DOMAIN audits = {}
    BY DEF SaleInit, Range, IsInjective
  <1> QED
    BY <1>1, <1>2, <1>3 DEF SaleInit, SaleInv, PullsBehind, CountedHolds, Recorded,
                            RecordsAgree, NoncesLostToOthers

\* What a write of one pull adds to the log.
LEMMA LandsAdds ==
  ASSUME SaleInv, NEW p \in Pulls, pull[p].at \in Recorded, UNCHANGED chain \/ Lands(p)
  PROVE  /\ log' \in Seq(Payments) /\ IsInjective(log')
         /\ Range(log) \subseteq Range(log') /\ Range(log') \subseteq sales
         /\ sent' = sent \/ sent' = Append(sent, p)
         /\ Lands(p) => pull[p].pay \in Range(log')
         /\ log' = log \/ (pull[p].pay \notin Range(log) /\ log' = Append(log, pull[p].pay))
  <1>1. pull[p].pay \in Payments \cap sales
    BY PullsKnown DEF Recorded
  <1>2. log \in Seq(Payments) /\ IsInjective(log) /\ Range(log) \subseteq sales
    BY PullsKnown
  <1>3. CASE log' = log
    BY <1>1, <1>2, <1>3 DEF Lands, chain
  <1>4. CASE Lands(p) /\ pull[p].pay \notin Range(log)
    <2>1. log' = Append(log, pull[p].pay)
      BY <1>4 DEF Lands
    <2>2. /\ log' \in Seq(Payments) /\ IsInjective(log')
          /\ Range(log') = Range(log) \cup {pull[p].pay}
      BY <1>1, <1>2, <1>4, <2>1, LogGrows
    <2> QED
      BY <1>1, <1>2, <1>4, <2>1, <2>2 DEF Lands
  <1> QED
    BY <1>3, <1>4 DEF Lands, chain

\* What the audit row of one pull adds.
LEMMA AuditRowAdds ==
  ASSUME SaleInv, NEW p \in Pulls, NEW seq \in Nat, UNCHANGED audits \/ AuditRow(p, seq),
         seq # 0 => pull[p].pay \in Range(log)
  PROVE  /\ DOMAIN audits \subseteq DOMAIN audits'
         /\ AuditRow(p, seq) => pull[p].pay \in DOMAIN audits'
         /\ \A a \in DOMAIN audits' : audits'[a] # 0 => a \in Range(log)
         /\ \/ UNCHANGED audits
            \/ /\ pull[p].pay \notin DOMAIN audits
               /\ DOMAIN audits' = DOMAIN audits \cup {pull[p].pay}
               /\ audits'[pull[p].pay] = seq
               /\ \A a \in DOMAIN audits : audits'[a] = audits[a]
  BY PullsKnown DEF AuditRow

\* A pull moves on to a later stage; of the rows, the log and the chains it
\* changes what OnePullMoves allows.
LEMMA PullMovesOn ==
  ASSUME SaleInv, NEW p \in Pulls, pull[p].at # "idle",
         NEW stage \in PullStages \ {"idle", "counted"}, Move(p, stage),
         stage \in Recorded => pull[p].pay \in sales',
         stage = "logged" => pull[p].pay \in Range(log'),
         stage \in {"audited", "answered"} => pull[p].pay \in DOMAIN audits',
         UNCHANGED <<paid, issue>>, sales' = sales \/ sales' = sales \cup {pull[p].pay},
         log' \in Seq(Payments), IsInjective(log'),
         Range(log) \subseteq Range(log'), Range(log') \subseteq sales',
         DOMAIN audits \subseteq DOMAIN audits',
         \A a \in DOMAIN audits' : audits'[a] # 0 => a \in Range(log'),
         sent' = sent \/ (Holds(p) /\ sent' = Append(sent, p)),
         UNCHANGED queue \/ (Holds(p) /\ Release(p))
  PROVE  SaleInv'
  <1> PICK made : made = [pull[p] EXCEPT !.at = stage]
    OBVIOUS
  <1>1. /\ made \in PullRecords /\ made.at = stage /\ made.pay = pull[p].pay
        /\ pull' = [pull EXCEPT ![p] = made]
    BY PullsKnown DEF Move, PullRecords
  <1>2. ChainStep(p)
    BY DEF ChainStep
  <1>3. sales \subseteq sales' /\ sales' \subseteq paid /\ pull[p].pay \in paid \cap Payments
    BY PullsKnown
  <1> QED
    BY <1>1, <1>2, <1>3, OnePullMoves

LEMMA NextSaleInv == SaleInv /\ [SaleNext]_saleVars => SaleInv'
  <1> SUFFICES ASSUME SaleInv, [SaleNext]_saleVars PROVE SaleInv'
    OBVIOUS
  <1> USE DEF ledger, chain
  <1>1. CASE UNCHANGED saleVars
    BY <1>1 DEF saleVars, SaleInv, SaleTypeOK, PullsBehind, CountedHolds, Holds, Chain,
                RecordsAgree, NoncesLostToOthers
  <1>2. ASSUME NEW p \in Pulls, NEW a \in Payments, Settle(p, a) PROVE SaleInv'
    <2> PICK made : made = [pull[p] EXCEPT !.at = "settled", !.pay = a]
      OBVIOUS
    <2>1. made \in PullRecords /\ made.at = "settled" /\ made.pay = a
      BY PullsKnown DEF PullRecords, PullStages
    <2>2. pull' = [pull EXCEPT ![p] = made]
      BY <1>2 DEF Settle, SaleInv, SaleTypeOK
    <2>3. /\ paid' = paid \cup {a} /\ UNCHANGED <<sales, audits, log, sent, queue, issue>>
          /\ ChainStep(p)
      BY <1>2 DEF Settle, ChainStep
    <2>4. /\ log' \in Seq(Payments) /\ IsInjective(log') /\ Range(log') = Range(log)
          /\ \A b \in DOMAIN audits' : audits'[b] # 0 => b \in Range(log')
          /\ paid \subseteq paid' /\ sales \subseteq sales' /\ sales' \subseteq paid'
          /\ Range(log') \subseteq sales' /\ DOMAIN audits' = DOMAIN audits
      BY <2>3, PullsKnown
    <2>5. /\ made.at \notin {"idle", "counted"} /\ made.pay \in paid' \cap Payments
          /\ made.at \notin Recorded /\ made.at \notin {"logged", "audited", "answered"}
      BY <2>1, <2>3 DEF Recorded
    <2> QED
      BY <2>1, <2>2, <2>3, <2>4, <2>5, OnePullMoves
  <1>3. ASSUME NEW p \in Pulls, RecordSale(p) PROVE SaleInv'
    <2>1. /\ sales' = sales \cup {pull[p].pay} /\ Move(p, "recorded") /\ pull[p].at = "settled"
          /\ UNCHANGED <<paid, audits, log, sent, queue, issue>>
      BY <1>3 DEF RecordSale
    <2> QED
      BY <2>1, PullsKnown, PullMovesOn DEF PullStages
  <1>4. ASSUME NEW p \in Pulls, Simulate(p) PROVE SaleInv'
    <2>1. /\ pull[p].at = "recorded" /\ pull[p].pay \in sales \cap paid \cap Payments
          /\ UNCHANGED <<paid, sales, audits, log, sent, issue>>
      BY <1>4, PullsKnown DEF Simulate, Recorded
    <2>2. CASE pull[p].pay \in Range(log)
      <3>1. Move(p, "unlogged") /\ UNCHANGED queue
        BY <1>4, <2>2 DEF Simulate
      <3> QED
        BY <2>1, <3>1, PullsKnown, PullMovesOn DEF PullStages
    <2>3. CASE pull[p].pay \notin Range(log)
      <3> PICK made : made = [pull[p] EXCEPT !.at = "queued", !.seq = Len(log) + 1]
        OBVIOUS
      <3>0. Len(log) + 1 \in Nat
        BY PullsKnown
      <3>1. made \in PullRecords /\ made.at = "queued" /\ made.pay = pull[p].pay
        BY <3>0, PullsKnown DEF PullRecords, PullStages
      <3>2. pull' = [pull EXCEPT ![p] = made] /\ ChainStep(p)
        BY <1>4, <2>3 DEF Simulate, ChainStep
      <3> QED
        BY <2>1, <3>1, <3>2, PullsKnown, OnePullMoves
    <2> QED
      BY <2>2, <2>3
  <1>5. ASSUME NEW p \in Pulls, TakeNonce(p) PROVE SaleInv'
    <2> PICK made : made = [pull[p] EXCEPT !.at = "counted", !.nonce = Len(sent)]
      OBVIOUS
    <2>0. pull[p].at = "queued" /\ Holds(p) /\ Len(sent) \in Nat
      BY <1>5, PullsKnown DEF TakeNonce
    <2>1. /\ made \in PullRecords /\ made.at = "counted" /\ made.pay = pull[p].pay
          /\ made.nonce = Len(sent)
      BY <2>0, PullsKnown DEF PullRecords, PullStages
    <2>2. /\ pull' = [pull EXCEPT ![p] = made]
          /\ UNCHANGED <<paid, sales, audits, log, sent, queue, issue>>
      BY <1>5 DEF TakeNonce
    <2>3. /\ pull' \in [Pulls -> PullRecords] /\ pull'[p] = made
          /\ \A q \in Pulls \ {p} : pull'[q] = pull[q]
      BY <2>1, <2>2 DEF SaleInv, SaleTypeOK
    <2>4. SaleTypeOK'
      BY <2>2, <2>3 DEF SaleInv, SaleTypeOK
    <2>5. PullsBehind'
      BY <2>0, <2>1, <2>2, <2>3 DEF SaleInv, PullsBehind, Recorded
    <2>6. CountedHolds' /\ NoncesLostToOthers'
      <3> SUFFICES ASSUME NEW q \in Pulls, pull'[q].at = "counted"
          PROVE  /\ Holds(q)' /\ pull'[q].nonce <= Len(sent')
                 /\ pull'[q].nonce < Len(sent') => sent'[pull'[q].nonce + 1] \in Others(q)
        BY DEF CountedHolds, NoncesLostToOthers, Others
      <3>1. CASE q = p
        BY <2>0, <2>1, <2>2, <2>3, <3>1 DEF Holds, Chain
      <3>2. CASE q # p
        BY <2>2, <2>3, <3>2 DEF SaleInv, CountedHolds, NoncesLostToOthers, Holds, Chain
      <3> QED
        BY <3>1, <3>2
    <2>7. RecordsAgree'
      BY <2>2 DEF SaleInv, RecordsAgree
    <2> QED
      BY <2>4, <2>5, <2>6, <2>7 DEF SaleInv
  <1>6. ASSUME NEW p \in Pulls, LogSale(p) PROVE SaleInv'
    <2>1. /\ pull[p].at = "counted" /\ pull[p].pay \in sales /\ Holds(p) /\ Release(p)
          /\ UNCHANGED <<paid, sales, audits, issue>>
      BY <1>6, PullsKnown DEF LogSale, Recorded
    <2>2. CASE Lands(p) /\ Move(p, IF pull[p].pay \in Range(log) THEN "unlogged" ELSE "logged")
      BY <2>1, <2>2, LandsAdds, PullsKnown, PullMovesOn DEF PullStages, Recorded
    <2>3. CASE Move(p, "unlogged") /\ UNCHANGED chain
      BY <2>1, <2>3, PullsKnown, PullMovesOn DEF PullStages
    <2> QED
      BY <1>6, <2>2, <2>3 DEF LogSale
  <1>7. ASSUME NEW p \in Pulls, RecordAudit(p) PROVE SaleInv'
    <2> PICK seq : seq = IF pull[p].at = "logged" THEN pull[p].seq ELSE 0
      OBVIOUS
    <2>1. /\ AuditRow(p, seq) /\ Move(p, "audited") /\ pull[p].at \in {"logged", "unlogged"}
          /\ UNCHANGED <<paid, sales, log, sent, queue, issue>>
      BY <1>7 DEF RecordAudit
    <2>2. seq \in Nat /\ (seq # 0 => pull[p].pay \in Range(log)) /\ pull[p].pay \in sales
      BY <2>1, PullsKnown DEF PullRecords, Recorded
    <2> QED
      BY <2>1, <2>2, AuditRowAdds, PullsKnown, PullMovesOn DEF PullStages
  <1>8. ASSUME NEW p \in Pulls, Answer(p) PROVE SaleInv'
    <2>1. /\ pull[p].at = "audited" /\ Move(p, "answered")
          /\ UNCHANGED <<paid, sales, audits, log, sent, queue, issue>>
      BY <1>8 DEF Answer
    <2> QED
      BY <2>1, PullsKnown, PullMovesOn DEF PullStages, Recorded
  <1>9. ASSUME NEW p \in Pulls, CaughtFailure(p) PROVE SaleInv'
    <2> PICK seq : seq = IF pull[p].at = "logged" THEN pull[p].seq ELSE 0
      OBVIOUS
    <2>1. /\ UNCHANGED audits \/ AuditRow(p, seq)
          /\ Move(p, "unlogged") /\ pull[p].at \in {"recorded", "logged"}
          /\ UNCHANGED <<paid, sales, log, sent, queue, issue>>
      BY <1>9 DEF CaughtFailure
    <2>2. seq \in Nat /\ (seq # 0 => pull[p].pay \in Range(log)) /\ pull[p].pay \in sales
      BY <2>1, PullsKnown DEF PullRecords, Recorded
    <2> QED
      BY <2>1, <2>2, AuditRowAdds, PullsKnown, PullMovesOn DEF PullStages
  <1>10. ASSUME NEW p \in Pulls, WriteFails(p) PROVE SaleInv'
    <2>1. /\ UNCHANGED chain \/ Lands(p)
          /\ Move(p, "unlogged") /\ pull[p].at \in {"queued", "counted"}
          /\ Holds(p) /\ Release(p) /\ UNCHANGED <<paid, sales, audits, issue>>
      BY <1>10 DEF WriteFails
    <2>2. pull[p].at \in Recorded /\ pull[p].pay \in sales
      BY <2>1, PullsKnown DEF Recorded
    <2> QED
      BY <2>1, <2>2, LandsAdds, PullsKnown, PullMovesOn DEF PullStages
  <1>11. ASSUME NEW p \in Pulls, UncaughtFailure(p) PROVE SaleInv'
    <2>1. /\ Move(p, "stopped") /\ pull[p].at \in {"settled", "unlogged"}
          /\ sales' = sales \/ sales' = sales \cup {pull[p].pay}
          /\ UNCHANGED audits \/ AuditRow(p, 0)
          /\ UNCHANGED <<paid, log, sent, queue, issue>>
      BY <1>11 DEF UncaughtFailure
    <2> QED
      BY <2>1, AuditRowAdds, PullsKnown, PullMovesOn DEF PullStages, Recorded
  <1>12. ASSUME NEW s \in Instances, ProcessStops(s) PROVE SaleInv'
    <2> PICK cut : cut = {p \in Pulls : Instance[p] = s /\ pull[p].at \notin Served}
      OBVIOUS
    <2>1. /\ UNCHANGED <<paid, sales, audits, log, sent, issue>>
          /\ queue' = [queue EXCEPT ![s] = <<>>]
          /\ pull' = [p \in Pulls |-> IF p \in cut THEN [pull[p] EXCEPT !.at = "stopped"]
                                      ELSE pull[p]]
      BY <1>12 DEF ProcessStops
    <2>2. \A p \in Pulls : /\ pull'[p] \in PullRecords /\ pull'[p].pay = pull[p].pay
                           /\ \/ pull'[p] = pull[p]
                              \/ pull'[p].at = "stopped" /\ pull[p].at # "idle"
                           /\ Instance[p] = s => pull'[p].at \in Served
      BY <2>1, PullsKnown DEF PullRecords, PullStages, Served
    <2>3. SaleTypeOK'
      <3>1. queue' \in [Instances -> Seq(Pulls)]
        BY <2>1 DEF SaleInv, SaleTypeOK
      <3>2. pull' \in [Pulls -> PullRecords]
        BY <2>1, <2>2
      <3> QED
        BY <2>1, <3>1, <3>2 DEF SaleInv, SaleTypeOK
    <2>4. PullsBehind'
      BY <2>1, <2>2 DEF SaleInv, PullsBehind, Recorded
    <2>5. CountedHolds' /\ NoncesLostToOthers'
      <3> SUFFICES ASSUME NEW q \in Pulls, pull'[q].at = "counted"
          PROVE  /\ Holds(q)' /\ pull'[q].nonce <= Len(sent')
                 /\ pull'[q].nonce < Len(sent') => sent'[pull'[q].nonce + 1] \in Others(q)
        BY DEF CountedHolds, NoncesLostToOthers, Others
      <3>1. pull'[q] = pull[q] /\ Instance[q] # s /\ Instance[q] \in Instances
        BY <2>2, PullsKnown DEF Served
      <3>2. Chain(q)' = Chain(q)
        BY <2>1, <3>1, PullsKnown DEF Chain
      <3> QED
        BY <2>1, <3>1, <3>2 DEF SaleInv, CountedHolds, NoncesLostToOthers, Holds
    <2>6. RecordsAgree'
      BY <2>1 DEF SaleInv, RecordsAgree
    <2> QED
      BY <2>3, <2>4, <2>5, <2>6 DEF SaleInv
  <1>13. ASSUME NEW i \in Issues, CountIssue(i) \/ SendIssueTx(i) PROVE SaleInv'
    <2>1. /\ UNCHANGED <<paid, sales, audits, log, queue, pull>>
          /\ sent' = sent \/ sent' = Append(sent, i)
      BY <1>13 DEF CountIssue, SendIssueTx
    <2>2. SaleTypeOK'
      <3>1. issue' \in [Issues -> IssueRecords]
        <4>1. issue \in [Issues -> IssueRecords] /\ Len(sent) \in Nat
          BY DEF SaleInv, SaleTypeOK
        <4> QED
          BY <1>13, <4>1 DEF CountIssue, SendIssueTx, IssueRecords
      <3>2. sent' \in Seq(Pulls \cup Issues)
        BY <2>1 DEF SaleInv, SaleTypeOK
      <3> QED
        BY <2>1, <3>1, <3>2 DEF SaleInv, SaleTypeOK
    <2>3. PullsBehind' /\ RecordsAgree'
      BY <2>1 DEF SaleInv, PullsBehind, RecordsAgree
    <2>4. CountedHolds' /\ NoncesLostToOthers'
      <3>1. \A q \in Pulls : i \in Others(q)
        BY DEF Others
      <3>2. ASSUME NEW q \in Pulls, pull[q].at = "counted"
            PROVE  /\ pull[q].nonce <= Len(sent')
                   /\ pull[q].nonce < Len(sent') => sent'[pull[q].nonce + 1] \in Others(q)
        BY <2>1, <3>1, <3>2, NoncesStay
      <3> QED
        BY <2>1, <3>2 DEF SaleInv, CountedHolds, NoncesLostToOthers, Holds, Chain, Others
    <2> QED
      BY <2>2, <2>3, <2>4 DEF SaleInv
  <1> QED
    BY <1>1, <1>2, <1>3, <1>4, <1>5, <1>6, <1>7, <1>8, <1>9, <1>10, <1>11, <1>12, <1>13
    DEF SaleNext, PullStep

LEMMA SpecSaleInv == SaleSpec => []SaleInv
  BY InitSaleInv, NextSaleInv, PTL DEF SaleSpec

\* A buyer who got its file has its sale and its audit rows, and what an audit
\* row or SalesLog says of a sale is so, whatever failed or stopped on the way
\* (agent-sales.ts 42-43, route.ts 145-178).
THEOREM SpecSalesAccountedFor == SaleSpec => []SalesAccountedFor
  <1>1. SaleInv => SalesAccountedFor
    BY DEF SaleInv, PullsBehind, Recorded, RecordsAgree, SalesAccountedFor
  <1> QED
    BY <1>1, SpecSaleInv, PTL

\* Under the signer lock two sales of one process never meet on a nonce, for
\* any number of processes beside it (arc.ts 85-93).
THEOREM SpecLockKeepsSalesApart == SaleSpec => []LockKeepsSalesApart
  <1>1. SaleInv => LockKeepsSalesApart
    BY SaleFacts DEF SaleAssumption, SaleInv, NoncesLostToOthers, Others, LockKeepsSalesApart
  <1> QED
    BY <1>1, SpecSaleInv, PTL
-----------------------------------------------------------------------------
(* The promise of SaleBook                                                 *)

Taken == {<<p, pull[p].pay>> : p \in {q \in Pulls : pull[q].at # "idle"}}
Noted == {<<a, audits[a] # 0>> : a \in DOMAIN audits}
Handed == {<<p, pull[p].pay>> : p \in {q \in Pulls : pull[q].at = "answered"}}

\* A pull on its way takes nothing and keeps its payment; the file is handed
\* over when it is answered.
LEMMA OnePullSeen ==
  ASSUME SaleInv, NEW p \in Pulls, pull[p].at \notin {"idle", "answered"},
         NEW made \in PullRecords, pull' = [pull EXCEPT ![p] = made],
         made.pay = pull[p].pay, made.at # "idle"
  PROVE  /\ Taken' = Taken
         /\ Handed' = IF made.at = "answered" THEN Handed \cup {<<p, pull[p].pay>>} ELSE Handed
  <1>1. /\ pull'[p] = made
        /\ \A q \in Pulls \ {p} : pull'[q] = pull[q]
        /\ \A q \in Pulls : pull'[q].pay = pull[q].pay
    BY DEF SaleInv, SaleTypeOK
  <1>2. {q \in Pulls : pull'[q].at # "idle"} = {q \in Pulls : pull[q].at # "idle"}
    BY <1>1
  <1>3. {q \in Pulls : pull'[q].at = "answered"} =
          {q \in Pulls : pull[q].at = "answered"} \cup (IF made.at = "answered" THEN {p} ELSE {})
    BY <1>1
  <1>4. Taken' = Taken
    BY <1>1, <1>2 DEF Taken
  <1>5. Handed' = IF made.at = "answered" THEN Handed \cup {<<p, pull[p].pay>>} ELSE Handed
    BY <1>1, <1>3 DEF Handed
  <1> QED
    BY <1>4, <1>5

LEMMA MovesSeen ==
  ASSUME SaleInv, NEW p \in Pulls, pull[p].at \notin {"idle", "answered"},
         NEW stage \in PullStages \ {"idle"}, Move(p, stage)
  PROVE  /\ Taken' = Taken
         /\ Handed' = IF stage = "answered" THEN Handed \cup {<<p, pull[p].pay>>} ELSE Handed
  <1> PICK made : made = [pull[p] EXCEPT !.at = stage]
    OBVIOUS
  <1>1. /\ made \in PullRecords /\ made.at = stage /\ made.pay = pull[p].pay
        /\ pull' = [pull EXCEPT ![p] = made]
    BY PullsKnown DEF Move, PullRecords
  <1> QED
    BY <1>1, OnePullSeen

LEMMA SettleTakes ==
  ASSUME SaleInv, NEW p \in Pulls, NEW a \in Payments, Settle(p, a)
  PROVE  Book!Take(p, a)
  <1>1. /\ pull[p].at = "idle" /\ a \notin paid /\ UNCHANGED <<sales, audits, log>>
        /\ pull'[p].at = "settled" /\ pull'[p].pay = a
        /\ \A q \in Pulls \ {p} : pull'[q] = pull[q]
    BY DEF Settle, SaleInv, SaleTypeOK, PullRecords, ledger, chain
  <1>2. \A q \in Pulls : pull[q].at # "idle" => pull[q].pay # a
    BY <1>1, PullsKnown
  <1>3. Taken' = Taken \cup {<<p, a>>}
    BY <1>1 DEF Taken
  <1>4. \A entry \in Taken : entry[2] # a
    BY <1>2 DEF Taken
  <1>5. Handed' = Handed /\ Noted' = Noted
    BY <1>1 DEF Handed, Noted
  <1> QED
    BY <1>1, <1>3, <1>4, <1>5 DEF Book!Take, Taken, Handed, Noted

\* The sale row of a payment that was taken.
LEMMA RowWrites ==
  ASSUME SaleInv, NEW p \in Pulls, pull[p].at # "idle",
         sales' = sales \/ sales' = sales \cup {pull[p].pay},
         UNCHANGED log, Taken' = Taken, Noted' = Noted, Handed' = Handed
  PROVE  Book!Write(p, pull[p].pay) \/ UNCHANGED Book!vars
  <1>1. <<p, pull[p].pay>> \in Taken
    BY DEF Taken
  <1>2. CASE sales' = sales
    BY <1>2 DEF Book!vars, Taken, Handed, Noted
  <1>3. CASE sales' # sales
    <2>1. pull[p].pay \notin sales /\ sales' = sales \cup {pull[p].pay}
      BY <1>3
    <2> QED
      BY <1>1, <2>1 DEF Book!Write, Taken, Handed, Noted
  <1> QED
    BY <1>2, <1>3

\* The line of SalesLog of a sale that is written down.
LEMMA LandStates ==
  ASSUME SaleInv, NEW p \in Pulls, pull[p].at \in Recorded, UNCHANGED chain \/ Lands(p),
         UNCHANGED sales, Taken' = Taken, Noted' = Noted, Handed' = Handed
  PROVE  Book!State(pull[p].pay) \/ UNCHANGED Book!vars
  <1>1. pull[p].pay \in sales
    BY PullsKnown
  <1>2. CASE log' = log
    BY <1>2 DEF Book!vars, Taken, Handed, Noted
  <1>3. CASE pull[p].pay \notin Range(log) /\ log' = Append(log, pull[p].pay)
    BY <1>1, <1>3 DEF Book!State, Book!Range, Range, Taken, Handed, Noted
  <1> QED
    BY <1>2, <1>3, LandsAdds

\* The audit row of a sale that is written down.
LEMMA AuditNotes ==
  ASSUME SaleInv, NEW p \in Pulls, pull[p].at \in Recorded, NEW seq \in Nat,
         UNCHANGED audits \/ AuditRow(p, seq), seq # 0 => pull[p].pay \in Range(log),
         UNCHANGED <<sales, log>>, Taken' = Taken, Handed' = Handed
  PROVE  Book!Note(pull[p].pay, seq # 0) \/ UNCHANGED Book!vars
  <1> DEFINE a == pull[p].pay
  <1>1. a \in sales
    BY PullsKnown
  <1>2. CASE UNCHANGED audits
    BY <1>2 DEF Book!vars, Taken, Handed, Noted
  <1>3. CASE /\ a \notin DOMAIN audits /\ DOMAIN audits' = DOMAIN audits \cup {a}
             /\ audits'[a] = seq /\ \A b \in DOMAIN audits : audits'[b] = audits[b]
    <2>1. Noted' = Noted \cup {<<a, seq # 0>>} /\ \A note \in Noted : note[1] # a
      BY <1>3 DEF Noted
    <2> QED
      BY <1>1, <2>1 DEF Book!Note, Book!Range, Range, Taken, Handed, Noted
  <1> QED
    BY <1>2, <1>3, AuditRowAdds

LEMMA AnswerHandsOver ==
  ASSUME SaleInv, NEW p \in Pulls, Answer(p)
  PROVE  Book!HandOver(p, pull[p].pay)
  <1>1. /\ pull[p].at = "audited" /\ Move(p, "answered")
        /\ UNCHANGED <<paid, sales, audits, log>>
    BY DEF Answer, ledger, chain
  <1>2. Taken' = Taken /\ Handed' = Handed \cup {<<p, pull[p].pay>>}
    BY <1>1, MovesSeen DEF PullStages
  <1>3. <<p, pull[p].pay>> \in Taken
    BY <1>1 DEF Taken
  <1>4. <<pull[p].pay, audits[pull[p].pay] # 0>> \in Noted
    BY <1>1, PullsKnown DEF Noted
  <1>5. \E note \in Noted : note[1] = pull[p].pay
    BY <1>4
  <1>6. Noted' = Noted
    BY <1>1 DEF Noted
  <1> QED
    BY <1>1, <1>2, <1>3, <1>5, <1>6 DEF Book!HandOver, Taken, Handed, Noted

\* A step of the sale is at most one step of the book.
LEMMA SaleStepsBook ==
  ASSUME SaleInv, [SaleNext]_saleVars
  PROVE  [Book!Next]_Book!vars
  <1> USE DEF ledger, chain
  <1>1. CASE UNCHANGED <<sales, audits, log, pull>>
    BY <1>1 DEF Book!vars
  <1>2. ASSUME NEW p \in Pulls, NEW a \in Payments, Settle(p, a)
        PROVE  Book!Next
    BY <1>2, SettleTakes DEF Book!Next
  <1>3. ASSUME NEW p \in Pulls, RecordSale(p) \/ UncaughtFailure(p)
        PROVE  [Book!Next]_Book!vars
    <2>1. PICK stage \in {"recorded", "stopped"} :
            /\ Move(p, stage) /\ pull[p].at \in {"settled", "unlogged"}
            /\ UNCHANGED log
            /\ \/ UNCHANGED audits /\ (sales' = sales \/ sales' = sales \cup {pull[p].pay})
               \/ UNCHANGED sales /\ AuditRow(p, 0) /\ pull[p].at = "unlogged"
      BY <1>3 DEF RecordSale, UncaughtFailure
    <2>2. /\ Taken' = Taken /\ Handed' = Handed /\ pull[p].pay \in Payments
          /\ pull[p].at = "unlogged" => pull[p].at \in Recorded
      BY <2>1, MovesSeen, PullsKnown DEF PullStages, Recorded
    <2>3. CASE UNCHANGED audits /\ (sales' = sales \/ sales' = sales \cup {pull[p].pay})
      <3>1. Noted' = Noted
        BY <2>3 DEF Noted
      <3> QED
        BY <2>1, <2>2, <2>3, <3>1, RowWrites DEF Book!Next
    <2>4. CASE UNCHANGED sales /\ AuditRow(p, 0) /\ pull[p].at = "unlogged"
      <3>1. Book!Note(pull[p].pay, 0 # 0) \/ UNCHANGED Book!vars
        BY <2>1, <2>2, <2>4, AuditNotes
      <3> QED
        BY <2>2, <3>1 DEF Book!Next
    <2> QED
      BY <2>1, <2>3, <2>4
  <1>4. ASSUME NEW p \in Pulls, LogSale(p) \/ WriteFails(p)
        PROVE  [Book!Next]_Book!vars
    <2>1. PICK stage \in {"logged", "unlogged"} :
            /\ Move(p, stage) /\ pull[p].at \in {"queued", "counted"}
            /\ UNCHANGED <<sales, audits>> /\ (UNCHANGED chain \/ Lands(p))
      BY <1>4 DEF LogSale, WriteFails
    <2>2. /\ Taken' = Taken /\ Handed' = Handed /\ Noted' = Noted /\ pull[p].pay \in Payments
          /\ pull[p].at \in Recorded
      BY <2>1, MovesSeen, PullsKnown DEF PullStages, Recorded, Noted
    <2> QED
      BY <2>1, <2>2, LandStates DEF Book!Next
  <1>5. ASSUME NEW p \in Pulls, RecordAudit(p) \/ CaughtFailure(p)
        PROVE  [Book!Next]_Book!vars
    <2> PICK seq : seq = IF pull[p].at = "logged" THEN pull[p].seq ELSE 0
      OBVIOUS
    <2>1. PICK stage \in {"audited", "unlogged"} :
            /\ Move(p, stage) /\ pull[p].at \in {"recorded", "logged", "unlogged"}
            /\ UNCHANGED <<sales, log>> /\ (UNCHANGED audits \/ AuditRow(p, seq))
      BY <1>5 DEF RecordAudit, CaughtFailure
    <2>2. /\ Taken' = Taken /\ Handed' = Handed /\ pull[p].pay \in Payments
          /\ pull[p].at \in Recorded
          /\ seq \in Nat /\ (seq # 0 => pull[p].pay \in Range(log))
      BY <2>1, MovesSeen, PullsKnown DEF PullStages, Recorded, PullRecords
    <2>3. Book!Note(pull[p].pay, seq # 0) \/ UNCHANGED Book!vars
      BY <2>1, <2>2, AuditNotes
    <2> QED
      BY <2>2, <2>3 DEF Book!Next
  <1>6. ASSUME NEW p \in Pulls, Answer(p)
        PROVE  Book!Next
    <2>1. pull[p].pay \in Payments
      BY <1>6, PullsKnown DEF Answer
    <2>2. Book!HandOver(p, pull[p].pay)
      BY <1>6, AnswerHandsOver
    <2>3. \E a \in Payments : Book!HandOver(p, a)
      BY <2>1, <2>2 DEF Book!HandOver
    <2> QED
      BY <2>3 DEF Book!Next
  <1>7. ASSUME NEW p \in Pulls, Simulate(p) \/ TakeNonce(p)
        PROVE  UNCHANGED Book!vars
    <2>0. pull[p] \in PullRecords /\ Len(log) + 1 \in Nat /\ Len(sent) \in Nat
      BY PullsKnown
    <2>1. /\ pull[p].at \notin {"idle", "answered"} /\ UNCHANGED <<sales, audits, log>>
      BY <1>7 DEF Simulate, TakeNonce
    <2>2. PICK made \in PullRecords :
            /\ pull' = [pull EXCEPT ![p] = made] /\ made.pay = pull[p].pay
            /\ made.at \notin {"idle", "answered"}
      <3> DEFINE Moved(made) ==
            /\ made \in PullRecords /\ pull' = [pull EXCEPT ![p] = made]
            /\ made.pay = pull[p].pay /\ made.at \notin {"idle", "answered"}
      <3>1. CASE Simulate(p) /\ pull[p].pay \notin Range(log)
        <4>1. Moved([pull[p] EXCEPT !.at = "queued", !.seq = Len(log) + 1])
          BY <2>0, <3>1 DEF Simulate, PullRecords, PullStages
        <4> QED
          BY <4>1
      <3>2. CASE TakeNonce(p)
        <4>1. Moved([pull[p] EXCEPT !.at = "counted", !.nonce = Len(sent)])
          BY <2>0, <3>2 DEF TakeNonce, PullRecords, PullStages
        <4> QED
          BY <4>1
      <3>3. CASE Simulate(p) /\ pull[p].pay \in Range(log)
        <4>1. Moved([pull[p] EXCEPT !.at = "unlogged"])
          BY <2>0, <3>3 DEF Simulate, Move, PullRecords, PullStages
        <4> QED
          BY <4>1
      <3> QED
        BY <1>7, <3>1, <3>2, <3>3
    <2>3. Taken' = Taken /\ Handed' = Handed /\ Noted' = Noted
      BY <2>1, <2>2, OnePullSeen DEF Noted
    <2> QED
      BY <2>1, <2>3 DEF Book!vars, Taken, Handed, Noted
  <1>8. ASSUME NEW s \in Instances, ProcessStops(s)
        PROVE  UNCHANGED Book!vars
    <2> PICK cut : cut = {p \in Pulls : Instance[p] = s /\ pull[p].at \notin Served}
      OBVIOUS
    <2>1. /\ UNCHANGED <<paid, sales, audits, log>>
          /\ pull' = [p \in Pulls |-> IF p \in cut THEN [pull[p] EXCEPT !.at = "stopped"]
                                      ELSE pull[p]]
      BY <1>8 DEF ProcessStops
    <2>2. \A q \in Pulls : /\ pull'[q].pay = pull[q].pay
                           /\ pull'[q].at = "idle" <=> pull[q].at = "idle"
                           /\ pull'[q].at = "answered" <=> pull[q].at = "answered"
      BY <2>1, PullsKnown DEF Served, PullRecords
    <2>3. Taken' = Taken /\ Noted' = Noted /\ Handed' = Handed
      BY <2>1, <2>2 DEF Taken, Noted, Handed
    <2> QED
      BY <2>1, <2>3 DEF Book!vars, Taken, Handed, Noted
  <1>9. ASSUME NEW i \in Issues, CountIssue(i) \/ SendIssueTx(i)
        PROVE  UNCHANGED <<sales, audits, log, pull>>
    BY <1>9 DEF CountIssue, SendIssueTx
  <1> QED
    BY <1>1, <1>2, <1>3, <1>4, <1>5, <1>6, <1>7, <1>8, <1>9
    DEF SaleNext, PullStep, saleVars

\* A paid pull keeps the promise of SaleBook for any number of processes, pulls,
\* payments and writes beside them, whatever fails: a payment buys one file, a
\* file leaves with its rows written, no record is rewritten (route.ts 145-180).
THEOREM SpecImplementsSaleBook == SaleSpec => ImplementsSaleBook
  <1>1. SaleInit => Book!Init
    BY DEF SaleInit, Book!Init
  <1>2. SaleInv /\ [SaleNext]_saleVars => [Book!Next]_Book!vars
    BY SaleStepsBook
  <1> QED
    BY <1>1, <1>2, SpecSaleInv, PTL DEF SaleSpec, ImplementsSaleBook, Book!Spec
-----------------------------------------------------------------------------
(* The chain of the key                                                    *)

LEMMA TailLeaves ==
  ASSUME NEW S, NEW s \in Seq(S), s # <<>>, IsInjective(s)
  PROVE  Range(Tail(s)) = Range(s) \ {Head(s)} /\ IsInjective(Tail(s))
  <1>1. Tail(s) \in Seq(S)
    OBVIOUS
  <1>2. PICK t \in Seq(S) : t = Tail(s)
    BY <1>1, Zenon
  <1>3. /\ Len(s) \in Nat \ {0} /\ Head(s) = s[1] /\ Len(t) = Len(s) - 1
        /\ DOMAIN s = 1..Len(s) /\ DOMAIN t = 1..(Len(s) - 1)
        /\ \A n \in 1..(Len(s) - 1) : t[n] = s[n + 1]
    BY <1>2
  <1>4. \A n, m \in 1..Len(s) : s[n] = s[m] => n = m
    BY <1>3 DEF IsInjective
  <1>5. Range(t) = Range(s) \ {s[1]}
    <2>1. ASSUME NEW x \in Range(t) PROVE x \in Range(s) \ {s[1]}
      <3>1. PICK n \in 1..(Len(s) - 1) : x = s[n + 1]
        BY <1>3 DEF Range
      <3>2. n + 1 \in 1..Len(s) /\ n + 1 # 1 /\ 1 \in 1..Len(s)
        BY <1>3
      <3>3. s[n + 1] # s[1]
        BY <1>4, <3>2
      <3> QED
        BY <1>3, <3>1, <3>2, <3>3 DEF Range
    <2>2. ASSUME NEW x \in Range(s) \ {s[1]} PROVE x \in Range(t)
      <3>1. PICK n \in 1..Len(s) : x = s[n]
        BY <1>3 DEF Range
      <3>2. n - 1 \in 1..(Len(s) - 1) /\ (n - 1) + 1 = n
        BY <1>3, <2>2, <3>1
      <3>3. t[n - 1] = x
        BY <1>3, <3>1, <3>2
      <3> QED
        BY <1>3, <3>2, <3>3 DEF Range
    <2> QED
      BY <2>1, <2>2
  <1>6. IsInjective(t)
    <2>1. ASSUME NEW n \in 1..(Len(s) - 1), NEW m \in 1..(Len(s) - 1), t[n] = t[m] PROVE n = m
      <3>1. n + 1 \in 1..Len(s) /\ m + 1 \in 1..Len(s) /\ s[n + 1] = s[m + 1]
        BY <1>3, <2>1
      <3>2. n + 1 = m + 1
        BY <1>4, <3>1
      <3> QED
        BY <3>2
    <2> QED
      BY <1>3, <2>1 DEF IsInjective
  <1> QED
    BY <1>2, <1>3, <1>5, <1>6

Waits(p) == pull[p].at \in {"queued", "counted"}

ChainOf(s) ==
  /\ Range(queue[s]) = {p \in Pulls : Instance[p] = s /\ Waits(p)}
  /\ IsInjective(queue[s])

LEMMA NextChainNeverJams ==
  ASSUME SaleInv, ChainNeverJams, [SaleNext]_saleVars
  PROVE  ChainNeverJams'
  <1> USE DEF ledger, chain
  <1>0. /\ \A s \in Instances : ChainOf(s)
        /\ queue \in [Instances -> Seq(Pulls)] /\ pull \in [Pulls -> PullRecords]
        /\ \A p \in Pulls : Instance[p] \in Instances
    BY PullsKnown DEF ChainNeverJams, ChainOf, Waits, SaleInv, SaleTypeOK
  \* A step that leaves the chain and who waits in it alone.
  <1>1. ASSUME UNCHANGED queue, \A p \in Pulls : Waits(p)' = Waits(p) PROVE ChainNeverJams'
    BY <1>0, <1>1 DEF ChainNeverJams, ChainOf, Waits
  <1>2. ASSUME NEW p \in Pulls, ~ Waits(p), UNCHANGED queue,
               \E made \in PullRecords : /\ pull' = [pull EXCEPT ![p] = made]
                                         /\ made.at \notin {"queued", "counted"}
        PROVE  ChainNeverJams'
    <2>1. \A q \in Pulls : Waits(q)' = Waits(q)
      BY <1>0, <1>2 DEF Waits
    <2> QED
      BY <1>1, <1>2, <2>1
  \* A step that ends the write at the head.
  <1>3. ASSUME NEW p \in Pulls, Holds(p), Release(p),
               NEW stage, Move(p, stage), stage \notin {"queued", "counted"}
        PROVE  ChainNeverJams'
    <2>1. /\ Chain(p) # <<>> /\ Head(Chain(p)) = p /\ Chain(p) \in Seq(Pulls)
          /\ queue' = [queue EXCEPT ![Instance[p]] = Tail(Chain(p))]
      BY <1>0, <1>3 DEF Holds, Release, Chain
    <2>2. Range(Tail(Chain(p))) = Range(Chain(p)) \ {p} /\ IsInjective(Tail(Chain(p)))
      BY <1>0, <2>1, TailLeaves DEF Chain, ChainOf
    <2>3. \A q \in Pulls : Waits(q)' <=> Waits(q) /\ q # p
      BY <1>0, <1>3 DEF Waits, Move, PullRecords
    <2>4. ASSUME NEW s \in Instances PROVE ChainOf(s)'
      <3>1. CASE s = Instance[p]
        BY <1>0, <2>1, <2>2, <2>3, <3>1 DEF ChainOf, Chain
      <3>2. CASE s # Instance[p]
        BY <1>0, <2>1, <2>3, <3>2 DEF ChainOf
      <3> QED
        BY <3>1, <3>2
    <2> QED
      BY <2>4 DEF ChainNeverJams, ChainOf, Waits
  <1>4. ASSUME NEW p \in Pulls, NEW a \in Payments, Settle(p, a) PROVE ChainNeverJams'
    <2> DEFINE made == [pull[p] EXCEPT !.at = "settled", !.pay = a]
    <2>1. made \in PullRecords /\ made.at = "settled" /\ pull' = [pull EXCEPT ![p] = made]
      BY <1>0, <1>4 DEF Settle, PullRecords, PullStages
    <2>2. ~ Waits(p) /\ UNCHANGED queue
      BY <1>4 DEF Settle, Waits
    <2> HIDE DEF made
    <2> QED
      BY <1>2, <2>1, <2>2
  <1>5. ASSUME NEW p \in Pulls, NEW stage \in PullStages \ {"queued", "counted"}, Move(p, stage),
               ~ Waits(p), UNCHANGED queue
        PROVE  ChainNeverJams'
    <2> DEFINE made == [pull[p] EXCEPT !.at = stage]
    <2>1. made \in PullRecords /\ made.at = stage /\ pull' = [pull EXCEPT ![p] = made]
      BY <1>0, <1>5 DEF Move, PullRecords
    <2> HIDE DEF made
    <2> QED
      BY <1>2, <1>5, <2>1
  <1>6. ASSUME NEW p \in Pulls,
               RecordSale(p) \/ RecordAudit(p) \/ Answer(p) \/ CaughtFailure(p) \/ UncaughtFailure(p)
        PROVE  ChainNeverJams'
    BY <1>5, <1>6 DEF RecordSale, RecordAudit, Answer, CaughtFailure, UncaughtFailure, Waits, PullStages
  <1>7. ASSUME NEW p \in Pulls, Simulate(p) PROVE ChainNeverJams'
    <2>1. ~ Waits(p)
      BY <1>7 DEF Simulate, Waits
    <2>2. CASE pull[p].pay \in Range(log)
      BY <1>5, <1>7, <2>1, <2>2 DEF Simulate, PullStages
    <2>3. CASE pull[p].pay \notin Range(log)
      <3>1. /\ queue' = [queue EXCEPT ![Instance[p]] = Append(Chain(p), p)]
            /\ pull' = [pull EXCEPT ![p].at = "queued", ![p].seq = Len(log) + 1]
        BY <1>0, <1>7, <2>3 DEF Simulate, Chain
      <3>2. p \notin Range(Chain(p)) /\ IsInjective(Chain(p)) /\ Chain(p) \in Seq(Pulls)
        BY <1>0, <2>1 DEF Chain, ChainOf
      <3>3. /\ Range(Append(Chain(p), p)) = Range(Chain(p)) \cup {p}
            /\ IsInjective(Append(Chain(p), p))
        BY <3>2, LogGrows
      <3>4. \A q \in Pulls : Waits(q)' <=> Waits(q) \/ q = p
        BY <1>0, <3>1 DEF Waits, PullRecords
      <3>5. ASSUME NEW s \in Instances PROVE ChainOf(s)'
        <4>1. CASE s = Instance[p]
          BY <1>0, <3>1, <3>3, <3>4, <4>1 DEF ChainOf, Chain
        <4>2. CASE s # Instance[p]
          BY <1>0, <3>1, <3>4, <4>2 DEF ChainOf
        <4> QED
          BY <4>1, <4>2
      <3> QED
        BY <3>5 DEF ChainNeverJams, ChainOf, Waits
    <2> QED
      BY <2>2, <2>3
  <1>8. ASSUME NEW p \in Pulls, TakeNonce(p) PROVE ChainNeverJams'
    <2>1. \A q \in Pulls : Waits(q)' = Waits(q)
      BY <1>0, <1>8 DEF TakeNonce, Waits, PullRecords
    <2> QED
      BY <1>1, <1>8, <2>1 DEF TakeNonce
  <1>9. ASSUME NEW p \in Pulls, LogSale(p) PROVE ChainNeverJams'
    <2>1. Holds(p) /\ Release(p) /\ (Move(p, "logged") \/ Move(p, "unlogged"))
      BY <1>9, PullsKnown DEF LogSale
    <2> QED
      BY <1>3, <2>1
  <1>10. ASSUME NEW p \in Pulls, WriteFails(p) PROVE ChainNeverJams'
    BY <1>3, <1>10 DEF WriteFails
  <1>11. ASSUME NEW s \in Instances, ProcessStops(s) PROVE ChainNeverJams'
    <2> PICK cut : cut = {p \in Pulls : Instance[p] = s /\ pull[p].at \notin Served}
      OBVIOUS
    <2>1. /\ queue' = [queue EXCEPT ![s] = <<>>]
          /\ pull' = [p \in Pulls |-> IF p \in cut THEN [pull[p] EXCEPT !.at = "stopped"]
                                      ELSE pull[p]]
      BY <1>11 DEF ProcessStops
    <2>2. \A p \in Pulls : Waits(p)' <=> Waits(p) /\ Instance[p] # s
      BY <1>0, <2>1 DEF Waits, Served, PullRecords
    <2>3. Range(<<>>) = {} /\ IsInjective(<<>>)
      BY DEF Range, IsInjective
    <2>4. ASSUME NEW t \in Instances PROVE ChainOf(t)'
      <3>1. CASE t = s
        BY <1>0, <2>1, <2>2, <2>3, <3>1 DEF ChainOf
      <3>2. CASE t # s
        BY <1>0, <2>1, <2>2, <3>2 DEF ChainOf
      <3> QED
        BY <3>1, <3>2
    <2> QED
      BY <2>4 DEF ChainNeverJams, ChainOf, Waits
  <1>12. CASE UNCHANGED <<queue, pull>>
    BY <1>12 DEF ChainNeverJams
  <1>13. ASSUME NEW i \in Issues, CountIssue(i) \/ SendIssueTx(i) PROVE UNCHANGED <<queue, pull>>
    BY <1>13 DEF CountIssue, SendIssueTx
  <1> QED
    BY <1>4, <1>6, <1>7, <1>8, <1>9, <1>10, <1>11, <1>12, <1>13
    DEF SaleNext, PullStep, saleVars

\* Whatever fails or stops, the chain of the signer key in a process is its
\* pulls with a write to make, each once: nobody waits behind a request that ended (arc.ts
\* 85-93). With it, that every pull ends is left to the platform running it.
THEOREM SpecChainNeverJams == SaleSpec => []ChainNeverJams
  <1>1. SaleInit => ChainNeverJams
    <2>1. Range(<<>>) = {} /\ IsInjective(<<>>)
      BY DEF Range, IsInjective
    <2> QED
      BY <2>1 DEF SaleInit, ChainNeverJams
  <1>2. SaleInv /\ ChainNeverJams /\ [SaleNext]_saleVars => ChainNeverJams'
    BY NextChainNeverJams
  <1> QED
    BY <1>1, <1>2, SpecSaleInv, PTL DEF SaleSpec
=============================================================================
