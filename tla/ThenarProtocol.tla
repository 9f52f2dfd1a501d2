--------------------------- MODULE ThenarProtocol ---------------------------
(***************************************************************************)
(* The ThenarProtocol contract (contracts/src/ThenarProtocol.sol): tasks   *)
(* funded in USDC, verified runs paid from a task's escrow in the call     *)
(* that records them, policies minted from filled tasks with a frozen cap  *)
(* table, and licences whose fee is split over that table.                 *)
(*                                                                         *)
(* A transaction is one action: it either runs to its end or reverts and   *)
(* leaves nothing behind, so a `revert` of the source is a guard here.     *)
(* USDC is external: its balances, and Circle's blocklist, which refuses   *)
(* any transfer to or from a listed address.                               *)
(***************************************************************************)
EXTENDS SlotShards, Sequences, FiniteSets

CONSTANTS
  Accounts,           \* addresses that fund, contribute to and license tasks
  Treasury,           \* where the protocol fee goes
  Protocol,           \* the contract's own address
  Hashes,             \* trajectory hashes (run ids)
  Keccak,             \* keccak256(taskId, who), as a natural number
  Supply,             \* USDC each account starts with
  MAX_SCORE, ACCEPT_FLOOR, RUNS_PER_ACCOUNT, MAX_CONTRIBUTORS,
  PROTOCOL_FEE_BPS, BPS,
  MaxTaskEscrow

CONSTANTS             \* what callers pass in, and the bounds of an instance
  SlotCounts, Rewards, Amounts, Deadlines, Scores, Fees,
  Blockable,          \* the addresses Circle may list
  MaxTasks, MaxLicences, MaxTime

TaskIds == 0 .. (MaxTasks - 1)
Holders == Accounts \cup {Treasury}
ShardIds == 0 .. (MAX_SHARDS - 1)

ASSUME ProtocolAssumption ==
  /\ IsFiniteSet(Accounts)
  /\ Protocol \notin Holders
  /\ Keccak \in [TaskIds \X Accounts -> Nat]
  /\ Supply \in [Accounts -> Nat]
  /\ MAX_SCORE \in Nat \ {0} /\ ACCEPT_FLOOR \in 1 .. MAX_SCORE
  /\ RUNS_PER_ACCOUNT \in Nat \ {0} /\ MAX_CONTRIBUTORS \in Nat \ {0}
  /\ BPS \in Nat \ {0} /\ PROTOCOL_FEE_BPS \in 0 .. BPS
  /\ MaxTaskEscrow \in Nat
  /\ SlotCounts \subseteq Nat /\ Rewards \subseteq Nat /\ Amounts \subseteq Nat
  /\ Deadlines \subseteq Nat /\ Scores \subseteq Nat /\ Fees \subseteq Nat
  /\ Blockable \subseteq Holders
  /\ MaxTasks \in Nat /\ MaxLicences \in Nat /\ MaxTime \in Nat

VARIABLES
  now,                \* block.timestamp
  usdc,               \* USDC balances (external)
  blocked,            \* Circle's blocklist (external)
  taskCount,          \* _tasks.length
  tasks,              \* _tasks: storage of every id, zero until it is pushed
  shardFilled,        \* _shardFilled
  runsOnTask,         \* runsOnTask
  weightOnTask,       \* weightOnTask: the sum of scores
  taskContributors,   \* _taskContributors
  taskTrajectories,   \* _taskTrajectories
  trajectories,       \* _trajectories; trajectory id is the index minus one
  trajectoryOfHash,   \* _trajectoryOfHash: id + 1, or 0; and trajectoryUsed
  byContributor,      \* _byContributor
  stats,              \* totalRuns, totalEarned, totalScore
  policies,           \* _policies with _capTable, _capWeight, _capTotal, licensed
  policyOfTask,       \* _policyOfTask: id + 1, or 0
  claimable,          \* claimable
  claimableTotal      \* claimableTotal

taskVars == <<taskCount, tasks, shardFilled>>
runVars == <<runsOnTask, weightOnTask, taskContributors, taskTrajectories,
             trajectories, trajectoryOfHash, byContributor, stats>>
policyVars == <<policies, policyOfTask>>
moneyVars == <<usdc, claimable, claimableTotal>>
vars == <<now, blocked, taskVars, runVars, policyVars, moneyVars>>

-----------------------------------------------------------------------------
(* Storage                                                                 *)

Task == [funder : Accounts \cup {Protocol}, reward : Nat, escrow : Nat,
         slotsTotal : Nat, expiresAt : Nat, policyMinted : BOOLEAN, closed : BOOLEAN]

(* Solidity storage nobody wrote: every field zero.  The zero address is   *)
(* written as the contract's own, which no transaction comes from.         *)
EmptyTask == [funder |-> Protocol, reward |-> 0, escrow |-> 0, slotsTotal |-> 0,
              expiresAt |-> 0, policyMinted |-> FALSE, closed |-> FALSE]

Trajectory == [taskId : TaskIds, contributor : Accounts, trajHash : Hashes,
               score : Nat, paid : Nat]

Policy == [taskId : TaskIds, minter : Accounts, licenceFee : Nat,
           licencesSold : Nat, distributed : Nat, licensed : SUBSET Accounts,
           capTable : Seq(Accounts), capWeight : [Accounts -> Nat], capTotal : Nat]

Init ==
  /\ now = 1
  /\ usdc = [a \in Holders \cup {Protocol} |-> IF a \in Accounts THEN Supply[a] ELSE 0]
  /\ blocked = {}
  /\ taskCount = 0
  /\ tasks = [t \in TaskIds |-> EmptyTask]
  /\ shardFilled = [t \in TaskIds |-> [s \in ShardIds |-> 0]]
  /\ runsOnTask = [t \in TaskIds |-> [a \in Accounts |-> 0]]
  /\ weightOnTask = [t \in TaskIds |-> [a \in Accounts |-> 0]]
  /\ taskContributors = [t \in TaskIds |-> <<>>]
  /\ taskTrajectories = [t \in TaskIds |-> <<>>]
  /\ trajectories = <<>>
  /\ trajectoryOfHash = [h \in Hashes |-> 0]
  /\ byContributor = [a \in Accounts |-> <<>>]
  /\ stats = [a \in Accounts |-> [runs |-> 0, earned |-> 0, score |-> 0]]
  /\ policies = <<>>
  /\ policyOfTask = [t \in TaskIds |-> 0]
  /\ claimable = [a \in Holders |-> 0]
  /\ claimableTotal = 0

-----------------------------------------------------------------------------
(* Moving USDC                                                             *)

(* safeTransferFrom(from, this, amount): reverts unless Circle's USDC      *)
(* moves the whole amount.                                                 *)
CanPay(from, amount) == from \notin blocked /\ usdc[from] >= amount

Pull(from, amount) ==
  /\ CanPay(from, amount)
  /\ usdc' = [usdc EXCEPT ![from] = @ - amount, ![Protocol] = @ + amount]

(* _send: a push that Circle refuses becomes a claim instead of a revert.  *)
Send_Lossy(to, amount) ==
  /\ usdc' = IF to \notin blocked
             THEN [usdc EXCEPT ![Protocol] = @ - amount, ![to] = @ + amount] ELSE usdc
  /\ UNCHANGED <<claimable, claimableTotal>>

Send_Untotalled(to, amount) ==
  /\ usdc' = IF to \notin blocked
             THEN [usdc EXCEPT ![Protocol] = @ - amount, ![to] = @ + amount] ELSE usdc
  /\ claimable' = IF to \in blocked THEN [claimable EXCEPT ![to] = @ + amount] ELSE claimable
  /\ UNCHANGED claimableTotal

Send(to, amount) ==
  IF to \notin blocked /\ usdc[Protocol] >= amount
  THEN /\ usdc' = [usdc EXCEPT ![Protocol] = @ - amount, ![to] = @ + amount]
       /\ UNCHANGED <<claimable, claimableTotal>>
  ELSE /\ claimable' = [claimable EXCEPT ![to] = @ + amount]
       /\ claimableTotal' = claimableTotal + amount
       /\ UNCHANGED usdc

-----------------------------------------------------------------------------
(* Tasks                                                                   *)

Exists(t) == t < taskCount

FilledOf(t) == SlotsFilledOf(shardFilled[t], tasks[t].slotsTotal)

Expired(t) == tasks[t].expiresAt # 0 /\ now >= tasks[t].expiresAt

(* createTask (expiresAt 0), createTaskUntil, and createTaskWithAuthorization, *)
(* whose relayer moves the same dollars of the funder who signed for them.     *)
CreateTask(funder, slots, reward, expiresAt, amount) ==
  /\ taskCount < MaxTasks
  /\ slots # 0 /\ reward # 0
  /\ amount >= reward /\ amount <= MaxTaskEscrow
  /\ tasks' = [tasks EXCEPT ![taskCount] =
                 [funder |-> funder, reward |-> reward, escrow |-> amount,
                  slotsTotal |-> slots, expiresAt |-> expiresAt,
                  policyMinted |-> FALSE, closed |-> FALSE]]
  /\ taskCount' = taskCount + 1
  /\ Pull(funder, amount)
  /\ UNCHANGED <<now, blocked, shardFilled, runVars, policyVars, claimable, claimableTotal>>

TakesFunds_EvenClosed(t) == ~ tasks[t].policyMinted
TakesFunds(t) == ~ tasks[t].closed /\ ~ tasks[t].policyMinted

FundTask(from, t, amount) ==
  /\ Exists(t)
  /\ amount # 0
  /\ TakesFunds(t)
  /\ tasks[t].escrow + amount <= MaxTaskEscrow
  /\ tasks' = [tasks EXCEPT ![t].escrow = @ + amount]
  /\ Pull(from, amount)
  /\ UNCHANGED <<now, blocked, taskCount, shardFilled, runVars, policyVars,
                 claimable, claimableTotal>>

(* Called by the funder.                                                   *)
CloseTask(t) ==
  /\ Exists(t)
  /\ ~ tasks[t].closed
  /\ Expired(t) \/ FilledOf(t) >= tasks[t].slotsTotal
  /\ tasks' = [tasks EXCEPT ![t].escrow = 0, ![t].closed = TRUE]
  /\ Send(tasks[t].funder, tasks[t].escrow)
  /\ UNCHANGED <<now, blocked, taskCount, shardFilled, runVars, policyVars>>

-----------------------------------------------------------------------------
(* Runs                                                                    *)

ShardOf(t, who) == Keccak[t, who] % ShardsFor(tasks[t].slotsTotal)

(* The counter a run is booked on: the operator's own, or the first with room. *)
ShardFor(t, who) ==
  LET own == ShardOf(t, who)
  IN  IF HasRoom(shardFilled[t], tasks[t].slotsTotal, own)
      THEN own
      ELSE AnyShardWithRoom(shardFilled[t], tasks[t].slotsTotal)

Payout(t, score) == (tasks[t].reward * score) \div MAX_SCORE

AcceptsRuns_AfterDeadline(t) == ~ tasks[t].policyMinted /\ ~ tasks[t].closed
AcceptsRuns(t) == ~ tasks[t].policyMinted /\ ~ tasks[t].closed /\ ~ Expired(t)

TrajectoryUsed(h) == trajectoryOfHash[h] # 0

IsNewContributor_EveryRun(t, who) == TRUE
IsNewContributor(t, who) == weightOnTask[t][who] = 0

WithRun_Overwritten(st, paid, score) == [runs |-> st.runs + 1, earned |-> paid, score |-> score]
WithRun(st, paid, score) == [runs |-> st.runs + 1, earned |-> st.earned + paid,
                             score |-> st.score + score]

(* _record, reached from submitTrajectory, submitTrajectoryFor and         *)
(* submitTrajectoryWithPasskey once the verifier's signature over exactly  *)
(* (t, who, h, score) checked out.                                         *)
SubmitTrajectory(t, who, h, score) ==
  /\ Exists(t)
  /\ score \in ACCEPT_FLOOR .. MAX_SCORE
  /\ AcceptsRuns(t)
  /\ runsOnTask[t][who] < RUNS_PER_ACCOUNT
  /\ ~ TrajectoryUsed(h)
  /\ \E s \in Shards(tasks[t].slotsTotal) : HasRoom(shardFilled[t], tasks[t].slotsTotal, s)
  /\ Payout(t, score) <= tasks[t].escrow
  /\ IsNewContributor(t, who) => Len(taskContributors[t]) < MAX_CONTRIBUTORS
  /\ tasks' = [tasks EXCEPT ![t].escrow = @ - Payout(t, score)]
  /\ shardFilled' = [shardFilled EXCEPT ![t][ShardFor(t, who)] = @ + 1]
  /\ runsOnTask' = [runsOnTask EXCEPT ![t][who] = @ + 1]
  /\ taskContributors' = IF IsNewContributor(t, who)
                         THEN [taskContributors EXCEPT ![t] = Append(@, who)]
                         ELSE taskContributors
  /\ weightOnTask' = [weightOnTask EXCEPT ![t][who] = @ + score]
  /\ trajectories' = Append(trajectories,
                       [taskId |-> t, contributor |-> who, trajHash |-> h,
                        score |-> score, paid |-> Payout(t, score)])
  /\ trajectoryOfHash' = [trajectoryOfHash EXCEPT ![h] = Len(trajectories) + 1]
  /\ taskTrajectories' = [taskTrajectories EXCEPT ![t] = Append(@, Len(trajectories))]
  /\ byContributor' = [byContributor EXCEPT ![who] = Append(@, Len(trajectories))]
  /\ stats' = [stats EXCEPT ![who] = WithRun(@, Payout(t, score), score)]
  /\ Send(who, Payout(t, score))
  /\ UNCHANGED <<now, blocked, taskCount, policyVars>>

-----------------------------------------------------------------------------
(* Policies and licences                                                   *)

(* Called by the funder.  A closed task may still be minted.               *)
MintPolicy(t, fee) ==
  /\ Exists(t)
  /\ FilledOf(t) >= tasks[t].slotsTotal
  /\ ~ tasks[t].policyMinted
  /\ tasks' = [tasks EXCEPT ![t].policyMinted = TRUE]
  /\ policyOfTask' = [policyOfTask EXCEPT ![t] = Len(policies) + 1]
  /\ LET cs == taskContributors[t]
     IN  policies' = Append(policies,
           [taskId |-> t, minter |-> tasks[t].funder, licenceFee |-> fee,
            licencesSold |-> 0, distributed |-> 0, licensed |-> {},
            capTable |-> cs,
            capWeight |-> [a \in Accounts |->
                             IF a \in Range(cs) THEN weightOnTask[t][a] ELSE 0],
            capTotal |-> SumFunctionOnSet([i \in DOMAIN cs |-> weightOnTask[t][cs[i]]],
                                          DOMAIN cs)])
  /\ UNCHANGED <<now, blocked, taskCount, shardFilled, runVars, moneyVars>>

ProtocolFee(amount) == (amount * PROTOCOL_FEE_BPS) \div BPS

Pool(p) == p.licenceFee - ProtocolFee(p.licenceFee)

(* What each entry of the cap table is paid for one licence.               *)
Cuts_RoundedUp(p) == [i \in DOMAIN p.capTable |->
              (Pool(p) * p.capWeight[p.capTable[i]] + p.capTotal - 1) \div p.capTotal]
Cuts(p) == [i \in DOMAIN p.capTable |->
              (Pool(p) * p.capWeight[p.capTable[i]]) \div p.capTotal]

Handed(p) == SumFunctionOnSet(Cuts(p), DOMAIN p.capTable)

(* Everything one licence sends to `a`: its cuts and, for the treasury,    *)
(* the fee and the dust the divisions left.                                *)
Due_DustKept(p, a) ==
  SumFunctionOnSet([i \in DOMAIN p.capTable |->
                      IF p.capTable[i] = a THEN Cuts(p)[i] ELSE 0], DOMAIN p.capTable)
  + IF a = Treasury THEN ProtocolFee(p.licenceFee) ELSE 0

Due(p, a) ==
  SumFunctionOnSet([i \in DOMAIN p.capTable |->
                      IF p.capTable[i] = a THEN Cuts(p)[i] ELSE 0], DOMAIN p.capTable)
  + IF a = Treasury THEN ProtocolFee(p.licenceFee) + (Pool(p) - Handed(p)) ELSE 0

WithLicence(p, licensee) ==
  [p EXCEPT !.licencesSold = @ + 1, !.distributed = @ + Handed(p),
            !.licensed = @ \cup {licensee}]

(* licensePolicy (licensee = buyer) and licensePolicyFor.  The sends add up *)
(* to what was just pulled in, so none can fail for want of balance: each   *)
(* fails exactly when its payee is blocklisted.                             *)
LicensePolicy(id, buyer, licensee) ==
  LET p == policies[id]
      due == [a \in Holders |-> Due(p, a)]
      paid == [a \in Holders |-> IF a \in blocked THEN 0 ELSE due[a]]
      deferred == [a \in Holders |-> IF a \in blocked THEN due[a] ELSE 0]
  IN  /\ p.capTotal # 0
      /\ p.licencesSold < MaxLicences
      /\ Handed(p) <= Pool(p)
      /\ CanPay(buyer, p.licenceFee)
      /\ policies' = [policies EXCEPT ![id] = WithLicence(@, licensee)]
      /\ usdc' = [a \in DOMAIN usdc |->
                    IF a = Protocol
                    THEN usdc[a] + p.licenceFee - SumFunctionOnSet(paid, Holders)
                    ELSE usdc[a] + paid[a] - (IF a = buyer THEN p.licenceFee ELSE 0)]
      /\ claimable' = [a \in Holders |-> claimable[a] + deferred[a]]
      /\ claimableTotal' = claimableTotal + SumFunctionOnSet(deferred, Holders)
      /\ UNCHANGED <<now, blocked, taskVars, runVars, policyOfTask>>

\* Mutant: what was claimed is not struck out.
Claim_NotZeroed(a) ==
  /\ claimable[a] # 0
  /\ a \notin blocked /\ usdc[Protocol] >= claimable[a]
  /\ usdc' = [usdc EXCEPT ![Protocol] = @ - claimable[a], ![a] = @ + claimable[a]]
  /\ claimableTotal' = claimableTotal - claimable[a]
  /\ UNCHANGED <<now, blocked, claimable, taskVars, runVars, policyVars>>

Claim(a) ==
  /\ claimable[a] # 0
  /\ a \notin blocked /\ usdc[Protocol] >= claimable[a]
  /\ usdc' = [usdc EXCEPT ![Protocol] = @ - claimable[a], ![a] = @ + claimable[a]]
  /\ claimable' = [claimable EXCEPT ![a] = 0]
  /\ claimableTotal' = claimableTotal - claimable[a]
  /\ UNCHANGED <<now, blocked, taskVars, runVars, policyVars>>

-----------------------------------------------------------------------------
(* The chain around the contract: blocks pass, and Circle edits its list.  *)

Tick ==
  /\ now < MaxTime
  /\ now' = now + 1
  /\ UNCHANGED <<blocked, taskVars, runVars, policyVars, moneyVars>>

Blocklist(a) ==
  /\ blocked' = IF a \in blocked THEN blocked \ {a} ELSE blocked \cup {a}
  /\ UNCHANGED <<now, taskVars, runVars, policyVars, moneyVars>>

Next ==
  \/ \E f \in Accounts, n \in SlotCounts, r \in Rewards, d \in Deadlines, x \in Amounts :
        CreateTask(f, n, r, d, x)
  \/ \E f \in Accounts, t \in TaskIds, x \in Amounts : FundTask(f, t, x)
  \/ \E t \in TaskIds : CloseTask(t)
  \/ \E t \in TaskIds, a \in Accounts, h \in Hashes, s \in Scores : SubmitTrajectory(t, a, h, s)
  \/ \E t \in TaskIds, fee \in Fees : MintPolicy(t, fee)
  \/ \E id \in DOMAIN policies, b \in Accounts, l \in Accounts : LicensePolicy(id, b, l)
  \/ \E a \in Holders : Claim(a)
  \/ Tick
  \/ \E a \in Blockable : Blocklist(a)

Spec == Init /\ [][Next]_vars

-----------------------------------------------------------------------------
(* Properties                                                              *)

(* Every variable keeps the shape its declaration in the contract gives it. *)
TypeOK ==
  /\ now \in Nat
  /\ usdc \in [Holders \cup {Protocol} -> Nat]
  /\ blocked \subseteq Holders
  /\ taskCount \in 0 .. MaxTasks
  /\ tasks \in [TaskIds -> Task]
  /\ shardFilled \in [TaskIds -> [ShardIds -> Nat]]
  /\ runsOnTask \in [TaskIds -> [Accounts -> Nat]]
  /\ weightOnTask \in [TaskIds -> [Accounts -> Nat]]
  /\ taskContributors \in [TaskIds -> Seq(Accounts)]
  /\ taskTrajectories \in [TaskIds -> Seq(Nat)]
  /\ trajectories \in Seq(Trajectory)
  /\ trajectoryOfHash \in [Hashes -> Nat]
  /\ byContributor \in [Accounts -> Seq(Nat)]
  /\ stats \in [Accounts -> [runs : Nat, earned : Nat, score : Nat]]
  /\ policies \in Seq(Policy)
  /\ policyOfTask \in [TaskIds -> Nat]
  /\ claimable \in [Holders -> Nat]
  /\ claimableTotal \in Nat

(* What runs satisfying `Counts` add up to, read off the log of every run.  *)
RunSum(Counts(_), Value(_)) ==
  SumFunctionOnSet([i \in DOMAIN trajectories |->
                      IF Counts(trajectories[i]) THEN Value(trajectories[i]) ELSE 0],
                   DOMAIN trajectories)

TotalEscrow == SumFunctionOnSet([t \in TaskIds |-> tasks[t].escrow], TaskIds)

(* The contract holds exactly the escrow of every task plus every deferred  *)
(* payment: no task is paid from another's dollars or from a claimant's,    *)
(* and no dollar is left that nobody can withdraw.                          *)
Solvent == usdc[Protocol] = TotalEscrow + claimableTotal

(* claimableTotal is kept beside the mapping it totals, and never drifts.   *)
ClaimsAddUp == claimableTotal = SumFunctionOnSet(claimable, Holders)

(* However runs are spread over the shards, a task never takes more of them *)
(* than it has slots, and its counters together count its runs.             *)
SlotsNeverOversold ==
  \A t \in TaskIds : /\ FilledOf(t) <= tasks[t].slotsTotal
                     /\ FilledOf(t) = Len(taskTrajectories[t])

(* NoSlots is raised only for a task that is really full: as long as one    *)
(* slot is free the fallback finds the shard that has it.                   *)
RoomWhileUnfilled ==
  \A t \in TaskIds : FilledOf(t) < tasks[t].slotsTotal <=>
     \E s \in Shards(tasks[t].slotsTotal) : HasRoom(shardFilled[t], tasks[t].slotsTotal, s)

(* A run is paid once however it is resubmitted, for another task or by     *)
(* another operator, and its hash resolves to the record that was paid.     *)
RunsPaidOnce ==
  \A i \in DOMAIN trajectories : trajectoryOfHash[trajectories[i].trajHash] = i

(* The aggregates the contract keeps beside the log agree with it: a task's *)
(* weights, and what each operator is said to have earned and scored.       *)
BooksAgree ==
  \A a \in Accounts :
    /\ stats[a].earned = RunSum(LAMBDA r : r.contributor = a, LAMBDA r : r.paid)
    /\ stats[a].score = RunSum(LAMBDA r : r.contributor = a, LAMBDA r : r.score)
    /\ stats[a].runs = Len(byContributor[a])
    /\ \A t \in TaskIds :
         weightOnTask[t][a] = RunSum(LAMBDA r : r.taskId = t /\ r.contributor = a,
                                     LAMBDA r : r.score)

(* The table every licence pays is the score each contributor had earned on *)
(* the task, nobody twice and nobody missing, and no later run changes it.  *)
CapTableIsTheRuns ==
  \A id \in DOMAIN policies :
    LET p == policies[id]
    IN  /\ policyOfTask[p.taskId] = id
        /\ \A i, j \in DOMAIN p.capTable : p.capTable[i] = p.capTable[j] => i = j
        /\ \A a \in Accounts :
             p.capWeight[a] = RunSum(LAMBDA r : r.taskId = p.taskId /\ r.contributor = a,
                                     LAMBDA r : r.score)
        /\ p.capTotal = RunSum(LAMBDA r : r.taskId = p.taskId, LAMBDA r : r.score)

(* A licence never hands out more than was paid for it, what the divisions  *)
(* leave is less than one unit per contributor, and a policy has handed out *)
(* the same split for every licence it sold.                                *)
LicenceSplits ==
  \A id \in DOMAIN policies :
    LET p == policies[id]
    IN  /\ p.capTotal # 0
        /\ Handed(p) <= Pool(p)
        /\ Pool(p) - Handed(p) < Len(p.capTable)
        /\ p.distributed = p.licencesSold * Handed(p)

(* What a policy's licences brought in and its contributors were not given. *)
LeftOver(p) == p.licencesSold * p.licenceFee - p.distributed

(* A dollar paid for a licence is its contributors' or the treasury's: over *)
(* all licences, whether paid out, deferred or claimed since, the treasury  *)
(* got what `distributed` does not account for, and nothing from elsewhere. *)
TreasuryHasTheRest ==
  usdc[Treasury] + claimable[Treasury]
    = SumFunctionOnSet([id \in DOMAIN policies |-> LeftOver(policies[id])], DOMAIN policies)

(* In hand or deferred, `a` has `amount` more after the step.               *)
Credited(a, amount) == usdc'[a] + claimable'[a] = usdc[a] + claimable[a] + amount

(* A task's escrow falls only by the price of one run recorded on that very *)
(* task, credited to its contributor, or to zero, credited to its funder,   *)
(* when the task closes.                                                    *)
EscrowSpentOnOwnTask ==
  [][\A t \in TaskIds : tasks'[t].escrow < tasks[t].escrow =>
       LET spent == tasks[t].escrow - tasks'[t].escrow
       IN  \/ /\ ~ tasks[t].closed /\ tasks'[t].closed /\ tasks'[t].escrow = 0
              /\ Credited(tasks[t].funder, spent)
           \/ /\ Len(trajectories') = Len(trajectories) + 1
              /\ LET run == trajectories'[Len(trajectories')]
                 IN  /\ run.taskId = t /\ run.paid = spent
                     /\ Credited(run.contributor, spent)]_vars

(* Closing is final: a closed task holds nothing again, takes no run again, *)
(* and does not reopen.                                                     *)
ClosedForGood ==
  [][\A t \in TaskIds : tasks[t].closed =>
       /\ tasks'[t].closed /\ tasks'[t].escrow = 0
       /\ taskTrajectories'[t] = taskTrajectories[t]]_vars

(* A task keeps the promise of BountyBook with its slot count spread over   *)
(* shards: what the book calls `taken` is the sum of the counters.          *)
Bounties == INSTANCE BountyBook WITH
  PlaceCounts <- SlotCounts,
  MaxPot <- MaxTaskEscrow,
  pot <- [t \in TaskIds |-> tasks[t].escrow],
  places <- [t \in TaskIds |-> tasks[t].slotsTotal],
  taken <- [t \in TaskIds |-> FilledOf(t)],
  open <- {t \in TaskIds : Exists(t) /\ ~ tasks[t].closed /\ ~ tasks[t].policyMinted},
  book <- {<<r.trajHash, r.taskId, r.contributor, r.paid>> : r \in Range(trajectories)}

ImplementsBountyBook == Bounties!Spec

(* To the server's routes a task is what TaskOnArc says: a run is recorded  *)
(* only while it is neither closed nor minted nor past its deadline and has *)
(* a slot left, and none of that ever comes back.                           *)
Seen == INSTANCE TaskOnArc WITH
  slots <- [t \in TaskIds |-> tasks[t].slotsTotal],
  takes <- {t \in TaskIds : Exists(t) /\ ~ (tasks[t].closed \/ tasks[t].policyMinted \/ Expired(t))},
  recorded <- [t \in TaskIds |->
                 {r.trajHash : r \in {r \in Range(trajectories) : r.taskId = t}}]

ImplementsTaskOnArc == Seen!Spec
=============================================================================
