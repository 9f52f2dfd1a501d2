# Thenar, specified in TLA+

Thenar (Next.js app and Solidity contracts on Arc) pays people for driving a
robot arm. A sponsor posts a *task* with USDC in escrow; an operator records a
run; a verifier signs a score for it; the contract pays the run out of the
task's escrow in the call that records it. A filled task is minted as a
*policy*; each licence sold on it is split over the people who drove it. Beside
the protocol contract stand a token of corpus shares, a cross-chain licence
desk, an agent-facing corpus shop and several ledgers of claims.

Everything here is a translation of the source under `src/`; `PROJECT.json`
maps each definition to the lines it stands for.

## 1. The parts of the system

| part | state it keeps | operations | talks to |
|---|---|---|---|
| `ThenarProtocol.sol` | tasks with escrow, slot counters, the log of runs, books per operator, policies with a frozen cap table, claims | create, fund, close a task; submit a run (direct, relayed, passkey); mint; license; claim | USDC, verifier key, `PasskeyRegistry`, `ThenarVerdicts` |
| `ccip/*.sol` | orders, failed messages, credits owed, totals | buy on the source chain; receive, retry, resolve, execute, cancel, withdraw, sweep on Arc | CCTP, CCIP, `ThenarProtocol` |
| `CorpusShares.sol` | control list, balances, checkpoints, dividends | admit, issue, transfer, declare, claim, reclaim | USDC, the issuer server |
| verify / sign / submitted / reconcile routes | the `trajectory` and `token_event` tables | score and sign a run, mark it settled, issue its shares, hold rows to the chain | store, verifier key, `ThenarProtocol`, `CorpusShares` |
| `mongo-sql.ts` | one versioned snapshot document | read; write by compare-and-swap | MongoDB |
| agent corpus route, x402 facilitator, `SalesLog.sol` | sale and audit rows, the log on Arc | settle a payment, record, log, audit, serve the file | USDC, store, `SalesLog` |
| `arc.ts` | a promise chain per key, in the memory of each process | order the writes of one key | every on-chain write of the server |
| `CorpusManifest.sol`, `CorpusAudit.sol`, `keeper.mjs` | committed roots, newest finding per task | commit, audit passes, execute pending orders | public API, `ccip` receiver |
| `PasskeyRegistry`, `ThenarVerdicts`, `TrajectoryCertificate`, `ContributionRecord` | small ledgers | bind, record, mint, sync | `ThenarProtocol` |
| the station page, `run-draft.ts`, `submit.ts`, `operator-gate.tsx` | the run and the card in one tab, a draft in session storage | draw an object, drive, measure, submit, pick up a draft, pass the passkey step | the routes, the wallet, `ThenarProtocol` |
| `arm-relay.mjs`, `arm-link.tsx`, the follower's firmware | whether the follower is armed, as the relay believes and as it is | mirror, stop, arm, watch the stream | sockets, two serial ports |
| scoring, kinematics, other pages, scripts | none that outlives a request | | |

What is hard in it:

* **Money moving while payees are refused.** Circle can blocklist any address at
  any block; a push that fails must turn into a claim, in the middle of a split.
* **Sharded counters.** Slots are spread over counters so that operators rarely
  meet; the sum of the counters is never stored.
* **Books kept twice.** Weights, totals and index lists are updated beside the
  log they summarise, and are frozen into a cap table at a moment anyone may
  try to race.
* **Two networks for one order.** CCTP dollars and the CCIP instruction of a
  licence order arrive in either order, or one of them much later.
* **Server handlers that interleave.** The routes read the store, wait for the
  chain, and write the store; several run at once, and any may be cut off.
* **One document for a database.** On MongoDB every statement reads, changes and
  replaces one document; instances race, and connections break with the
  replacement on its way.
* **Money before its records.** A sale is paid first and recorded, logged and
  audited after; the process may stop between any two.
* **Audits that overlap.** A keeper reads the corpus, then the manifest, then
  what is held, and reports later; another pass may have done all that since.
* **An arm that outlives its driver.** Frames and stops cross on sockets and on a
  serial port with answers to earlier ones, while pages come and go.
* **A card that outlives its run.** A submission goes on while the operator
  drives again, leaves the page or loads it again, and its end touches what the
  tab keeps by then.
* **Snapshots in time.** A dividend pays by balances at the end of a second that
  several blocks share.

`PROJECT.json` lists these one by one under `hazards`, at the line where each
bites, with the properties that cover it.

## 2. Modules

| module | stands for |
|---|---|
| `SlotShards` | the pure arithmetic of slot counters: how many, how full each may be, which one has room |
| `ThenarProtocol` | the protocol contract: one action per entry point, a transaction per step |
| `BountyBook` | what the contract promises a sponsor and an operator, without its machinery |
| `TaskOnArc` | a task as the routes see it: slots, a time in which it takes runs, the runs recorded; what `RunSettlement` supposes of the contract and `ThenarProtocol` keeps |
| `CcipLicence` | licences ordered from another chain: sender, CCTP, CCIP, receiver |
| `LicenceDesk` | what such an order promises its buyer, without networks and shared balance |
| `CorpusShares` | the share token: control list, checkpoints, dividends |
| `ShareRegister` | a register of holders written down once a second, and dividends paid by its pages |
| `RunSettlement` | the routes that verify, sign, report, issue for and reconcile runs, over the store and the chain |
| `RunLedger` | what those routes promise of a run when nobody thinks of their steps |
| `SnapshotStore` | the store on MongoDB: rounds of compare-and-swap on one document |
| `AtomicStore` | what the store promises the code above it: a statement takes effect once, or not at all |
| `CorpusSale` | an agent's paid pull: settle, record, log under the key's lock, audit, answer |
| `SaleBook` | what a paid pull promises its buyer and the books: one payment, one file, rows that say so |
| `CorpusAudit` | the manifest, the keeper's passes and the audit held on Arc |
| `ArmRelay` | the relay to a real arm, the pages that mirror through it, and the follower |
| `StationRun` | one tab at a station: runs, the draft, submissions, the card, the passkey step |
| `MCThenarProtocol`, `MCCcipLicence`, `MCCorpusShares`, `MCRunSettlement`, `MCServices` | values of the constants for model checking; `MCServices` puts the five modules above it side by side |
| `SumTheorems` | sums over finite sets: what the proofs need to know of them |
| `ThenarProtocolProofs`, `CcipLicenceProofs`, `CorpusSharesProofs`, `RunSettlementProofs`, `SnapshotStoreProofs`, `CorpusSaleProofs`, `ServicesProofs` | theorems |

Each component module treats the others as external and keeps only what it sees
of them: `CcipLicence` sees of the protocol contract the number of policies,
their fees and a call that takes a fee; `RunSettlement` sees the set of paid
runs and how often each run's shares were issued. What it supposes of the
contract is written down as `TaskOnArc`, which both modules implement: neither
the contract nor the chain the routes meet takes a step it does not allow.
`RunSettlement` takes a statement of the store for one step, which
`SnapshotStore` shows it is; `CorpusSale` sees of `RunSettlement` its share
issues, which use the same key without the lock.

### ThenarProtocol

*State.* One variable per storage mapping that decides something, named as in
the contract. `_tasks` is a function on every id a bounded instance can hand
out, zero (`EmptyTask`) until `taskCount` passes it, as Solidity storage is.
`_policies`, `_capTable`, `_capWeight`, `_capTotal` and `licensed`, keyed by one
id, are one record. `USDC` and Circle's blocklist are external: a balance per
holder and a set.

*Actions.* A transaction runs to its end or leaves nothing, so each `revert` is
a guard. `createTask`, `createTaskUntil` and `createTaskWithAuthorization` are
one action, since all three end in `_newTask` with the same dollars of the same
funder; so are the three ways to submit a run, which end in `_record`.
`LicensePolicy` performs the whole loop of sends at once: the sends of one
licence spend exactly what the licence just pulled in, so each of them fails
exactly when its payee is blocklisted, whatever the order; the theorem
`LicenceSendsItsPrice` is the arithmetic behind that.

*Abstracted.* Signatures (a call whose signature does not recover to the
verifier is no step), names and content ids, events, views, the reporting of a
verdict to `ThenarVerdicts` (wrapped in try/catch: it can change nothing here).
USDC sent to the contract outside its own calls is not modelled; it would be
surplus nobody's accounting counts. 128-bit fields do not overflow: `escrow` is
capped by `MAX_TASK_ESCROW` (named `MaxTaskEscrow` here) and supply by USDC.

*Bounds.* `MaxTasks`, `MaxLicences`, `MaxTime` cap the three counters that grow
without end; what callers may pass is given by `SlotCounts`, `Rewards`,
`Amounts`, `Deadlines`, `Scores`, `Fees`. The contract's own constants
(`MAX_SCORE`, `PROTOCOL_FEE_BPS` of `BPS`, `SLOTS_PER_SHARD`, ...) are constants
too, scaled down in the runs and arbitrary in the proofs.

### CcipLicence

*State.* The sender keeps `orders`, here `orderCount`; `sent` is the log of its
`LicenceOrdered` events, each of which is one burn and one message. `minted` and
`executed` are what CCTP and CCIP remember of them, `dust` what CCTP minted
above the amounts ordered; the rest are the receiver's own fields. An order id
is the triple the sender hashes, `(sender, licensee, count)`.

*Actions.* `BuyLicence` on the source chain; `Mint` and `Deliver` are the two
networks, each at any time, once per message, in any order. `DeliverFails` is a
delivery whose processing reverts inside the receiver's `try`: USDC refuses the
fee, or the gas the sender set is short of the policy's fan-out.
`RetryFailedMessage`, `ExecutePending`, `CancelPending`, `WithdrawOwed` are
anybody's or the buyer's; `AllowSender`, `ResolveFailedMessage`, `Sweep` the
owner's, and `OwnerPowers` says which of them a run lets the owner use.
`ResolveFailedMessage` tries the message first and drops it if it reverts. The
receiver's check against a 63rd of the gas tells a want of gas in
`processMessage` itself, not in the calls that it makes, so the owner may drop a
message that could still be processed, and the model lets any failed message be
dropped. A message from a sender that is not allowed reverts and stays
executable.

*Abstracted.* CCIP message encoding and gas; fee quotes; the events. Messages no
sender contract sent are not modelled: `allowedSenders` and the router check keep
them out. A withdrawal or cancellation to a blocklisted buyer reverts, and so is
no step.

*Bounds.* `MaxOrders` per sender, `MaxPolicies`, and the sets `Amounts`,
`MaxFees`, `Blockable`.

### CorpusShares

*State.* The contract's mappings; `_listed` and `_members` are one set, a
history is the sequence the contract stores. Several transactions share a second
of `now`; `Tick` is the chain's clock. `usdc` holds the dollars of those the
contract deals with.

*Actions.* One per entry point. `Search` is the loop of `_valueAt` as a
recursive function on `lo` and `hi`, the same halving with the same rounding, so
the balance at a second is computed as the contract computes it and not by a
definition of what it should be; `ShareRegister` is that definition.

*Abstracted.* A dollar transfer USDC refuses reverts the call and is no step.
Truncation to `uint192` is not reached at a supply the contract can have.
Documents, names, events and views are left out.

*Bounds.* `MaxSupply`, `MaxDividends`, `MaxTime`, `IssuerDollars`, and the sets
of arguments `Issues`, `Transfers`, `Allowances`, `Amounts`.

### RunSettlement

*State.* Of the store: `filed` (rows of `trajectory` by `created_at`), `settled`
and `txOf` (its columns), `logged` (lines of `token_event`). Of the chain:
`paid`, `listed`, `nonce`, `shares`, and `task`, whether the task takes runs.
`desk` holds each handler: the statement it is at, its run, the nonce its wallet
was given. `sweep` is what `/api/reconcile` has listed and not looked at yet.

*Actions.* A handler is a process, and each statement on the store and each
write to Arc an action, since anything may happen at an `await`. Reads of what
never changes back (admission, a receipt) are made with the step that uses them.
`/api/verify` calls `/api/sign` and stores what was signed, so `Verify`, `Sign`,
`StoreRun`, `Answer` are one handler; `Submitted`, `MarkSettled`,
`LookForIssue`, `CountNonce`, `SendIssue`, `LogIssue` are another. `CountNonce`
and `SendIssue` are viem's `writeContract`: ask for the key's next nonce, then
send; Arc takes a nonce once, and a transaction with a nonce already used, or
one that would have to replace another, is refused. `Fail` is any error or cut
off anywhere, `ReconcileStops` the same for the reconciler.

*Abstracted.* A run is a model value that stands for its hash and for the
transaction that recorded it. How alike two recordings are is the relation
`Near`, whose score reaches the floor the set `Accepted`. `Sponsored` are runs
whose transaction is addressed to the operator's own delegated account and not
to the protocol, which `/api/reconcile` does not accept as settled. `Legacy`
gives the `tx_hash` of rows from before the `settled` column existed, which the
migration in `lib/server/sql.ts` leaves unsettled. `Compared` stands for the
limit of 50 rows `/api/verify` compares with. One task; the columns `chain_id`
and `contract`, by which every query filters, and the resampling of recordings
are left out. One reconciler works at a time.

*Bounds.* `MaxNonce` caps the issuer's transactions; `Requests` is the number of
handlers at once.

### SnapshotStore

*State.* `corpus` is the document, a version and an image; `calls[c]` one call of
`mongoSql`, with the document it read. *Actions.* `MongoSql` is the call,
`FindOne` a round's read, `ReplaceOne` and `LoseRound` the two outcomes of the
conditional replacement (`insertOne` when there was no document), `TooLarge` the
limit of 12 MiB, `Return` the answer. `Disconnect` is an error of the connection
or an instance that is stopped; the replacement may already be on its way, and
`ReachesDatabase` is its arrival. *Abstracted.* SQL is the operators `Run`,
`Select`, `Migrate` and `Size`; of `Migrate` is assumed what `migrateSqlite` does,
that an upgraded image stays upgraded. The refinement maps the table of
`AtomicStore` to the upgraded image. *Bound.* `MaxVersion`.

### CorpusSale

*State.* `paid`, `log` and `sent` are on Arc: settled authorizations, `SalesLog`
and the transactions of the issuer's key, whose count is its nonce; `sales` and
`audits` the rows; `pull[p]` one request, served by the process `Instance[p]`;
`queue[s]` the promise chain of `withSignerLock` in process `s`: the map of
`arc.ts:85` is in memory, and the routes may run as functions
(`docs/HOSTED.md:12`), in as many processes as the platform likes.
*Actions.* One per await, the audit row and the answer among them.
`CaughtFailure` is a throw inside the `try` of the route, which notes a gap and
goes on; `UncaughtFailure` one outside it; `WriteFails` one inside the lock. A
call that throws may have taken effect. `ProcessStops` ends every request of a
process and its chain. `CountIssue` and `SendIssueTx` are the share issues and
admissions that use the key without the lock. *Abstracted.* x402's verification,
the file and its hash, the buyer's agent id. A sale is known by its payment.

### CorpusAudit

*State.* Of one task: the settled rows and those the store lost, the history of
`CorpusManifest`, the audit held by `CorpusAudit.sol`, and `pass[k]`, what a
pass of a keeper has read. *Actions.* One per await of `audit()` in
`scripts/keeper.mjs`; `MisreadManifest` is its `.catch(() => null)`, by which any
error of the node passes for "nothing committed". A pass whose write collides
with another's fails. *Abstracted.* A Merkle root is the set of its leaves. Time
is counted from the report held, since only the order of stamps decides anything:
`NextSecond` goes on from that report's second, and an accepted report moves the
origin. One clock is assumed for all keepers. *Bounds.* `MaxCommits`,
`MaxMisreads`.

### ArmRelay

*State.* `follower` is what the relay believes, `servo` what is so; `wire[p]` and
`serial` hold what is under way; `stream` and `leader.fresh` say whether the last
pose is younger than the relay's two limits. *Actions.* One per handler of the
relay and per operation of the page. The firmware is external: it takes lines in
order, may decline to arm, may stop by itself. *Abstracted.* Poses are home, away
or refused. A relay with `--owner` (signed frames) and the leader page's own
serial link are not modelled. *Bounds.* `MaxPoses`, `MaxLines`.

### StationRun

*State.* `page`, `run`, `elapsed`, `card` are the page and its hook
`useSubmitRun`; `send[k]` the submissions, which go on when the page is left, each
with its transaction, which goes on when its submission has ended; `draft` the
session storage, and `stale` whether the draft is over an hour old; `paidRuns`
what the contract paid. `owed` is history: the operator's run that the store took
and that is neither paid nor given up. `rig` is the headset and how far the
passkey step has come. *Actions.* Each button and each step of a submission, up
to the answer of `/api/submitted`, which goes on whatever the card is by then
(`SharesAnswered`). `Keep` is `saveDraft`, with a store that takes the run or does
not; `LoadDraft` clears what is too old; `CatalogueChanges` is the poll every 6 s,
after which the page keeps its run again or reads the draft again. `Load` leaves
the page or loads it anew; a run measured at another task's station meanwhile has
taken the one draft there is. `Refused` is also a receipt that does not come in
60 s, and the transaction may be mined after it. A run is known by its number.
*Abstracted.* What happens while driving, the checks of the verifier, the wallet.
*Bounds.* `MaxRuns`, `MaxSends`, `MaxLoads`.

## 3. Runs

| run | question | bounds and why they are enough |
|---|---|---|
| `escrow` | Does every dollar stay some task's or some claimant's, and does a task take runs only until it ends (`ImplementsTaskOnArc`)? | two tasks, a funder and an operator who may both be blocklisted at any step; scores below, at and above the accepted range; a deadline that passes; top-ups up to the escrow cap; both operators hash to one counter of two, so the fallback is taken |
| `slots` | Do the counters never refuse a free slot, do the books and the cap table agree, is a licence split whole, does the treasury get the rest of all licences and no more, and does the sharded task keep the promise of `BountyBook`, in which no slot is sold twice? | 1 to 3 slots over 1 or 2 counters (a quota of 2 beside one of 1), three operators hashed to different counters, limits of 2 runs per operator and 2 contributors both reached; scores whose ratio does not divide the fee, a fee of 0 and of 7, a contributor and the treasury blocklisted in turn |
| `orders` | Does an order end at most once, and do totals, orders and dollars agree, whatever the order of dollars and instruction; and once the dollars arrived, does anybody still wait for another's (`ArrivedIsPayable`)? | two orders, of one buyer or of two, so each can use up the other's dollars; amounts below, at and above the fee; a policy that is minted late; dust; every power of the owner |
| `arrival` | Does every order end, and every credit become payable? | three orders sharing one balance, the least with which a credit can be starved by a licence and a cancellation; amounts above the fee, no dust |
| `shares` | Do checkpoints and halving stand for a register written down once a second, and are all dividends covered? | two holders and a spender, three seconds with any number of transactions in each, two dividends of an odd amount over an odd and an even supply |
| `settlement` | Do rows, log and signatures follow the chain, however handlers interleave and fail; does a row once called paid stay so (`SettledStays`), and its copies barred (`CopiesStayBarred`)? | two handlers (a race needs two) over a run, its copy and a run of another operator whose score the contract refuses; two slots for three runs |
| `alone` | Are the routes the ledger they mean to be when nothing overlaps, and does a reported run get its shares? | one handler, no failure; three runs, two of them alike; nonces for two admissions and three issues |
| `upgraded` | Does reconciling an older version's rows end, and rightly? | a row that names its own payment, one paid through a delegated account, one that names a failed transaction, while a handler works on the same rows |
| `sweep` | Does `sweep` reach only CCTP's dust, as `contracts/src/ccip/ThenarCcipReceiver.sol:143` says? | violated: dollars minted before their instruction are in no total yet |
| `issued_twice` | Are a run's shares issued once however often it is reported, as `app/api/submitted/route.ts:103` says? | violated by two reports that both read the log before either writes it |
| `services` | Store, sale, audit, arm and station, each by itself | see below |
| `own_runs` | Is a submitted run the operator's own, as `app/station/[taskId]/page.tsx:162` says? | violated: the policy drives part of a run and is switched off |

`services` checks five parts that share no state in one run. `part` says at the
start which of them moves, so the states are the sum of five explorations and
not their product:

* *store*: two callers with a round limit of 2, one insert whose repetition
  changes nothing, one statement whose repetition would show, an image from an
  earlier version, and images that reach the size limit. Is a statement atomic
  (`ImplementsAtomicStore`), and did others write when a caller is told to retry
  (`BusyMeansOthersWrote`)?
* *sale*: three pulls with two payments, two pulls in one process and the third
  in another, beside one write outside the lock, failures anywhere. The payments
  are alike, so each process brings one of its own and the second pull of the
  first may bring either (`OwnPayments`): two requests race for one payment
  within a process and across. Does a payment buy one file, recorded before it
  is logged and logged before it is delivered, as `SaleBook` says
  (`ImplementsSaleBook`), does the lock keep the sales of one process apart
  (`LockKeepsSalesApart`), and does every pull end (`PullsEnd`)?
* *audit*: two runs, one of which the store may lose, one commit, a keeper and a
  pass by hand that may be arbitrarily slow, one misread. Is "altered" said truly
  (`AlteredIsTrue`), and does the audit come right (`AuditComesRight`)? The lists
  are whole (limits of 2 for two runs), since lists cut off need a third run,
  which takes TLC too long; the proof of `AlteredIsTrue` is about both kinds.
* *arm*: one page, a leader or none, arming allowed or not, two poses and two
  lines each way, enough for an `ARM` between two `STOP`s. Is an armed follower
  known to the relay (`ArmedIsKnown`), is it armed only at home and on a relay that
  may arm (`ArmsAtHome`), and does a quiet one end stopped (`QuietEndsInStop`)?
* *station*: two runs, submissions and page loads, so that one of each can be
  late. Is a measured run that the store took kept until it is paid, given up or
  an hour old (`MeasuredIsKept`), is the card's phase that of its own run, and
  is what it calls paid paid (`CardTellsOfItsRun`)? But for the last, without
  headset and passkey step; with either they are false (section 5), and one run
  and one submission are enough to take those steps (`OneRun`). No property of
  this run looks at the object of a scene, so one is enough; `own_runs` has two.

Deadlock is not checked: an instance stops when its bounded ids, times and
nonces are used up.

*Fairness.* No liveness is claimed of a contract alone, since nothing obliges
anybody to call it. `arrival` assumes of CCTP's relayers that a burn is minted
if Circle's list allows it, of CCIP that a message is delivered, and of
`scripts/keeper.mjs`, whose pass tries `executePending` on every pending order,
that an order which stays executable is executed. Nobody in the code calls
`retryFailedMessage`, so of an order whose message failed only that much is
claimed: it is kept for anyone to retry. Both properties suppose that Circle's
list is empty from some time on. `alone` and `upgraded` assume that the platform
runs an accepted request to its end and that `/api/reconcile` is called again
and again, as `docs/HOSTED.md` schedules it, and looks at each row it listed.
`services` assumes that the platform runs a pull to its end; that one keeper
starts a pass every interval and that a read or a report it tries again and again
succeeds at some time; and that the relay's event loop runs, its interval with
it, and bytes cross the serial port. Nothing obliges a page to send, a keeper by
hand to go on, or the firmware to stop.

## 4. Proofs

All for arbitrary constants under the assumption each module states
(`ProtocolAssumption` and `ShardAssumption`, `LicenceAssumption`,
`SharesAssumption`, `SettlementAssumption`, `StoreAssumption` with
`MigrateAssumption`, `SaleAssumption`).

**Protocol.** `QuotasCoverSlots`, `RoomExactlyWhileUnfilled`: the counters'
quotas add up to the slots, whatever the slot count and the shard size, so as
long as no counter exceeds its quota a free slot and a counter with room are the
same. `SpecTypeOK`, `SpecClaimsAddUp`, `SpecSolvent`: the inductive invariant is
`MoneyInv`, the three together with `Unposted`. Types need `ClaimsAddUp`
(`claimableTotal - claimable[a]` is natural only because the total covers it);
`Solvent` needs `Unposted`, since a new task adds its dollars to the sum of
escrows only if the slot it is written to was empty; and `Unposted` gives the
refund of `closeTask` an addressee. `SpecEscrowSpentOnOwnTask` and
`SpecClosedForGood` are steps from it.

`SpecSlotsNeverOversold` and `SpecRoomWhileUnfilled` need `SlotInv`: each counter
within its quota (the total alone would let one counter take another's slots), the
counters counting the task's runs, and nothing counted before a task is posted.
With `RunsPaidOnce`, which is inductive given the types, and `PostedWell` (a
posted task has slots, an escrow its limit) that is the invariant of
`SpecImplementsBountyBook`: each task step is one of the book's and every other
step leaves the book alone.

`SpecBooksAgree` adds one entry to each sum per recorded run. From it comes
`SpecCapTableIsTheRuns`: `ContributorsInv` says that a task's contributors are
the accounts with a weight on it, each once, and `PolicyInv` that a policy's
copy still equals the books of its task, which no later run touches. Summing the
weights of the table is then summing the scores of the task's runs, by
regrouping twice over accounts. A full task has a run, so a contributor, so a
total that is not zero: that is the division in `licensePolicy`, and with
`FloorsLoseLessThanTheirNumber` gives `SpecLicenceSplits`.
`SpecImplementsTaskOnArc` needs `RecordedFits`, that the counters of a task
count at least the hashes recorded on it, and that closing, minting and the
clock only go one way. `SpecLicenceSplits` is about one licence;
`SpecTreasuryHasTheRest` is about all of them, paid out, deferred or claimed
since, and supposes a treasury that neither funds tasks nor buys licences, whose
dollars would be others too. Every property the protocol's two runs check is
thereby proved for any number of tasks, accounts, runs and licences.

**Licence desk.** The invariant is `Books`: the two totals and the types
(`Ledger`), what is true of policies and lists around it (`Around`), `Traced`,
and `DollarsMatchOrders`. `Traced` ties each order to the message that made it:
an order in the book has a message that was executed and is not failed, and a
message neither executed nor failed has no order yet. Without it a delivery
could meet an order of its id, and the balance would count its dollars twice.
The balance itself is proved as a sum over messages still unminted and messages
still without an order, one element of which moves per step. `SpecCreditsSpared`
and `SpecImplementsLicenceDesk` are steps from there: each action is an abstract
one or a stutter. `SpecArrivedIsPayable` follows from `Books` alone: with every burn
minted the balance is what waits, what is owed, and the dollars of messages that
made no order yet, so nobody's part of it is short. It is what holds in every
state of the two liveness properties of `arrival`, which TLC checks.

**Shares.** `SearchFindsTheEnd` says of the halving that on every history whose
seconds increase it ends at the newest checkpoint not after the second asked
for, and it is what every other theorem of the module rests on. The invariant is
`Pages` (histories ordered and in the past, snapshots add up), `Funds` (each
dividend's dollars cover those who have not claimed, and the contract holds them)
and `Membership`. A checkpoint written now changes no passed second (`PastKept`),
so what a dividend owes stands from the end of its record second on
(`SpecOwedIsSettled`); and parts of an amount rounded down never exceed it
(`PartsFit`), which `Funds` needs for the sum over all holders. The refinement of
`ShareRegister` is proved step by step: a transaction is one of the register's,
and a tick writes down a page.

**Settlement.** The invariant `IInv` adds to types, `LedgerFollowsChain` and
`LogFollowsIssues` two facts about state held across an `await`: `Busy` (a
handler that settles has a paid and stored run, one that issues an admitted
driver) and `Rows` (a stored transaction, and one reconcile has listed, is the
run's own or the one an older version left). They survive the steps of others
because what a handler read never goes back (`KeptStep`).
`SpecSettledStays` and `SpecCopiesStayBarred` are about runs no older version
wrote; rows of other runs may be an older version's. They need `NewRows`: such a
run has a transaction only if it is settled, and none of its rows is on
reconcile's list. So `Unsettled`, which clears what failed, never meets it, and
a copy barred by a settled row stays barred as long as no more rows are settled
than are compared.
`SpecImplementsRunLedger` supposes that no older version's rows exist
(`NewStore`), that as many settled rows are compared as there are runs
(`ComparesAll`), that there is one handler and no failure; its invariant `Calm`
says that what the handler found still holds when it acts on it.
`SpecImplementsTaskOnArc` closes the gap to the contract: every step of the chain
the routes meet is one `TaskOnArc` allows, as every step of the contract is for each
of its tasks, so what is proved here rests on what is proved there and on the
verifier's signature, which a run needs to be recorded. `Slots` is at least the
number of runs an older version's rows were paid for, as `SlotsNeverOversold` has
it. The violation
`issued_twice` shows that without the one handler it is false.

`SpecLogFollowsIssues` covers both values of `Faults`: the last part of the property,
that no issue is without its line or somebody about to write it, is about a
deployment whose handlers do not fail, which `settlement` does not run.

**Store.** `StoreInv` adds `HeldIsCurrent` to the types: a call whose version is
still the document's holds the document's image, because a version is written
once. So the image a winner writes is the statement applied to what is there,
which is `SpecImplementsAtomicStore`. `RoundsLostToWrites` counts: the version a
call read is at least as many ahead of the version at its start as it has lost
rounds, since a round is lost only to a newer version; at the last round that is
`SpecBusyMeansOthersWrote`.

**Sale.** For any number of processes, and any pulls in each. `SaleInv` adds to types
`PullsBehind`, which says of each stage of a pull what is already written (a logged
pull is in the log, a queued one has its sale), `CountedHolds`, that whoever has a
nonce under the lock is the head of the queue of its process, and
`NoncesLostToOthers`, which is `LockKeepsSalesApart`: while a pull holds its queue
no other of its process sends, so a nonce it lost it lost to somebody else. From
there `SpecSalesAccountedFor` and `SpecLockKeepsSalesApart`.
`SpecImplementsSaleBook` maps the stages of pulls to the five steps of `SaleBook`; it
needs of `PullsBehind` that what a pull settled is in `paid`, so that no other settles
it, and covers sales of two processes that meet on a nonce: the later one is a gap.
`SpecChainNeverJams` is inductive beside `SaleInv`: the queue of a process is its
pulls with a write to make, so whoever waits has only pulls before it that move. Of
`PullsEnd` that is the part that needs no fairness.

**Audit.** "Altered" is said when two lists have one length and differ.
`AuditAlteredIsTrue` says what that shows, whatever the limits: that a run of one
list was lost, or that one of the lists was full, in which case a better run may
have pushed another off its end. The invariant is `ListsNested`: of two lists of
one task's runs, read or committed at whatever times, one holds all of the other
but runs lost since, or one of them is full (`NestedOrFull`). That is kept
because a list that is not full holds all that is stored when it is read
(`BestIsWhole`: the best run left out has as many before it as the list may
hold), the settled runs only grow, and what was lost stays lost. Two nested
lists of one length that differ then differ in a lost run.

**Arm.** `ArmArmedIsKnown` is about lines that cross on the serial port, and
"an `ARMED` is among the answers" is not kept when answers are read one by one.
`LastAnswerCounts` is: an armed follower's last waiting answer is `ARMED`, or
none waits and the relay believes it armed, or a `STOP` is on its way.
`ArmArmsAtHome` is about lines on their way in the other direction:
the relay looks at the pose it sent last, the firmware takes `ARM` lines later.
`ArmedByRequest` says that an `ARM` on the wire comes right after the home pose,
or is the next line and the home pose was the last one taken.

**Station.** `PaidIsKnown` says that a run owed is unpaid, and that a transaction
mined and a card that says "confirmed" are of a paid run. For an operator already
admitted and without a headset, `OwedIsAtHand` says that the run owed is the draft,
the run on the page and the one offered after a load, and `CardFollows` that at
most one submission of the page is under way and that it is the card's, of the run
shown. So a receipt that clears the draft finds nothing owed: the run on the page is
the one it paid (`StationMeasuredIsKept`). And what else comes through does not touch
the card's phase (`StationCardTellsOfItsRun`); the answer on shares does touch the
card, and nothing is claimed of it.

`SumTheorems` is the base: sums are the community module's `SumFunctionOnSet`,
a fold over a recursively chosen element. The module proves that the fold
exists and is unique on finite sets, and from there that sums change by what
one entry changes, add, are monotone, and regroup by class.

Only model-checked: liveness (`EveryOrderEnds`, `CreditsBecomePayable`,
`ReportedIsIssued`, `LegacyResolved`, `PullsEnd`, `AuditComesRight`,
`QuietEndsInStop`), which needs `ENABLED`. Every invariant, action property and
refinement of a passing run is proved.

Proved and in no run, since a run checks what they follow from or lead to:
`ClaimsAddUp` and `RoomExactlyWhileUnfilled` (behind `Solvent` and
`RoomWhileUnfilled`), `SlotsNeverOversold` and `RunsPaidOnce` (part of
`ImplementsBountyBook`), `TotalsAgree` (behind `DollarsMatchOrders`),
`SalesAccountedFor` (part of `ImplementsSaleBook`), `ChainNeverJams` (the safety part
of `PullsEnd`), and of `RunSettlement` the types and `ImplementsTaskOnArc`, whose
other half `escrow` checks of the contract.

## 5. Not modelled, and the plan

`PROJECT.json` says for every part whether it is modelled. In order:

1. `ThenarProtocol` with `SlotShards`, `BountyBook` and `TaskOnArc`: modelled;
   every property and both refinements proved.
2. `CcipLicence` with `LicenceDesk`: modelled; safety and refinement proved.
3. `CorpusShares` with `ShareRegister`: modelled; safety and refinement proved.
4. `RunSettlement` with `RunLedger` and `TaskOnArc`: modelled for one task; safety and
   both refinements proved.
5. `SnapshotStore` with `AtomicStore`: modelled; safety and refinement proved.
6. `CorpusSale` with `SaleBook`: modelled; safety and refinement proved.
7. `CorpusAudit`: modelled; safety proved.
8. `ArmRelay`, `StationRun`: modelled in part; safety proved.
9. Not begun: the small registries.

Known to be false and not a run of its own:

* *Settlement.* Two near-identical runs verified before either is settled are
  both paid, though `lib/server/db.ts:229` says otherwise (`NoCopyPaid`).
  `/api/reconcile` clears a good transaction that was stored after it listed the
  failed one, though `lib/server/db.ts:100` says otherwise
  (`OnlyFailuresDropped`). Two share issues may take one nonce, since
  `issueShares` does not use `withSignerLock`; a copy of a run older than the 50
  newest paid ones is not found, and `CopiesStayBarred` says nothing of either;
  reconcile settles an old row that names another run's payment. Both named
  formulas are stated in `RunSettlement` and fail under `settlement.cfg`.
* *Deadline.* `app/api/sign/route.ts:120` says that the contract records a signed run
  whatever the task's deadline says. It does not (`ThenarProtocol.sol:489`), which is
  `ImplementsTaskOnArc`; the route's own check only spares the operator the refusal.
* *Admission.* A challenge has one use, says `lib/server/operator.ts:111`; it is read
  and marked in two statements and the mark's count is not looked at, so answers
  that overlap are all taken. The address is listed once all the same.
* *Station.* The card's line on shares may be an earlier run's: the answer of
  `/api/submitted` is written on the card of whatever run is there by then
  (`submit.ts:334`), without the look at `txHash` that the timers take (`:281`);
  "The run's corpus shares" (`submit.ts:27`) is `SharesToldOfItsRun`, and false.
  "A draft is only ever an unsent run" (`run-draft.ts:16`) is false too: paying a run
  changes its task, and the page keeps the measured run again when the catalogue
  comes in (`page.tsx:247`); stated as `DraftIsUnsent`. A run is not kept when the
  store is full or disabled (`run-draft.ts:36`), more than an hour after it was
  last saved (`:48`), or once another task's run is measured in the tab.
  A run picked up after a reload is submitted with `elapsed` 0, which
  `/api/verify` refuses, and with the new page's objects (`SubmissionIsWhole`). The
  headset's A button starts a run while a submission is pending
  (`page.tsx:378`), and a passkey step that ends late resets the card of a
  submission under way (`page.tsx:1107`); either way the late confirmation clears
  the next run's draft, which `lib/run-draft.ts:6` says is kept. A run already
  sent is offered again after a reload.
* *Arm.* A leader that is plugged in but silent keeps both the interval and the
  last page's leaving from sending `STOP` (`arm-relay.mjs:198`, `:237`);
  frames in the 100 ms after `SIGINT`'s `STOP` may arm again; two pages interleave
  their poses. With `--owner`, a page that unlocks again starts at sequence 0 and
  is refused as a replay.
* *Sale.* The lock is one process's. Sales of two processes may take one nonce,
  and the later one stays out of the log with its reason in its audit row; sales
  of one process, under the lock, do not. `docs/HOSTED.md:35` lists the
  coordination of nonces between them as not done. The sequence an audit row
  notes is the simulated one, which another sale may have taken; claimed is only
  that the sale is in the log.
* *Audit.* `commit-manifest.mjs` commits the best 200 runs and the app serves 500,
  so a larger corpus stays "grown"; "short" is said falsely when a commit falls
  between the reading of corpus and manifest, until the next pass.

Left out, and why: the small registries (one writer each; no two callers race for
their state); one-time admission challenges and the operator desk (an expiry and
a lookup); backups to object storage; scoring, similarity and kinematics
(floating point, no state); read-only routes, other pages, and the deployment and
end-to-end scripts, which call the parts above. Most of the repository's lines
are pages and scripts of that kind, so the map covers a small share of all lines
and most of those that decide who is paid.
