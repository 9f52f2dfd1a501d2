\* One task over unequal counters, three operators, then a licence on its policy.
SPECIFICATION Spec
CONSTANTS
  fred = fred
  ann = ann
  bob = bob
  Accounts = {fred, ann, bob}
  Treasury = treasury
  Protocol = protocol
  Hashes = {h1, h2, h3}
  Keccak <- MCKeccakSpread
  Supply <- MCSupplyBuyer
  MAX_SCORE = 4
  ACCEPT_FLOOR = 2
  RUNS_PER_ACCOUNT = 2
  MAX_CONTRIBUTORS = 2
  PROTOCOL_FEE_BPS = 1
  BPS = 4
  MaxTaskEscrow = 8
  SLOTS_PER_SHARD = 1
  MAX_SHARDS = 2
  SlotCounts = {1, 2, 3}
  Rewards = {2}
  Amounts = {4}
  Deadlines = {0}
  Scores = {2, 3}
  Fees = {0, 7}
  Blockable = {ann, treasury}
  MaxTasks = 1
  MaxLicences = 1
  MaxTime = 1
SYMMETRY HashSymmetry
INVARIANTS RoomWhileUnfilled BooksAgree CapTableIsTheRuns LicenceSplits TreasuryHasTheRest
PROPERTIES ImplementsBountyBook
CHECK_DEADLOCK FALSE
