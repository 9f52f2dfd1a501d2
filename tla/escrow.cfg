\* Two tasks side by side, deadlines, top-ups, closing, blocklisted payees.
SPECIFICATION Spec
CONSTANTS
  fred = fred
  ann = ann
  bob = bob
  Accounts = {fred, ann}
  Treasury = treasury
  Protocol = protocol
  Hashes = {h1, h2}
  Keccak <- MCKeccakCollide
  Supply <- MCSupplySponsor
  MAX_SCORE = 4
  ACCEPT_FLOOR = 2
  RUNS_PER_ACCOUNT = 2
  MAX_CONTRIBUTORS = 2
  PROTOCOL_FEE_BPS = 1
  BPS = 4
  MaxTaskEscrow = 5
  SLOTS_PER_SHARD = 1
  MAX_SHARDS = 2
  SlotCounts = {1, 2}
  Rewards = {2}
  Amounts = {3}
  Deadlines = {0, 2}
  Scores = {1, 2, 4, 5}
  Blockable = {fred, ann}
  Fees = {0}
  MaxTasks = 2
  MaxLicences = 0
  MaxTime = 2
SYMMETRY HashSymmetry
INVARIANTS TypeOK Solvent
PROPERTIES EscrowSpentOnOwnTask ClosedForGood ImplementsTaskOnArc
CHECK_DEADLOCK FALSE
