\* Two requests at a time over a run, its copy and a paid run of an older version; anything may fail.
SPECIFICATION Spec
CONSTANTS
  ann = ann
  bob = bob
  run1 = run1
  run2 = run2
  run3 = run3
  p = p
  q = q
  NoTx = NoTx
  Reverted = Reverted
  Runs <- TwoAndACopy
  Operators = {ann, bob}
  Requests = {p, q}
  By <- MCBy
  Near <- MCNear
  Accepted = {run1, run2}
  Sponsored = {}
  Legacy <- PaidLegacy
  Slots = 3
  Compared = 3
  Faults = TRUE
  MaxNonce = 4
SYMMETRY RequestSymmetry
INVARIANTS LedgerFollowsChain LogFollowsIssues
PROPERTIES SettledStays CopiesStayBarred
CHECK_DEADLOCK FALSE
