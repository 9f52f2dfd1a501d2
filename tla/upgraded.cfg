\* Rows of an older version are reconciled while requests are served.
SPECIFICATION FairSpec
CONSTANTS
  ann = ann
  bob = bob
  run1 = run1
  run2 = run2
  run3 = run3
  p = p
  q = q
  NoTx = NoTx
  Reverted = Reverted
  Runs <- TwoAndACopy
  Operators = {ann, bob}
  Requests = {q}
  By <- MCBy
  Near <- MCNear
  Accepted = {run1, run2, run3}
  Sponsored = {run2}
  Legacy <- MixedLegacy
  Slots = 3
  Compared = 3
  Faults = FALSE
  MaxNonce = 3
PROPERTIES LegacyResolved
CHECK_DEADLOCK FALSE
