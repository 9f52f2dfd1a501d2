\* One request at a time, and none fails.
SPECIFICATION FairSpec
CONSTANTS
  ann = ann
  bob = bob
  run1 = run1
  run2 = run2
  run3 = run3
  p = p
  q = q
  NoTx = NoTx
  Reverted = Reverted
  Runs <- TwoAndACopy
  Operators = {ann, bob}
  Requests = {q}
  By <- MCBy
  Near <- MCNear
  Accepted = {run1, run2, run3}
  Sponsored = {}
  Legacy <- NoneLegacy
  Slots = 2
  Compared = 3
  Faults = FALSE
  MaxNonce = 5
PROPERTIES ImplementsRunLedger ReportedIsIssued
CHECK_DEADLOCK FALSE
