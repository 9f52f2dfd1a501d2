\* What app/api/submitted/route.ts:103 says of issues, against the code.
SPECIFICATION Spec
CONSTANTS
  ann = ann
  bob = bob
  run1 = run1
  run2 = run2
  run3 = run3
  p = p
  q = q
  NoTx = NoTx
  Reverted = Reverted
  Runs <- TwoRuns
  Operators = {ann, bob}
  Requests = {p, q}
  By <- MCBy
  Near <- MCNear
  Accepted = {run1, run2}
  Sponsored = {}
  Legacy <- NoneLegacy
  Slots = 2
  Compared = 3
  Faults = FALSE
  MaxNonce = 4
SYMMETRY RequestSymmetry
INVARIANTS SharesIssuedOnce
CHECK_DEADLOCK FALSE
