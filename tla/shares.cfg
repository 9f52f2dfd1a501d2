\* Two holders and a spender, two dividends out of one balance, three seconds.
SPECIFICATION Spec
CONSTANTS
  ann = ann
  bob = bob
  cid = cid
  Accounts = {ann, bob}
  Spenders = {cid}
  Issuer = issuer
  Self = self
  Unlimited = 9
  Issues = {1}
  Transfers = {1}
  Allowances = {1, 9}
  Amounts = {3}
  MaxSupply = 2
  MaxDividends = 2
  MaxTime = 2
  IssuerDollars = 6
SYMMETRY HolderSymmetry
INVARIANTS SnapshotsAddUp ClaimsCovered
PROPERTIES OwedIsSettled ImplementsShareRegister
CHECK_DEADLOCK FALSE
