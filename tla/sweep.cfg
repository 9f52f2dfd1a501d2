\* What the comment at ThenarCcipReceiver.sol:143 says of sweep, against the code.
SPECIFICATION Spec
CONSTANTS
  ann = ann
  bob = bob
  base = base
  Senders = {base}
  Licensees = {ann, bob}
  Receiver = receiver
  Protocol = protocol
  Owner = owner
  Fee <- MCFee
  Amounts = {1, 2, 3}
  MaxFees = {1}
  MaxOrders = 2
  MaxPolicies = 1
  OwnerPowers = {"sweep"}
  Blockable = {receiver}
SYMMETRY BuyerSymmetry
INVARIANTS SweepTakesOnlyDust
CHECK_DEADLOCK FALSE
