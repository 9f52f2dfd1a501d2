\* Orders of two buyers from one chain, the owner idle, everybody else fair.
SPECIFICATION FairSpec
CONSTANTS
  ann = ann
  bob = bob
  base = base
  Senders = {base}
  Licensees = {ann, bob}
  Receiver = receiver
  Protocol = protocol
  Owner = owner
  Fee <- MCFee
  Amounts = {3}
  MaxFees = {0}
  MaxOrders = 3
  MaxPolicies = 1
  OwnerPowers = {}
  Blockable = {receiver}
PROPERTIES EveryOrderEnds CreditsBecomePayable
CHECK_DEADLOCK FALSE
