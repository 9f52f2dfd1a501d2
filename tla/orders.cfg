\* Orders of two buyers from one chain, every power of the owner, Circle's list.
SPECIFICATION Spec
CONSTANTS
  ann = ann
  bob = bob
  base = base
  Senders = {base}
  Licensees = {ann, bob}
  Receiver = receiver
  Protocol = protocol
  Owner = owner
  Fee <- MCFee
  Amounts = {1, 2, 3}
  MaxFees = {1}
  MaxOrders = 2
  MaxPolicies = 1
  OwnerPowers = {"allow", "resolve", "sweep"}
  Blockable = {receiver}
SYMMETRY BuyerSymmetry
INVARIANTS DollarsMatchOrders ArrivedIsPayable
PROPERTIES CreditsSpared ImplementsLicenceDesk
CHECK_DEADLOCK FALSE
