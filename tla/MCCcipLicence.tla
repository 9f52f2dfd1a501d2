---------------------------- MODULE MCCcipLicence ----------------------------
(* Values of CcipLicence's constants that TLC enumerates.                  *)
EXTENDS CcipLicence, TLC

CONSTANTS ann, bob, base

MCFee == 0 :> 2

BuyerSymmetry == Permutations(Licensees)
=============================================================================
