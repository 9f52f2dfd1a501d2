--------------------------- MODULE MCCorpusShares ---------------------------
(* Values of CorpusShares' constants that TLC enumerates.                  *)
EXTENDS CorpusShares, TLC

CONSTANTS ann, bob, cid

HolderSymmetry == Permutations(Accounts)
=============================================================================
