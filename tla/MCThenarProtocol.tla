-------------------------- MODULE MCThenarProtocol --------------------------
(* Values of ThenarProtocol's constants that TLC enumerates.               *)
EXTENDS ThenarProtocol, TLC

CONSTANTS fred, ann, bob   \* a sponsor and two operators

\* Every account hashes to counter 0, so the second operator always meets a
\* full counter first and takes the fallback.
MCKeccakCollide == [x \in TaskIds \X Accounts |-> 0]
\* ann and bob hash to different counters.
MCKeccakSpread == [x \in TaskIds \X Accounts |-> IF x[2] = ann THEN 1 ELSE 0]

MCSupplySponsor == [a \in Accounts |-> IF a = fred THEN 8 ELSE 0]
MCSupplyBuyer == [a \in Accounts |-> IF a = fred THEN 22 ELSE 0]

HashSymmetry == Permutations(Hashes)
=============================================================================
