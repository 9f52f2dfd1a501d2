------------------------------- MODULE SaleBook -------------------------------
(***************************************************************************)
(* What the paid pull promises its buyers and whoever reads the records,   *)
(* with none of its machinery: a payment is taken once and buys one file,  *)
(* for the request that made it; the file leaves after the sale is written *)
(* down, and with a note whether Arc states it, which is true and is never *)
(* rewritten; Arc states written sales only, each once, at the end of a    *)
(* list that only grows. A request may go no further at any point.         *)
(***************************************************************************)
EXTENDS Sequences, Functions

CONSTANTS Payments, Requests

VARIABLES
  taken,     \* payments taken: <<request, payment>>
  written,   \* sales written down, by payment
  stated,    \* the sales Arc states, in order
  noted,     \* the notes: <<payment, whether Arc states the sale>>
  handed     \* files handed over: <<request, payment>>

vars == <<taken, written, stated, noted, handed>>

Init ==
  /\ taken = {} /\ written = {} /\ stated = <<>>
  /\ noted = {} /\ handed = {}

Take(p, a) ==
  /\ \A entry \in taken : entry[2] # a
  /\ taken' = taken \cup {<<p, a>>}
  /\ UNCHANGED <<written, stated, noted, handed>>

Write(p, a) ==
  /\ <<p, a>> \in taken /\ a \notin written
  /\ written' = written \cup {a}
  /\ UNCHANGED <<taken, stated, noted, handed>>

State(a) ==
  /\ a \in written /\ a \notin Range(stated)
  /\ stated' = Append(stated, a)
  /\ UNCHANGED <<taken, written, noted, handed>>

Note(a, said) ==
  /\ a \in written /\ \A note \in noted : note[1] # a
  /\ said => a \in Range(stated)
  /\ noted' = noted \cup {<<a, said>>}
  /\ UNCHANGED <<taken, written, stated, handed>>

HandOver(p, a) ==
  /\ <<p, a>> \in taken /\ \E note \in noted : note[1] = a
  /\ handed' = handed \cup {<<p, a>>}
  /\ UNCHANGED <<taken, written, stated, noted>>

Next ==
  \E a \in Payments :
    \/ \E p \in Requests : \/ Take(p, a)
                           \/ Write(p, a)
                           \/ HandOver(p, a)
    \/ State(a)
    \/ \E said \in BOOLEAN : Note(a, said)

Spec == Init /\ [][Next]_vars
=============================================================================
