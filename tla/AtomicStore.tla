------------------------------ MODULE AtomicStore ------------------------------
(***************************************************************************)
(* What lib/server/sql.ts promises the code above it, whichever engine     *)
(* serves it: a statement is executed once, at one moment between the call *)
(* and its answer, or it is refused and changes nothing. A call that ends  *)
(* in an error of the connection may have been executed, and may still be. *)
(***************************************************************************)
CONSTANTS
  Callers, Statements, Writes,
  Run(_, _),       \* Run(s, t): the table after statement s
  Select(_, _),    \* Select(s, t): the rows a query s returns
  First,           \* the corpus to begin with
  NoSql, NoRows

VARIABLES
  table,           \* the corpus
  asks             \* asks[c]: what caller c asked last and what came of it

atomicVars == <<table, asks>>

Ended == {"idle", "answered", "refused", "failed"}

At(c, stage) == asks[c].at = stage
Turn(c, stage) == asks' = [asks EXCEPT ![c].at = stage]

\* The statement of c takes effect and c's call is at stage afterwards.
Effect(c, stage) ==
  LET s == asks[c].sql IN
  /\ table' = IF s \in Writes THEN Run(s, table) ELSE table
  /\ asks' = [asks EXCEPT ![c] = [at |-> stage, sql |-> s,
               rows |-> IF s \in Writes THEN NoRows ELSE Select(s, table)]]

Ask(c, s) ==
  /\ asks[c].at \in Ended
  /\ asks' = [asks EXCEPT ![c] = [at |-> "asked", sql |-> s, rows |-> NoRows]]
  /\ UNCHANGED table

Execute(c) == At(c, "asked") /\ Effect(c, "executed")

Answer(c) == At(c, "executed") /\ Turn(c, "answered") /\ UNCHANGED table

Refuse(c) == At(c, "asked") /\ Turn(c, "refused") /\ UNCHANGED table

\* The caller is told of an error: nothing more happens, or the statement is
\* still on its way.
Break(c) ==
  /\ \/ At(c, "asked") /\ \E stage \in {"failed", "adrift"} : Turn(c, stage)
     \/ At(c, "executed") /\ Turn(c, "failed")
  /\ UNCHANGED table

Arrive(c) ==
  /\ At(c, "adrift")
  /\ \/ asks[c].sql \in Writes /\ Effect(c, "failed")
     \/ Turn(c, "failed") /\ UNCHANGED table

AtomicInit ==
  /\ table = First
  /\ asks = [c \in Callers |-> [at |-> "idle", sql |-> NoSql, rows |-> NoRows]]

AtomicStep(c) ==
  \/ \E s \in Statements : Ask(c, s)
  \/ Execute(c) \/ Answer(c) \/ Refuse(c) \/ Break(c) \/ Arrive(c)

AtomicNext == \E c \in Callers : AtomicStep(c)

AtomicSpec == AtomicInit /\ [][AtomicNext]_atomicVars
=============================================================================
