---------------------------- MODULE ShareRegister ----------------------------
(***************************************************************************)
(* What the corpus shares promise those who drove, with no checkpoints and *)
(* no searches: members hold shares; at the end of every second the whole  *)
(* register is written down once and never again; a dividend is announced  *)
(* before its record second ends and shares its dollars by what was written *)
(* down for that second, to each holder once.                              *)
(***************************************************************************)
EXTENDS Integers, Sequences, Functions

CONSTANTS Accounts, Shares, Sums, Dates

VARIABLES
  now,
  members,     \* who may hold shares
  holding,
  written,     \* the register at the end of each second before now
  announced,   \* dividends: [recordDate, executionDate, amount]
  paid,        \* <<dividend, account>> paid out
  returned,    \* dividends nobody held a share for, taken back
  pot,         \* dollars kept for dividends
  earned       \* dollars dividends brought each account

registerVars == <<now, members, holding, written, announced, paid, returned, pot, earned>>

Init ==
  /\ now = 0 /\ members = {}
  /\ holding = [a \in Accounts |-> 0]
  /\ written = [t \in {} |-> holding]
  /\ announced = <<>>
  /\ paid = {} /\ returned = {} /\ pot = 0
  /\ earned = [a \in Accounts |-> 0]

Admit(a) ==
  /\ members' = members \cup {a}
  /\ UNCHANGED <<now, holding, written, announced, paid, returned, pot, earned>>

Issue(a, x) ==
  /\ a \in members /\ x > 0
  /\ holding' = [holding EXCEPT ![a] = @ + x]
  /\ UNCHANGED <<now, members, written, announced, paid, returned, pot, earned>>

HandOver(a, b, x) ==
  /\ {a, b} \subseteq members /\ x <= holding[a]
  /\ holding' = [c \in Accounts |-> holding[c] - (IF c = a THEN x ELSE 0)
                                              + (IF c = b THEN x ELSE 0)]
  /\ UNCHANGED <<now, members, written, announced, paid, returned, pot, earned>>

(* The second ends: the register is written down.                          *)
Close ==
  /\ now' = now + 1
  /\ written' = [t \in 0 .. now |-> IF t = now THEN holding ELSE written[t]]
  /\ UNCHANGED <<members, holding, announced, paid, returned, pot, earned>>

Announce(record, execution, amount) ==
  /\ now < record /\ record <= execution /\ amount > 0
  /\ announced' = Append(announced, [recordDate |-> record, executionDate |-> execution,
                                     amount |-> amount])
  /\ pot' = pot + amount
  /\ UNCHANGED <<now, members, holding, written, paid, returned, earned>>

Recorded(id) == announced[id].recordDate < now

HeldBy(id, a) == written[announced[id].recordDate][a]
HeldByAll(id) == SumFunctionOnSet(written[announced[id].recordDate], Accounts)

Portion(id, a) == (announced[id].amount * HeldBy(id, a)) \div HeldByAll(id)

Pay(id, a) ==
  /\ Recorded(id) /\ announced[id].executionDate <= now
  /\ <<id, a>> \notin paid
  /\ HeldByAll(id) # 0
  /\ paid' = paid \cup {<<id, a>>}
  /\ pot' = pot - Portion(id, a)
  /\ earned' = [earned EXCEPT ![a] = @ + Portion(id, a)]
  /\ UNCHANGED <<now, members, holding, written, announced, returned>>

TakeBack(id) ==
  /\ Recorded(id) /\ id \notin returned
  /\ HeldByAll(id) = 0
  /\ returned' = returned \cup {id}
  /\ pot' = pot - announced[id].amount
  /\ UNCHANGED <<now, members, holding, written, announced, paid, earned>>

Next ==
  \/ \E a \in Accounts : Admit(a)
  \/ \E a \in Accounts, x \in Shares : Issue(a, x)
  \/ \E a, b \in Accounts, x \in Shares : HandOver(a, b, x)
  \/ Close
  \/ \E r, e \in Dates, x \in Sums : Announce(r, e, x)
  \/ \E id \in DOMAIN announced, a \in Accounts : Pay(id, a)
  \/ \E id \in DOMAIN announced : TakeBack(id)

Spec == Init /\ [][Next]_registerVars
=============================================================================
