---------------------------- MODULE CorpusShares ----------------------------
(***************************************************************************)
(* CorpusShares.sol: one token of whole shares per accepted run, held only *)
(* by admitted accounts; checkpoints of every balance by block second; and *)
(* dividends in USDC, paid by the balances at the end of a record second.  *)
(*                                                                         *)
(* A transaction is one action; several share one second of block.timestamp. *)
(***************************************************************************)
EXTENDS Integers, Sequences, FiniteSets, Functions

CONSTANTS
  Accounts,          \* who may be admitted
  Spenders,          \* who may be approved
  Issuer,            \* the server's key
  Self,              \* this contract, as a holder of USDC
  Unlimited          \* type(uint256).max, the allowance that never shrinks

CONSTANTS            \* what callers pass in, and the bounds of an instance
  Issues, Transfers, Allowances, Amounts,
  MaxSupply, MaxDividends, MaxTime, IssuerDollars

Times == 0 .. MaxTime

ASSUME SharesAssumption ==
  /\ IsFiniteSet(Accounts) /\ Issuer # Self /\ {Issuer, Self} \cap Accounts = {}
  /\ Issues \subseteq Nat /\ Transfers \subseteq Nat /\ Allowances \subseteq Nat
  /\ Amounts \subseteq Nat /\ Unlimited \in Nat
  /\ MaxSupply \in Nat /\ MaxDividends \in Nat /\ MaxTime \in Nat /\ IssuerDollars \in Nat

VARIABLES
  now,               \* block.timestamp
  listed,            \* _listed and _members
  balanceOf, allowance, totalSupply,
  balanceHistory,    \* _balanceHistory
  supplyHistory,     \* _supplyHistory
  dividends,         \* _dividends, numbered from 1
  claimedBy,
  usdc               \* dollars of those the contract deals with (external)

shareVars == <<balanceOf, totalSupply, balanceHistory, supplyHistory>>
dividendVars == <<dividends, claimedBy, usdc>>
vars == <<now, listed, allowance, shareVars, dividendVars>>

Checkpoints == Seq([at : Nat, value : Nat])

DividendIds == 1 .. MaxDividends

Init ==
  /\ now = 0 /\ listed = {}
  /\ balanceOf = [a \in Accounts |-> 0]
  /\ allowance = [a \in Accounts |-> [s \in Spenders |-> 0]]
  /\ totalSupply = 0
  /\ balanceHistory = [a \in Accounts |-> <<>>]
  /\ supplyHistory = <<>>
  /\ dividends = <<>>
  /\ claimedBy = [id \in DividendIds |-> {}]
  /\ usdc = [h \in Accounts \cup {Issuer, Self} |-> IF h = Issuer THEN IssuerDollars ELSE 0]

(* The clock of the chain.                                                 *)
Tick ==
  /\ now < MaxTime
  /\ now' = now + 1
  /\ UNCHANGED <<listed, allowance, shareVars, dividendVars>>

-----------------------------------------------------------------------------
(* Snapshots                                                               *)

Checkpoint_Kept(h, value) ==
  IF h # <<>> /\ h[Len(h)].at = now THEN h ELSE Append(h, [at |-> now, value |-> value])

(* _checkpoint: the last change of a second is the one that is kept.       *)
Checkpoint(h, value) ==
  IF h # <<>> /\ h[Len(h)].at = now
  THEN [h EXCEPT ![Len(h)] = [at |-> now, value |-> value]]
  ELSE Append(h, [at |-> now, value |-> value])

(* The loop of _valueAt, from the bounds it starts with to where they meet. *)
Bounds(h) == 0 .. Len(h)

Search_Before(h, at) ==
  LET meet[b \in Bounds(h) \X Bounds(h)] ==
        LET mid == (b[1] + b[2]) \div 2
        IN  IF b[1] >= b[2] THEN b[1]
            ELSE IF h[mid + 1].at >= at THEN meet[<<b[1], mid>>]
            ELSE meet[<<mid + 1, b[2]>>]
  IN  meet[<<0, Len(h)>>]

Search(h, at) ==
  LET meet[b \in Bounds(h) \X Bounds(h)] ==
        LET mid == (b[1] + b[2]) \div 2
        IN  IF b[1] >= b[2] THEN b[1]
            ELSE IF h[mid + 1].at > at THEN meet[<<b[1], mid>>]
            ELSE meet[<<mid + 1, b[2]>>]
  IN  meet[<<0, Len(h)>>]

ValueAt(h, at) == LET lo == Search(h, at) IN IF lo = 0 THEN 0 ELSE h[lo].value

BalanceOfAt(a, at) == ValueAt(balanceHistory[a], at)
TotalSupplyAt(at) == ValueAt(supplyHistory, at)

-----------------------------------------------------------------------------
(* Shares                                                                  *)

AddToControlList(a) ==
  /\ listed' = listed \cup {a}
  /\ UNCHANGED <<now, allowance, shareVars, dividendVars>>

Issue(holder, value) ==
  /\ value # 0 /\ totalSupply + value <= MaxSupply
  /\ holder \in listed
  /\ balanceOf' = [balanceOf EXCEPT ![holder] = @ + value]
  /\ totalSupply' = totalSupply + value
  /\ balanceHistory' = [balanceHistory EXCEPT ![holder] = Checkpoint(@, balanceOf'[holder])]
  /\ supplyHistory' = Checkpoint(supplyHistory, totalSupply')
  /\ UNCHANGED <<now, listed, allowance, dividendVars>>

Move_Unchecked(from, to, value) ==
  /\ {from, to} \subseteq listed
  /\ LET sent == [balanceOf EXCEPT ![from] = @ - value]
     IN  balanceOf' = [sent EXCEPT ![to] = @ + value]
  /\ LET noted == [balanceHistory EXCEPT ![from] = Checkpoint(@, balanceOf'[from])]
     IN  balanceHistory' = [noted EXCEPT ![to] = Checkpoint(@, balanceOf'[to])]
  /\ UNCHANGED <<now, listed, totalSupply, supplyHistory, dividendVars>>

(* _move, with the sender's balance written before the receiver's is read.  *)
Move(from, to, value) ==
  /\ {from, to} \subseteq listed
  /\ value <= balanceOf[from]
  /\ LET sent == [balanceOf EXCEPT ![from] = @ - value]
     IN  balanceOf' = [sent EXCEPT ![to] = @ + value]
  /\ LET noted == [balanceHistory EXCEPT ![from] = Checkpoint(@, balanceOf'[from])]
     IN  balanceHistory' = [noted EXCEPT ![to] = Checkpoint(@, balanceOf'[to])]
  /\ UNCHANGED <<now, listed, totalSupply, supplyHistory, dividendVars>>

Transfer(from, to, value) == Move(from, to, value) /\ UNCHANGED allowance

Approve(a, spender, value) ==
  /\ allowance' = [allowance EXCEPT ![a][spender] = value]
  /\ UNCHANGED <<now, listed, shareVars, dividendVars>>

TransferFrom(spender, from, to, value) ==
  /\ \/ allowance[from][spender] = Unlimited /\ UNCHANGED allowance
     \/ /\ allowance[from][spender] # Unlimited
        /\ value <= allowance[from][spender]
        /\ allowance' = [allowance EXCEPT ![from][spender] = @ - value]
  /\ Move(from, to, value)

-----------------------------------------------------------------------------
(* Dividends                                                               *)

Reached_SameSecond(id) == now >= dividends[id].recordDate
Reached(id) == now > dividends[id].recordDate

(* getDividendFor: what is owed, once the record date has passed.          *)
Owed(id, a) ==
  LET d == dividends[id]
      supply == TotalSupplyAt(d.recordDate)
  IN  IF ~ Reached(id) \/ supply = 0 THEN 0
      ELSE (d.amount * BalanceOfAt(a, d.recordDate)) \div supply

SetDividend_RecordNow(record, execution, amount) ==
  /\ Len(dividends) < MaxDividends
  /\ amount # 0 /\ record >= now /\ execution >= record
  /\ usdc[Issuer] >= amount
  /\ dividends' = Append(dividends, [recordDate |-> record, executionDate |-> execution,
                                     amount |-> amount, claimed |-> 0])
  /\ usdc' = [usdc EXCEPT ![Issuer] = @ - amount, ![Self] = @ + amount]
  /\ UNCHANGED <<now, listed, allowance, shareVars, claimedBy>>

SetDividend(record, execution, amount) ==
  /\ Len(dividends) < MaxDividends
  /\ amount # 0 /\ record > now /\ execution >= record
  /\ usdc[Issuer] >= amount
  /\ dividends' = Append(dividends, [recordDate |-> record, executionDate |-> execution,
                                     amount |-> amount, claimed |-> 0])
  /\ usdc' = [usdc EXCEPT ![Issuer] = @ - amount, ![Self] = @ + amount]
  /\ UNCHANGED <<now, listed, allowance, shareVars, claimedBy>>

ClaimDividend(id, a) ==
  /\ now >= dividends[id].executionDate
  /\ a \notin claimedBy[id]
  /\ Owed(id, a) # 0
  /\ claimedBy' = [claimedBy EXCEPT ![id] = @ \cup {a}]
  /\ dividends' = [dividends EXCEPT ![id].claimed = @ + Owed(id, a)]
  /\ usdc' = [usdc EXCEPT ![Self] = @ - Owed(id, a), ![a] = @ + Owed(id, a)]
  /\ UNCHANGED <<now, listed, allowance, shareVars>>

ReclaimDividend_Early(id) ==
  LET rest == dividends[id].amount - dividends[id].claimed
  IN  /\ TotalSupplyAt(dividends[id].recordDate) = 0
      /\ rest # 0
      /\ dividends' = [dividends EXCEPT ![id].claimed = dividends[id].amount]
      /\ usdc' = [usdc EXCEPT ![Self] = @ - rest, ![Issuer] = @ + rest]
      /\ UNCHANGED <<now, listed, allowance, shareVars, claimedBy>>

ReclaimDividend(id) ==
  LET rest == dividends[id].amount - dividends[id].claimed
  IN  /\ Reached(id)
      /\ TotalSupplyAt(dividends[id].recordDate) = 0
      /\ rest # 0
      /\ dividends' = [dividends EXCEPT ![id].claimed = dividends[id].amount]
      /\ usdc' = [usdc EXCEPT ![Self] = @ - rest, ![Issuer] = @ + rest]
      /\ UNCHANGED <<now, listed, allowance, shareVars, claimedBy>>

Next ==
  \/ Tick
  \/ \E a \in Accounts : AddToControlList(a)
  \/ \E a \in Accounts, x \in Issues : Issue(a, x)
  \/ \E a, b \in Accounts, x \in Transfers : Transfer(a, b, x)
  \/ \E a \in Accounts, s \in Spenders, x \in Allowances : Approve(a, s, x)
  \/ \E s \in Spenders, a, b \in Accounts, x \in Transfers : TransferFrom(s, a, b, x)
  \/ \E r, e \in Times, x \in Amounts : SetDividend(r, e, x)
  \/ \E id \in DOMAIN dividends, a \in Accounts : ClaimDividend(id, a)
  \/ \E id \in DOMAIN dividends : ReclaimDividend(id)

Spec == Init /\ [][Next]_vars

-----------------------------------------------------------------------------
(* Properties                                                              *)

Dividend == [recordDate : Nat, executionDate : Nat, amount : Nat, claimed : Nat]

TypeOK ==
  /\ now \in Nat /\ listed \subseteq Accounts
  /\ balanceOf \in [Accounts -> Nat] /\ totalSupply \in Nat
  /\ allowance \in [Accounts -> [Spenders -> Nat]]
  /\ balanceHistory \in [Accounts -> Checkpoints] /\ supplyHistory \in Checkpoints
  /\ dividends \in Seq(Dividend) /\ Len(dividends) <= MaxDividends
  /\ claimedBy \in [DividendIds -> SUBSET Accounts]
  /\ usdc \in [Accounts \cup {Issuer, Self} -> Nat]

(* The balances and the supply are checkpointed apart, and searched apart:  *)
(* at every second, passed or running, what the search finds for the        *)
(* holders adds up to what it finds for the supply, and for the running one *)
(* it is what everybody holds.                                              *)
SnapshotsAddUp ==
  /\ \A t \in 0 .. now :
        TotalSupplyAt(t) = SumFunctionOnSet([a \in Accounts |-> BalanceOfAt(a, t)], Accounts)
  /\ totalSupply = TotalSupplyAt(now)
  /\ \A a \in Accounts : balanceOf[a] = BalanceOfAt(a, now)

Unclaimed(id) == [a \in Accounts |-> IF a \in claimedBy[id] THEN 0 ELSE Owed(id, a)]

(* The dollars of each dividend cover everyone who has not claimed yet,     *)
(* whoever came first and whatever the divisions rounded, and the contract  *)
(* holds the dollars of all of them.                                        *)
ClaimsCovered ==
  /\ \A id \in DOMAIN dividends :
        SumFunctionOnSet(Unclaimed(id), Accounts) <= dividends[id].amount - dividends[id].claimed
  /\ usdc[Self] = SumFunctionOnSet([id \in DOMAIN dividends |->
                                      dividends[id].amount - dividends[id].claimed],
                                   DOMAIN dividends)

(* What a dividend owes a holder is settled when its record second ends: no *)
(* issue, transfer, claim or later dividend changes it.                     *)
OwedIsSettled ==
  [][\A id \in DOMAIN dividends :
        Reached(id) => \A a \in Accounts : Owed(id, a)' = Owed(id, a)]_vars

(* Checkpoints and searches stand for a register written down at the end of *)
(* every second: only members hold, a dividend announced before its record  *)
(* second pays by that second's page, once to each, and one that nobody held *)
(* a share for goes back.                                                   *)
Register == INSTANCE ShareRegister WITH
  Shares <- Issues \cup Transfers, Sums <- Amounts, Dates <- Times,
  members <- listed,
  holding <- balanceOf,
  written <- [t \in 0 .. now - 1 |-> [a \in Accounts |-> BalanceOfAt(a, t)]],
  announced <- [id \in DOMAIN dividends |->
                  [recordDate |-> dividends[id].recordDate,
                   executionDate |-> dividends[id].executionDate,
                   amount |-> dividends[id].amount]],
  paid <- {p \in DividendIds \X Accounts : p[2] \in claimedBy[p[1]]},
  returned <- {id \in DOMAIN dividends :
                 claimedBy[id] = {} /\ dividends[id].claimed = dividends[id].amount},
  pot <- usdc[Self],
  earned <- [a \in Accounts |-> usdc[a]]

ImplementsShareRegister == Register!Spec
=============================================================================
