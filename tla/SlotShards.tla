----------------------------- MODULE SlotShards -----------------------------
(***************************************************************************)
(* How ThenarProtocol divides a task's slots among counters ("shards"), so *)
(* that two operators on one task usually write different counters.        *)
(*                                                                         *)
(* A task of n slots has ShardsFor(n) counters, numbered from 0.  Counter  *)
(* s may reach Quota(n, s).  An operator's own counter is picked by a hash *)
(* of the task and the operator; when it is full the run falls back to the *)
(* first counter that has room.                                            *)
(***************************************************************************)
EXTENDS Integers, Functions

CONSTANTS SLOTS_PER_SHARD,  \* fewest slots a counter holds when there are several
          MAX_SHARDS        \* most counters a task may have

ASSUME ShardAssumption ==
  /\ SLOTS_PER_SHARD \in Nat \ {0}
  /\ MAX_SHARDS \in Nat \ {0}

ShardsFor(n) ==
  LET k == n \div SLOTS_PER_SHARD
  IN  IF k = 0 THEN 1 ELSE IF k > MAX_SHARDS THEN MAX_SHARDS ELSE k

Shards(n) == 0 .. (ShardsFor(n) - 1)

Quota_NoRemainder(n, s) == n \div ShardsFor(n)

Quota(n, s) ==
  LET base == n \div ShardsFor(n)
  IN  IF s < n % ShardsFor(n) THEN base + 1 ELSE base

(* `filled` is a task's row of _shardFilled, a function on 0..MAX_SHARDS-1. *)
HasRoom_OneMore(filled, n, s) == filled[s] <= Quota(n, s)
HasRoom(filled, n, s) == filled[s] < Quota(n, s)

AnyShardWithRoom(filled, n) ==
  CHOOSE s \in Shards(n) : /\ HasRoom(filled, n, s)
                           /\ \A r \in 0 .. (s - 1) : ~ HasRoom(filled, n, r)

SlotsFilledOf(filled, n) == SumFunctionOnSet(filled, Shards(n))
=============================================================================
