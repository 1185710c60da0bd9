--------------------------- MODULE SlotAllocation ---------------------------
(***************************************************************************)
(* How the Go planner divides the hash slots 0 .. count-1 among masters    *)
(* (src/internal/planner/go_planner.go; count is 16384 there).             *)
(***************************************************************************)
EXTENDS Integers

\* A new cluster: shard number shard of shards.
SlotRange(shard, shards, count) ==
    ((shard * count) \div shards) .. ((shard + 1) * count) \div shards - 1

RangeSizeFloor(index, total, count) == count \div total

\* A resharded one: the first count % total masters have one slot more.
RangeSize(index, total, count) ==
    count \div total + (IF index < count % total THEN 1 ELSE 0)

RangeStart(index, total, count) ==
    index * (count \div total)
        + (IF index < count % total THEN index ELSE count % total)

BalancedSlotRange(index, total, count) ==
    LET start == RangeStart(index, total, count)
    IN start .. start + RangeSize(index, total, count) - 1
=============================================================================
