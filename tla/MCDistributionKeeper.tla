------------------------- MODULE MCDistributionKeeper -------------------------
(***************************************************************************)
(* DistributionKeeper with two pools, an empty entry between them and      *)
(* numbers with text behind their digits.                                  *)
(***************************************************************************)
EXTENDS DistributionKeeper

TwoPools ==
  [POOL_ADDRESSES |-> <<"pool1", "", "pool2">>,
   ORACLE_POLL_INTERVAL_MS |-> Raw(33, ""),
   ORACLE_PRUNE_EVERY_N |-> Raw(2, ""),
   PRUNE_BATCH_SIZE |-> Raw(1, ""),
   DISTRIBUTION_POLL_INTERVAL_MS |-> Raw(2, ".5"),
   DISTRIBUTION_PER_POOL_DELAY_MS |-> Raw(0, "ms"),
   MIN_FACTORY_BOUNTY_RESERVE_UBLUECHIP |-> Raw(2, ""),
   MOCK_ORACLE_ADDRESS |-> ""]

UnevenBatches == [pool1 |-> 4, pool2 |-> 1]

FirstPool == {"pool1"}
=============================================================================
