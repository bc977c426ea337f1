---------------------------- MODULE MCOracleKeeper ----------------------------
(***************************************************************************)
(* OracleKeeper with a unit of 30 s: the jitter of 5 s is rounded up.      *)
(***************************************************************************)
EXTENDS OracleKeeper

MockDeployment ==
  [POOL_ADDRESSES |-> << >>,
   ORACLE_POLL_INTERVAL_MS |-> Raw(11, ""),
   ORACLE_PRUNE_EVERY_N |-> Raw(2, ""),
   PRUNE_BATCH_SIZE |-> Raw(1, ""),
   DISTRIBUTION_POLL_INTERVAL_MS |-> Raw(60, ""),
   DISTRIBUTION_PER_POOL_DELAY_MS |-> Raw(0, ""),
   MIN_FACTORY_BOUNTY_RESERVE_UBLUECHIP |-> Raw(2, ""),
   MOCK_ORACLE_ADDRESS |-> "mock"]
=============================================================================
