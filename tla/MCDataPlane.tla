---------------------------- MODULE MCDataPlane ----------------------------
EXTENDS DataPlane, TLC

CONSTANTS r1, r2

\* One shard streams two batches, the other none, as query_shard does.
MCBatches == r1 :> 2 @@ r2 :> 0
=============================================================================
