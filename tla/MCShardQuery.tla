---------------------------- MODULE MCShardQuery ----------------------------
EXTENDS ShardQuery
=============================================================================
