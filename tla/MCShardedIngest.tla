-------------------------- MODULE MCShardedIngest --------------------------
(***************************************************************************)
(* Two of the dumps of the serial ingestion: redirects that a later page   *)
(* prolongs, and titles that differ only in case, so that what a redirect  *)
(* leads to depends on pages of other shards.                              *)
(***************************************************************************)
EXTENDS MCCorpusStore, ShardedIngest

MCShardDumps == {Wiki("stub", "luna", <<"moon", "moon">>), Wiki("article", "luna", <<"sun", "lune">>)}
=============================================================================
