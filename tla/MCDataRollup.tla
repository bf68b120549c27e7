---------------------------- MODULE MCDataRollup ----------------------------
(* Two entries with two pairs each, two nodes that share an entry, one rollup   *)
(* and two statistics for the cache.                                            *)
EXTENDS DataRollup

MCEntries == 1..2
MCPairs == 1..2
MCValues == 0..2
MCNodes == {{1,2},{1}}
MCRollups == {"EntryMax"}
MCMisc == {"EntryCount","EntryStdDev"}
=============================================================================
