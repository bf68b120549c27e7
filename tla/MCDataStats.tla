----------------------------- MODULE MCDataStats -----------------------------
(* Four ids over values of either sign: enough for ties of the two best.  *)
EXTENDS DataStatsOwner

MCIds == 1..4
MCNumbers == -1..2
=============================================================================
