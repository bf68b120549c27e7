---------------------------- MODULE DataStatsOwner ----------------------------
(* A DataStats object and its owner, who keeps the rules of the header comment of  *)
(* datastats.h: an update is of a recorded value and gives the old one; a value    *)
(* that is invalidated lies between the one it had and the one passed; a rescan is *)
(* a reset and an addition of every value.                                         *)
EXTENDS DataStats

CONSTANTS Ids,       \* the ids of the values: entry or task/thread indices
          Numbers    \* the values

ASSUME DataStatsAssumption ==
    /\ Ids \subseteq Nat
    /\ Numbers \subseteq Int

VARIABLES has,       \* the recorded ids
          data,      \* their values; only the owner knows them all
          stats      \* the object

ownerVars == <<has, data, stats>>

OwnerInit ==
    /\ has = {}
    /\ data = [i \in Ids |-> 0]
    /\ stats = EmptyStats

Add(i, v) ==
    /\ i \notin has
    /\ has' = has \cup {i}
    /\ data' = [data EXCEPT ![i] = v]
    /\ stats' = updateStats(stats, i, v, FALSE, 0)

Update(i, v) ==
    /\ i \in has
    /\ data' = [data EXCEPT ![i] = v]
    /\ stats' = updateStats(stats, i, v, TRUE, data[i])
    /\ UNCHANGED has

\* The owner changes the value of i, and does not know the new one exactly.
Invalidate(i, v, real) ==
    /\ i \in has
    /\ \/ data[i] <= real /\ real <= v
       \/ v <= real /\ real <= data[i]
    /\ data' = [data EXCEPT ![i] = real]
    /\ stats' = invalidateStats(stats, i, v, TRUE)
    /\ UNCHANGED has

\* The start of a rescan: the owner adds every value again.
Reset ==
    /\ has' = {}
    /\ stats' = resetStats(stats)
    /\ UNCHANGED data

OwnerNext ==
    \/ \E i \in Ids, v \in Numbers : Add(i, v)
    \/ \E i \in Ids, v \in Numbers : Update(i, v)
    \/ \E i \in Ids, v, real \in Numbers : Invalidate(i, v, real)
    \/ Reset

OwnerSpec == OwnerInit /\ [][OwnerNext]_ownerVars

------------------------------------------------------------------------------
OwnerTypeOK ==
    /\ has \in SUBSET Ids
    /\ data \in [Ids -> Int]
    /\ stats \in StatsType

\* The maximum and the minimum that the object gives, with the lowest id among
\* equals, are those of the recorded values, whatever was added, changed and
\* invalidated before (DataStats::updateStats, invalidateStats).
Extrema == ExtremaSound(stats, data, has)

\* The sums, when they are given, are those of the recorded values, and the count
\* is their number.
Sums == SumsSound(stats, data, has) /\ stats.num = Cardinality(has)

\* The inductive invariant of the proofs.
OwnerIInv == OwnerTypeOK /\ IsFiniteSet(has) /\ Extrema /\ Sums
=============================================================================
