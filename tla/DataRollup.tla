------------------------------ MODULE DataRollup ------------------------------
(* uimanager.cpp: the statistics of one data attribute.  Every source entry keeps   *)
(* the statistics of its values over the task/thread pairs; every function, file    *)
(* and the application keeps those of the sum, the mean, the maximum and the        *)
(* minimum of its entries, and a cache of one further statistic.  They are updated  *)
(* one value at a time, and rebuilt when a query finds them unknown.                *)
(*                                                                                 *)
(* An entry stands for its pair of function and entry index, in that order; a node  *)
(* (function, file or application: three copies of one text) is the set of its      *)
(* entries.  The values are integers; a mean and a variance are kept times the       *)
(* least common multiple of the counts, and a standard deviation as its square.     *)
EXTENDS DataStats

CONSTANTS Entries,    \* the entries, as numbers
          Pairs,      \* the indices of the task/thread pairs, from 1
          Values,     \* what setInt and its kin write
          Nodes,      \* the functions, files and the application: sets of entries
          Rollups,    \* the statistics that are kept up to date
          MiscStats,  \* the statistics queried through the cache
          L           \* a common multiple of the counts, which makes the means integers

EntryInvalid == "EntryInvalid"
AttrStats == {"AttrSum", "AttrCount", "AttrMax", "AttrMin"}

ASSUME DataRollupAssumption ==
    /\ Entries \subseteq Nat /\ Pairs \subseteq Nat \ {0} /\ Values \subseteq Int
    /\ IsFiniteSet(Entries) /\ IsFiniteSet(Pairs)
    /\ Nodes \subseteq SUBSET Entries
    /\ Rollups \subseteq {"EntrySum", "EntryMean", "EntryMax", "EntryMin"}
    /\ MiscStats \subseteq {"EntrySumOfSquares", "EntryStdDev", "EntryCount"}
    /\ L \in Nat \ {0} /\ \A c \in 1..Cardinality(Pairs) : L % c = 0

VARIABLES value,      \* per entry: the data field, a function on the pairs that have a value
          entry,      \* per entry: EntryStats
          rollup,     \* per node: sumStats, meanStats, maxStats and minStats
          misc        \* per node: miscStatsType and miscStats

vars == <<value, entry, rollup, misc>>

------------------------------------------------------------------------------
(* What an entry says of itself. *)

\* EntryStats without the max and the min: always known (getEntryDataStat).
Mean(d) == d.sum * (L \div d.num)
Variance(d) == L * d.squares * (L \div d.num) - Mean(d) * Mean(d)

EntryStat(d, kind) ==
    CASE kind = "EntrySum" -> d.sum
      [] kind = "EntryMean" -> Mean(d)
      [] kind = "EntryMax" -> d.max.v1
      [] kind = "EntryMin" -> d.min.v1
      [] kind = "EntrySumOfSquares" -> d.squares
      [] kind = "EntryCount" -> d.num
      [] kind = "EntryStdDev" -> Variance(d)

Known(d, kind) ==
    CASE kind = "EntryMax" -> MaxKnown(d)
      [] kind = "EntryMin" -> MinKnown(d)
      [] OTHER -> TRUE

\* A rescan: reset, then every value of f as a new one.  The order of the additions
\* does not matter: ties are broken by the id.
rescan(d, S, f) ==
    FoldSet(LAMBDA i, acc : updateStats(acc, i, f[i], FALSE, 0), resetStats(d), S)

rebuildEntryStats(e) == rescan(entry[e], DOMAIN value[e], value[e])

\* The entry after a query of one of its statistics (getEntryDataStat).
Queried(e, kind) ==
    IF Known(entry[e], kind) THEN entry[e] ELSE rebuildEntryStats(e)

------------------------------------------------------------------------------
Init ==
    /\ value = [e \in Entries |-> [p \in {} |-> 0]]
    /\ entry = [e \in Entries |-> EmptyStats]
    /\ rollup = [n \in Nodes |-> [k \in Rollups |-> EmptyStats]]
    /\ misc = [n \in Nodes |-> [type |-> EntryInvalid, stats |-> EmptyStats]]

\* updateEntryStats: the part of one kind of rollup, from the entry's statistics before
\* (old) and after (new) the change and the value v that was written.
\* Mutant (first): an entry whose maximum is not known leaves the rollup alone.
updateRollupKept(d, e, kind, old, new, v) ==
    IF Known(new, kind)
    THEN updateStats(d, e, EntryStat(new, kind), old.num # 0,
                     IF old.num = 0 THEN 0 ELSE EntryStat(old, kind))
    ELSE d

updateRollup(d, e, kind, old, new, v) ==
    IF Known(new, kind)
    THEN updateStats(d, e, EntryStat(new, kind), old.num # 0,
                     IF old.num = 0 THEN 0 ELSE EntryStat(old, kind))
    ELSE invalidateStats(d, e, v, old.num # 0)

Written(f, p, v) == [q \in DOMAIN f \cup {p} |-> IF q = p THEN v ELSE f[q]]

\* setInt, addInt, setDouble and addDouble: the value v of a pair, and all of
\* updateEntryStats.  What an invalid cache still holds is never read.
SetValue(e, p, v) ==
    LET update == p \in DOMAIN value[e]
        old == entry[e]
        new == updateStats(old, p, v, update, IF update THEN value[e][p] ELSE 0)
    IN
    /\ value' = [value EXCEPT ![e] = Written(value[e], p, v)]
    /\ entry' = [entry EXCEPT ![e] = new]
    /\ rollup' = [n \in Nodes |->
          IF e \in n
          THEN [k \in Rollups |-> updateRollup(rollup[n][k], e, k, old, new, v)]
          ELSE rollup[n]]
    /\ misc' = [n \in Nodes |->
          IF e \in n THEN [type |-> EntryInvalid, stats |-> EmptyStats] ELSE misc[n]]

\* The entries of a node that have data: its list of EntryStats.
Counted(n) == {e \in n : entry[e].num > 0}

\* The object that a query of a node's kind of entry statistic reads.
queryStats(n, kind) == IF kind \in Rollups THEN rollup[n][kind] ELSE misc[n].stats

\* It has to be rebuilt: another statistic is in the cache, or the one asked for is
\* unknown.
\* Mutant (first): the cache is used whatever statistic it holds.
needRebuildOther(n, attr, kind) ==
    LET d == queryStats(n, kind) IN
    \/ kind \in MiscStats /\ misc[n].type = EntryInvalid
    \/ attr = "AttrSum" /\ ~ d.known
    \/ attr = "AttrMax" /\ ~ MaxKnown(d)
    \/ attr = "AttrMin" /\ ~ MinKnown(d)

needRebuild(n, attr, kind) ==
    LET d == queryStats(n, kind) IN
    \/ kind \in MiscStats /\ misc[n].type # kind
    \/ attr = "AttrSum" /\ ~ d.known
    \/ attr = "AttrMax" /\ ~ MaxKnown(d)
    \/ attr = "AttrMin" /\ ~ MinKnown(d)

rebuilt(n, kind) ==
    rescan(queryStats(n, kind), Counted(n),
           [e \in Counted(n) |-> EntryStat(Queried(e, kind), kind)])

answering(n, attr, kind) ==
    IF needRebuild(n, attr, kind) THEN rebuilt(n, kind) ELSE queryStats(n, kind)

\* functionDataStat, fileDataStat and applicationDataStat.
dataStat(n, attr, kind) ==
    /\ Counted(n) # {}
    /\ needRebuild(n, attr, kind)
    /\ entry' = [e \in Entries |-> IF e \in Counted(n) THEN Queried(e, kind) ELSE entry[e]]
    /\ IF kind \in Rollups
       THEN rollup' = [rollup EXCEPT ![n][kind] = rebuilt(n, kind)] /\ UNCHANGED misc
       ELSE misc' = [misc EXCEPT ![n] = [type |-> kind, stats |-> rebuilt(n, kind)]]
            /\ UNCHANGED rollup
    /\ UNCHANGED value

\* entryDataStat of the maximum or the minimum.
entryDataStat(e, kind) ==
    /\ entry[e].num > 0
    /\ ~ Known(entry[e], kind)
    /\ entry' = [entry EXCEPT ![e] = rebuildEntryStats(e)]
    /\ UNCHANGED <<value, rollup, misc>>

Next ==
    \/ \E e \in Entries, p \in Pairs, v \in Values : SetValue(e, p, v)
    \/ \E n \in Nodes, attr \in AttrStats, kind \in Rollups \cup MiscStats :
          dataStat(n, attr, kind)
    \/ \E e \in Entries, kind \in {"EntryMax", "EntryMin"} : entryDataStat(e, kind)

Spec == Init /\ [][Next]_vars

------------------------------------------------------------------------------
(* What the statistics should be, from the values alone. *)

WithData(n) == {e \in n : DOMAIN value[e] # {}}

\* The statistic of the values f.
TruthOf(f, kind) ==
    LET S == DOMAIN f
        c == Cardinality(S)
        sum == SumOf(f, S)
        sq == SquaresOf(f, S)
        vals == {f[p] : p \in S}
    IN  CASE kind = "EntrySum" -> sum
          [] kind = "EntryMean" -> sum * (L \div c)
          [] kind = "EntryMax" -> Max(vals)
          [] kind = "EntryMin" -> Min(vals)
          [] kind = "EntrySumOfSquares" -> sq
          [] kind = "EntryCount" -> c
          [] kind = "EntryStdDev" -> ((c * sq - sum * sum) * L * L) \div (c * c)

Truths(n, kind) == [e \in WithData(n) |-> TruthOf(value[e], kind)]

\* The statistics of every entry are those of its values, its count is their number
\* whatever was written and rebuilt (the check "newCount != oldCount" of
\* rebuildEntryStats never fires), and its sums are never lost.
EntrySound(e) == Sound(entry[e], value[e], DOMAIN value[e]) /\ entry[e].known

\* What the rollups of a node say, and its cache while it is valid, is true of the
\* values now.
NodeSound(n) ==
    /\ \A k \in Rollups : Sound(rollup[n][k], Truths(n, k), WithData(n))
    /\ misc[n].type # EntryInvalid =>
          /\ Sound(misc[n].stats, Truths(n, misc[n].type), WithData(n))
          /\ misc[n].stats.known
          /\ MaxKnown(misc[n].stats) /\ MinKnown(misc[n].stats)

\* No write, query or rebuild, of an entry, of its node or of another node that shares
\* it, leaves a statistic behind that is neither true nor marked unknown.
StatsSound == (\A e \in Entries : EntrySound(e)) /\ (\A n \in Nodes : NodeSound(n))

\* The answer to every query of a node that has data: the sum, the count, or the
\* best value with the lowest entry that has it.
RightAnswer(d, attr, f, S) ==
    CASE attr = "AttrSum" -> d.known /\ d.sum = SumOf(f, S)
      [] attr = "AttrCount" -> d.num = Cardinality(S)
      [] attr = "AttrMax" -> MaxKnown(d) /\ Best(1, f, S, d.max.id1) /\ f[d.max.id1] = d.max.v1
      [] attr = "AttrMin" -> MinKnown(d) /\ Best(-1, f, S, d.min.id1) /\ f[d.min.id1] = d.min.v1

\* functionDataStat, fileDataStat and applicationDataStat answer every query, in every
\* state, with what the values say.
AnswersRight ==
    \A n \in Nodes, attr \in AttrStats, kind \in Rollups \cup MiscStats :
        WithData(n) # {} =>
            RightAnswer(answering(n, attr, kind), attr, Truths(n, kind), WithData(n))

------------------------------------------------------------------------------
(* The inductive invariant of the proofs. *)

TypeOK ==
    /\ value = [e \in Entries |-> value[e]]
    /\ \A e \in Entries : /\ DOMAIN value[e] \subseteq Pairs
                          /\ value[e] \in [DOMAIN value[e] -> Int]
    /\ entry \in [Entries -> StatsType]
    /\ rollup \in [Nodes -> [Rollups -> StatsType]]
    /\ misc \in [Nodes -> [type : MiscStats \cup {EntryInvalid}, stats : StatsType]]

\* A rollup whose sums are known has only entries whose statistic is known: the old
\* statistic that updateEntryStats takes off a sum is never one that was forgotten.
KnownTogether ==
    \A n \in Nodes, k \in Rollups :
        rollup[n][k].known => \A e \in WithData(n) : Known(entry[e], k)

IInv == TypeOK /\ StatsSound /\ KnownTogether
=============================================================================
