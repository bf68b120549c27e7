------------------------------- MODULE DataStats -------------------------------
(* datastats.cpp: the sum, the maximum and the minimum of a set of values of     *)
(* which one changes at a time.  Only the two best values of each side are kept;  *)
(* when an update takes them away the side is no longer known, and the owner      *)
(* resets the object and adds every value again.                                  *)
(*                                                                                *)
(* DataStats and DataStatsIdArray are the same text but for the type of an id;    *)
(* ids here are numbers, in the order that smallerId gives.  The halves for the   *)
(* maximum and the minimum are the same text but for > and <: they are one        *)
(* operator with a parameter s that is 1 for the maximum and -1 for the minimum.  *)
EXTENDS Integers, FiniteSets, FiniteSetsExt

NULL_INT == -1

\* A value beats another when it is better, or as good with a lower id.
Ahead(s, v, i, w, j) == s * v > s * w \/ (v = w /\ i < j)

\* The best two values of one side; an id of NULL_INT: not known, and the value that
\* the code leaves beside it is never read (0 here).
Side(i1, v1, i2, v2) == [id1 |-> i1, v1 |-> v1, id2 |-> i2, v2 |-> v2]
Unknown == Side(NULL_INT, 0, NULL_INT, 0)
Only(i, v) == Side(i, v, NULL_INT, 0)
NewBest(h, i, v) == Side(i, v, h.id1, h.v1)
Second(h, i, v) == Side(h.id1, h.v1, i, v)
NoSecond(h) == Only(h.id1, h.v1)

\* A value belongs in second place: there is only one other, or it beats the second.
TakesSecond(s, h, n, i, v) ==
    n = 2 \/ (h.id2 # NULL_INT /\ Ahead(s, v, i, h.v2, h.id2))

AddSide(s, h, n, i, v) ==
    IF h.id1 = NULL_INT THEN h
    ELSE IF Ahead(s, v, i, h.v1, h.id1) THEN NewBest(h, i, v)
    ELSE IF TakesSecond(s, h, n, i, v) THEN Second(h, i, v)
    ELSE h

\* Mutants: the second stays when it falls; the best falls back to a second that
\* may be out of date.
ChangeSecondKept(s, h, n, v) == Second(h, h.id2, v)
ChangeBestKept(s, h, v) == Side(h.id1, v, h.id2, h.v2)

\* The value of the best id changes.
ChangeBest(s, h, v) ==
    IF s * v >= s * h.v1 \/ (h.id2 # NULL_INT /\ Ahead(s, v, h.id1, h.v2, h.id2))
    THEN Side(h.id1, v, h.id2, h.v2)
    ELSE IF h.id2 # NULL_INT THEN Only(h.id2, h.v2)
    ELSE Unknown

\* The value of the second id changes and stays behind the best.
ChangeSecond(s, h, n, v) ==
    IF s * v >= s * h.v2 \/ n = 2 THEN Second(h, h.id2, v) ELSE NoSecond(h)

ChangeSide(s, h, n, i, v) ==
    IF h.id1 = NULL_INT THEN h
    ELSE IF h.id1 = i THEN ChangeBest(s, h, v)
    ELSE IF Ahead(s, v, i, h.v1, h.id1) THEN NewBest(h, i, v)
    ELSE IF h.id2 = i THEN ChangeSecond(s, h, n, v)
    ELSE IF TakesSecond(s, h, n, i, v) THEN Second(h, i, v)
    ELSE h

\* Mutant: only the best is looked at.
InvalidateSideFirst(s, h, i, v) ==
    IF h.id1 # NULL_INT /\ h.id1 = i THEN Unknown ELSE h

InvalidateSide(s, h, i, v) ==
    IF h.id1 = NULL_INT THEN h
    ELSE IF h.id1 = i \/ Ahead(s, v, i, h.v1, h.id1) THEN Unknown
    ELSE IF h.id2 # NULL_INT /\ (h.id2 = i \/ Ahead(s, v, i, h.v2, h.id2))
    THEN NoSecond(h)
    ELSE h

------------------------------------------------------------------------------
(* The object.  known: the two sums are not the error value (they are 0 here when   *)
(* they are).                                                                      *)

Stats(n, known, sum, squares, max, min) ==
    [num |-> n, known |-> known, sum |-> sum, squares |-> squares,
     max |-> max, min |-> min]

\* A new object: resetStats and the constructor set numData only.
EmptyStats == Stats(0, TRUE, 0, 0, Unknown, Unknown)
resetStats(d) == [d EXCEPT !.num = 0]

First(i, v) == Stats(1, TRUE, v, v * v, Only(i, v), Only(i, v))

AddStats(d, i, v) ==
    LET n == d.num + 1 IN
    IF d.num = 0 THEN First(i, v)
    ELSE Stats(n, d.known,
               IF d.known THEN d.sum + v ELSE 0,
               IF d.known THEN d.squares + v * v ELSE 0,
               AddSide(1, d.max, n, i, v), AddSide(-1, d.min, n, i, v))

ChangeStats(d, i, v, old) ==
    IF d.num <= 1 THEN First(i, v)
    ELSE Stats(d.num, d.known,
               IF d.known THEN d.sum + v - old ELSE 0,
               IF d.known THEN d.squares + v * v - old * old ELSE 0,
               ChangeSide(1, d.max, d.num, i, v), ChangeSide(-1, d.min, d.num, i, v))

\* Mutant: an update is added to the sum like a new value.
updateStatsAdded(d, i, v, update, old) ==
    IF update THEN ChangeStats(d, i, v, 0) ELSE AddStats(d, i, v)

updateStats(d, i, v, update, old) ==
    IF update THEN ChangeStats(d, i, v, old) ELSE AddStats(d, i, v)

\* Mutant: the sums are not invalidated.
invalidateStatsSum(d, i, v, update) ==
    Stats(IF update THEN d.num ELSE d.num + 1, d.known, d.sum, d.squares,
          InvalidateSide(1, d.max, i, v), InvalidateSide(-1, d.min, i, v))

invalidateStats(d, i, v, update) ==
    Stats(IF update THEN d.num ELSE d.num + 1, FALSE, 0, 0,
          InvalidateSide(1, d.max, i, v), InvalidateSide(-1, d.min, i, v))

MaxKnown(d) == d.num > 0 /\ d.max.id1 # NULL_INT
MinKnown(d) == d.num > 0 /\ d.min.id1 # NULL_INT

------------------------------------------------------------------------------
(* What an object promises about the values f of the recorded ids S. *)

\* i is the best of S: every other is behind it.
Best(s, f, S, i) == i \in S /\ \A j \in S \ {i} : ~ Ahead(s, f[j], j, f[i], i)

SideSound(s, h, f, S) ==
    h.id1 # NULL_INT =>
        /\ Best(s, f, S, h.id1) /\ f[h.id1] = h.v1
        /\ h.id2 # NULL_INT =>
              Best(s, f, S \ {h.id1}, h.id2) /\ f[h.id2] = h.v2

SumOf(f, S) == MapThenSumSet(LAMBDA i : f[i], S)
SquaresOf(f, S) == SumOf([i \in S |-> f[i] * f[i]], S)

\* What the object d says of the values f of S is true, or it says nothing.
ExtremaSound(d, f, S) ==
    S # {} => SideSound(1, d.max, f, S) /\ SideSound(-1, d.min, f, S)

SumsSound(d, f, S) ==
    S # {} /\ d.known => d.sum = SumOf(f, S) /\ d.squares = SquaresOf(f, S)

Sound(d, f, S) ==
    d.num = Cardinality(S) /\ SumsSound(d, f, S) /\ ExtremaSound(d, f, S)

SideType == [id1 : Nat \cup {NULL_INT}, v1 : Int, id2 : Nat \cup {NULL_INT}, v2 : Int]
StatsType == [num : Nat, known : BOOLEAN, sum : Int, squares : Int,
              max : SideType, min : SideType]
=============================================================================
