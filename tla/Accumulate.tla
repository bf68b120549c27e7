------------------------------ MODULE Accumulate -----------------------------
(* Sequential steps on a large value.  TLC evaluates an argument anew wherever  *)
(* it is looked at; a value bound to a variable of a set is computed once.      *)
LOCAL INSTANCE Naturals
LOCAL INSTANCE Sequences

\* The only member of a set: The({Step(v) : v \in {value}}) is Step(value).
The(S) == CHOOSE member \in S : TRUE

Halves(seq) == <<SubSeq(seq, 1, Len(seq) \div 2), SubSeq(seq, Len(seq) \div 2 + 1, Len(seq))>>

RECURSIVE Accumulated(_, _, _)
\* FoldLeft for a long sequence: it is halved, which keeps the recursion flat.
Accumulated(op(_, _), base, seq) ==
    CASE seq = << >> -> base
      [] Len(seq) = 1 -> op(base, seq[1])
      [] OTHER -> The({The({Accumulated(op, first, halves[2]) :
                                first \in {Accumulated(op, base, halves[1])}}) :
                       halves \in {Halves(seq)}})
=============================================================================
