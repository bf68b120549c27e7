------------------------------ MODULE MCActions ------------------------------
(* Two points and two actions; the dialog asks for one action at both points, or *)
(* for one action everywhere before another at the second point, in a list long  *)
(* enough to be sent in two messages.                                            *)
EXTENDS Actions

CONSTANTS p1, p2, t1, t2

MCPoints == {p1, p2}
MCTags == {t1, t2}

Short(t, ps) == [tag |-> t, insert |-> TRUE, matches |-> ps, length |-> 2]
Long(t, ps) == [Short(t, ps) EXCEPT !.length = 10]
Removal(t, ps) == [Short(t, ps) EXCEPT !.insert = FALSE]

MCLists == {<<Short(t1, {p1, p2}), Short(t2, {p2})>>,
            <<Short(t2, {p1}), Removal(t1, {p1})>>,
            <<Long(t1, {p1}), Long(t2, {p1}), Long(t2, {p2})>>}
MCOneList == {<<Short(t1, {p1})>>}
=============================================================================
